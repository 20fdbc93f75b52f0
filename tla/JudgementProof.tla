--------------------------- MODULE JudgementProof ---------------------------
(***************************************************************************)
(* Proofs about Judgement: the checker refuses no linearizable history,    *)
(* accepts no other before it runs out of its limit, and finds what the    *)
(* recorder makes of a right service to be right.                          *)
(*                                                                         *)
(* The search (semantics/checker/brute.hpp) permutes one array; the proof  *)
(* keeps the array of every level of the recursion.  At a level some calls *)
(* are placed and have taken the store to the state of the level, in some  *)
(* order; the others may be Possible to place from there on.  If they are, *)
(* they are beginning with one that no other precedes and whose answer     *)
(* fits (FirstStep), so when every such call has been tried in vain        *)
(* nothing is possible.  A lost call that is tried may as well be          *)
(* executed: that it may also be ignored is used nowhere.                  *)
(*                                                                         *)
(* The recorder (history/recorder.cpp) is right because the executions of  *)
(* the service, in the order in which they happen, explain what it puts    *)
(* down at every moment (RightSoFar).                                      *)
(*                                                                         *)
(* An induction over the length of a history is put as the least number at *)
(* which a claim fails (LeastElement).                                     *)
(***************************************************************************)
EXTENDS Judgement, FiniteSetTheorems, SequenceTheorems, WellFoundedInduction, TLAPS

\* A set of natural numbers has a least one: what says of data what an
\* induction would.
LEMMA LeastElement ==
  ASSUME NEW T \in SUBSET Nat, T # {}
  PROVE  \E n \in T : \A m \in T : n <= m
<1>. DEFINE R == {ss \in Nat \X Nat : ss[1] < ss[2]}
<1>1. IsWellFoundedOn(R, Nat)
  BY NatLessThanWellFounded DEF OpToRel
<1>2. \A m, n \in Nat : <<m, n>> \notin R => n <= m
  OBVIOUS
<1>. HIDE DEF R
<1>3. \E n \in T : \A m \in T : <<m, n>> \notin R
  BY <1>1, WFMin
<1>. QED
  BY <1>2, <1>3

-----------------------------------------------------------------------------
(* The sequential store *)

\* The store begins as a store (KVDefaultValue).
LEMMA InitialStateType == InitialState \in State
BY DEF InitialState, State

\* Every operation leaves a store (KVStoreModel::Apply).
LEMMA NextStateType ==
  ASSUME NEW s \in State, NEW op \in Operation
  PROVE  NextState(s, op) \in State
<1>1. CASE op \in [method : {"Set"}, key : Key, value : Val]
  BY <1>1 DEF NextState, State
<1>2. CASE op \in [method : {"Get"}, key : Key]
  BY <1>2 DEF NextState, State
<1>3. CASE op \in [method : {"Cas"}, key : Key, expected : Val \cup {Default}, value : Val]
  BY <1>3 DEF NextState, State
<1>. QED
  BY <1>1, <1>2, <1>3 DEF Operation

\* A call that does not matter leaves no trace in the store.
LEMMA LostGetsDoNothing ==
  ASSUME NEW call \in Call, ~Matters(call), NEW s \in State
  PROVE  call.end_time = None /\ NextState(s, call.op) = s
<1>1. call.op \in Operation /\ call.op.method = "Get"
  BY DEF Matters, IsMutation, Call, Operation
<1>. QED
  BY <1>1 DEF Matters, IsCompleted, NextState

\* st are the states that the calls of h at the places order go through.
GoesOn(h, order, n, st, s) ==
  /\ st[0] = s
  /\ \A i \in 1 .. n : st[i] = NextState(st[i - 1], h[order[i]].op)

\* They are stores, too.
Goes(h, order, n, st, s) == st \in [0 .. n -> State] /\ GoesOn(h, order, n, st, s)

\* What is known of a call of a history; none precedes itself.
LEMMA CallOf ==
  ASSUME NEW h \in Seq(Call), NEW i \in DOMAIN h
  PROVE  /\ h[i] \in Call /\ h[i].op \in Operation
         /\ h[i].start_time \in Nat /\ h[i].end_time \in Nat \cup {None}
         /\ ~PrecedesInRealTime(h[i], h[i])
<1>1. h[i] \in Call
  OBVIOUS
<1>. QED
  BY <1>1 DEF Call, PrecedesInRealTime, IsCompleted

\* Two runs of one order are the same.
LEMMA RunsAgree ==
  ASSUME NEW h, NEW order, NEW n \in Nat, NEW s, NEW f, NEW g,
         GoesOn(h, order, n, f, s), GoesOn(h, order, n, g, s)
  PROVE  \A i \in 0 .. n : f[i] = g[i]
<1>. USE DEF GoesOn
<1>. DEFINE T == {i \in 0 .. n : f[i] # g[i]}
<1>. SUFFICES ASSUME T # {}
              PROVE  FALSE
  OBVIOUS
<1>1. T \in SUBSET Nat
  OBVIOUS
<1>. HIDE DEF T
<1>2. PICK k \in T : \A m \in T : k <= m
  BY <1>1, LeastElement
<1>3. k \in 0 .. n /\ f[k] # g[k]
  BY DEF T
<1>4. k \in 1 .. n /\ k - 1 \in 0 .. n /\ k - 1 \notin T
  BY <1>2, <1>3
<1>5. f[k - 1] = g[k - 1]
  BY <1>4 DEF T
<1>. QED
  BY <1>3, <1>4, <1>5

\* A function of the numbers to n may be given by its first value and how each
\* value follows from the one before.
Follows(g, n, s, F) == g[0] = s /\ \A i \in 1 .. n : g[i] = F[<<i, g[i - 1]>>]

\* A recursive function over 0 .. n is what its definition says.  The provers
\* have no induction: were it not, there would be a least number where not.
LEMMA Recursion ==
  ASSUME NEW S, NEW s \in S, NEW n \in Nat, NEW F \in [(1 .. n) \X S -> S]
  PROVE  \E g \in [0 .. n -> S] : Follows(g, n, s, F)
<1>. DEFINE Runs(k) == {g \in [0 .. k -> S] :
                          g[0] = s /\ \A i \in 1 .. k : g[i] = F[<<i, g[i - 1]>>]}
            T == {k \in 0 .. n : Runs(k) = {}}
<1>1. Runs(0) # {}
  <2>. DEFINE g == [i \in 0 .. 0 |-> s]
  <2>1. g \in Runs(0)
    OBVIOUS
  <2>. QED
    BY <2>1
<1>2. ASSUME NEW k \in 1 .. n, Runs(k - 1) # {}
      PROVE  Runs(k) # {}
  <2>1. PICK g \in [0 .. k - 1 -> S] :
          g[0] = s /\ \A i \in 1 .. k - 1 : g[i] = F[<<i, g[i - 1]>>]
    BY <1>2
  <2>2. F[<<k, g[k - 1]>>] \in S
    OBVIOUS
  <2>. DEFINE more == [i \in 0 .. k |-> IF i = k THEN F[<<k, g[k - 1]>>] ELSE g[i]]
  <2>3. more \in [0 .. k -> S]
    BY <2>2
  <2>4. \A i \in 0 .. k - 1 : more[i] = g[i]
    OBVIOUS
  <2>5. more[k] = F[<<k, g[k - 1]>>]
    OBVIOUS
  <2>. HIDE DEF more
  <2>6. more[0] = s
    BY <2>1, <2>4
  <2>7. \A i \in 1 .. k : more[i] = F[<<i, more[i - 1]>>]
    <3>. SUFFICES ASSUME NEW i \in 1 .. k
                  PROVE  more[i] = F[<<i, more[i - 1]>>]
      OBVIOUS
    <3>1. more[i - 1] = g[i - 1]
      BY <2>4
    <3>2. CASE i = k
      BY <2>5, <3>1, <3>2
    <3>3. CASE i \in 1 .. k - 1
      BY <2>1, <2>4, <3>1, <3>3
    <3>. QED
      BY <3>2, <3>3
  <2>. QED
    BY <2>3, <2>6, <2>7
<1>3. T = {}
  <2>. SUFFICES ASSUME T # {}
                PROVE  FALSE
    OBVIOUS
  <2>1. T \in SUBSET Nat
    OBVIOUS
  <2>. HIDE DEF T
  <2>2. PICK k \in T : \A m \in T : k <= m
    BY <2>1, LeastElement
  <2>3. k \in 0 .. n /\ Runs(k) = {}
    BY DEF T
  <2>. HIDE DEF Runs
  <2>4. k \in 1 .. n
    BY <1>1, <2>3
  <2>5. k - 1 \notin T /\ k - 1 \in 0 .. n
    BY <2>2, <2>4
  <2>. QED
    BY <1>2, <2>3, <2>4, <2>5 DEF T
<1>4. Runs(n) # {}
  <2>. HIDE DEF Runs
  <2>1. n \in 0 .. n
    OBVIOUS
  <2>. QED
    BY <1>3, <2>1
<1>. QED
  BY <1>4 DEF Follows

\* Run is one of them, and the only one that begins in the initial state.
LEMMA RunExists ==
  ASSUME NEW h \in Seq(Call), NEW n \in Nat, NEW order \in [1 .. n -> DOMAIN h]
  PROVE  Goes(h, order, n, Run(h, order), InitialState)
<1>. DEFINE F == [x \in (1 .. n) \X State |-> NextState(x[2], h[order[x[1]]].op)]
            Step(g, i) == IF i = 0 THEN InitialState
                                   ELSE NextState(g[i - 1], h[order[i]].op)
<1>1. \A i \in 1 .. n : h[order[i]].op \in Operation
  BY CallOf
<1>2. F \in [(1 .. n) \X State -> State]
  BY <1>1, NextStateType
<1>3. \A i \in 1 .. n, s \in State : F[<<i, s>>] = NextState(s, h[order[i]].op)
  OBVIOUS
<1>. HIDE DEF F
<1>4. PICK g \in [0 .. n -> State] : Follows(g, n, InitialState, F)
  BY <1>2, InitialStateType, Recursion
<1>5. \A i \in 0 .. n : g[i] = Step(g, i)
  <2>. SUFFICES ASSUME NEW i \in 0 .. n
                PROVE  g[i] = Step(g, i)
    OBVIOUS
  <2>1. CASE i = 0
    BY <1>4, <2>1 DEF Follows
  <2>2. CASE i \in 1 .. n
    <3>1. i - 1 \in 0 .. n /\ i # 0
      BY <2>2
    <3>. QED
      BY <1>3, <1>4, <2>2, <3>1 DEF Follows
  <2>. QED
    BY <2>1, <2>2
<1>6. Len(order) = n
  OBVIOUS
<1>7. g = [i \in 0 .. n |-> Step(g, i)]
  BY <1>5
<1>8. Run(h, order) = [i \in 0 .. n |-> Step(Run(h, order), i)]
  BY <1>6, <1>7 DEF Run
<1>. DEFINE r == Run(h, order)
<1>. HIDE DEF r
<1>9. r = [i \in 0 .. n |-> Step(r, i)]
  BY <1>8 DEF r
<1>10. GoesOn(h, order, n, r, InitialState)
  <2>1. \A i \in 0 .. n : r[i] = Step(r, i)
    BY <1>9
  <2>. QED
    BY <2>1, SMTT(30) DEF GoesOn
<1>11. GoesOn(h, order, n, g, InitialState)
  BY <1>5 DEF GoesOn
<1>12. \A i \in 0 .. n : r[i] = g[i]
  BY <1>10, <1>11, RunsAgree
<1>13. r \in [0 .. n -> State]
  <2>1. \A i \in 0 .. n : r[i] \in State
    BY <1>5, <1>12
  <2>2. \A i \in 0 .. n : Step(r, i) \in State
    BY <1>9, <2>1
  <2>. QED
    BY <1>9, <2>2
<1>. QED
  BY <1>10, <1>13 DEF Goes, r

-----------------------------------------------------------------------------
(* Orders of calls *)

\* An answer fits if there is one and it is that of state s.
Answers(s, call) == call.end_time = None \/ Output(s, call.op) = call.result

\* The n calls of h at the places order are executed one after the other from
\* s on, which takes the store through the states st.
IsOrder(h, P, n, order, st, s) ==
  /\ order \in [1 .. n -> P]
  /\ \A i, j \in 1 .. n : order[i] = order[j] => i = j
  /\ Goes(h, order, n, st, s)
  /\ \A i \in 1 .. n : Answers(st[i - 1], h[order[i]])
  /\ \A i, j \in 1 .. n : i < j => ~PrecedesInRealTime(h[order[j]], h[order[i]])

\* No completed call of P is left out.
Covers(h, P, n, order) ==
  \A p \in P : h[p].end_time # None => \E i \in 1 .. n : order[i] = p

\* Real time is kept in the words of the definition and of the checker.
LEMMA RealTime ==
  ASSUME NEW h \in Seq(Call), NEW n \in Nat, NEW order \in [1 .. n -> DOMAIN h]
  PROVE  KeepsRealTime(h, order) <=>
           \A i, j \in 1 .. n : i < j => ~PrecedesInRealTime(h[order[j]], h[order[i]])
<1>1. \A i, j \in 1 .. n :
        ~PrecedesInRealTime(h[order[j]], h[order[i]]) <=>
          \/ h[order[j]].end_time = None
          \/ h[order[j]].end_time >= h[order[i]].start_time
  <2>. SUFFICES ASSUME NEW i \in 1 .. n, NEW j \in 1 .. n
                PROVE  ~PrecedesInRealTime(h[order[j]], h[order[i]]) <=>
                         \/ h[order[j]].end_time = None
                         \/ h[order[j]].end_time >= h[order[i]].start_time
    OBVIOUS
  <2>1. order[i] \in DOMAIN h /\ order[j] \in DOMAIN h
    OBVIOUS
  <2>2. h[order[i]].start_time \in Nat /\ h[order[j]].end_time \in Nat \cup {None}
    BY <2>1, CallOf
  <2>. QED
    BY <2>2 DEF PrecedesInRealTime, IsCompleted
<1>2. DOMAIN order = 1 .. n
  OBVIOUS
<1>. QED
  BY <1>1, <1>2 DEF KeepsRealTime

\* An order of a set is a bijection.
LEMMA ArrangementIsOnto ==
  ASSUME NEW S, IsFiniteSet(S), NEW f \in Arrangements(S), NEW x \in S
  PROVE  \E i \in 1 .. Cardinality(S) : f[i] = x
<1>. DEFINE n == Cardinality(S)
<1>1. n \in Nat
  BY FS_CardinalityType
<1>2. f \in [1 .. n -> S] /\ \A i, j \in 1 .. n : f[i] = f[j] => i = j
  BY DEF Arrangements
<1>3. f \in Injection(1 .. n, S)
  BY <1>2 DEF Injection, IsInjective
<1>4. Cardinality(1 .. n) = n
  BY <1>1, FS_Interval
<1>. HIDE DEF n
<1>5. f \in Surjection(1 .. n, S)
  BY <1>3, <1>4, FS_Injection DEF n
<1>. QED
  BY <1>5 DEF Surjection, n

\* As many calls as there are in an order.
LEMMA OrderIsArrangement ==
  ASSUME NEW S, NEW n \in Nat, NEW order \in [1 .. n -> S],
         \A i, j \in 1 .. n : order[i] = order[j] => i = j,
         \A x \in S : \E i \in 1 .. n : order[i] = x
  PROVE  IsFiniteSet(S) /\ Cardinality(S) = n /\ order \in Arrangements(S)
<1>2. order \in Surjection(1 .. n, S) /\ order \in Injection(1 .. n, S)
  BY DEF Surjection, Injection, IsInjective
<1>3. IsFiniteSet(1 .. n) /\ Cardinality(1 .. n) = n
  BY FS_Interval
<1>4. IsFiniteSet(S) /\ Cardinality(S) = n
  BY <1>2, <1>3, FS_Surjection
<1>5. order \in Arrangements(S)
  BY <1>4 DEF Arrangements
<1>. QED
  BY <1>4, <1>5

\* An order of calls of h that covers h shows that h is linearizable.
LEMMA OrderLinearizes ==
  ASSUME NEW h \in Seq(Call), NEW P \in SUBSET (DOMAIN h), NEW n \in Nat,
         NEW order, NEW st, IsOrder(h, P, n, order, st, InitialState),
         Covers(h, DOMAIN h, n, order)
  PROVE  Linearizable(h)
<1>. DEFINE S == {order[i] : i \in 1 .. n}
            completed == {i \in DOMAIN h : h[i].end_time # None}
            lost == S \ completed
<1>1. /\ order \in [1 .. n -> P] /\ order \in [1 .. n -> DOMAIN h]
      /\ \A i, j \in 1 .. n : order[i] = order[j] => i = j
      /\ Goes(h, order, n, st, InitialState)
      /\ \A i \in 1 .. n : Answers(st[i - 1], h[order[i]])
  BY DEF IsOrder
<1>2. order \in Arrangements(S) /\ IsFiniteSet(S) /\ Cardinality(S) = n
  <2>1. \A x \in S : \E i \in 1 .. n : order[i] = x
    OBVIOUS
  <2>2. order \in [1 .. n -> S]
    BY <1>1
  <2>. HIDE DEF S
  <2>3. \A i, j \in 1 .. n : order[i] = order[j] => i = j
    BY <1>1
  <2>. QED
    BY <2>1, <2>2, <2>3, OrderIsArrangement
<1>3. completed \cup lost = S
  BY <1>1 DEF Covers
<1>4. lost \in SUBSET (DOMAIN h \ completed)
  BY <1>1
<1>5. KeepsRealTime(h, order)
  BY <1>1, RealTime DEF IsOrder
<1>6. Explains(h, order)
  <2>1. Goes(h, order, n, Run(h, order), InitialState)
    BY <1>1, RunExists
  <2>2. \A i \in 0 .. n : Run(h, order)[i] = st[i]
    BY <1>1, <2>1, RunsAgree DEF Goes
  <2>3. \A i \in 1 .. n : i - 1 \in 0 .. n
    OBVIOUS
  <2>4. DOMAIN order = 1 .. n
    BY <1>1
  <2>. QED
    BY <1>1, <2>2, <2>3, <2>4 DEF Explains, Answers
<1>. HIDE DEF S, completed, lost
<1>7. \E o \in Arrangements(completed \cup lost) :
        KeepsRealTime(h, o) /\ Explains(h, o)
  BY <1>2, <1>3, <1>5, <1>6
<1>. QED
  BY <1>4, <1>7 DEF Linearizable, completed

-----------------------------------------------------------------------------
(* What is left to be placed *)

\* The lost calls that change nothing, which Cleanup drops.
Gets(h) == {i \in DOMAIN h : ~Matters(h[i])}

\* The orders of the calls in R, with some of the dropped ones, from s on.
Orders(h, R, s, n) ==
  {w \in [1 .. n -> R \cup Gets(h)] \X [0 .. n -> State] :
     IsOrder(h, R \cup Gets(h), n, w[1], w[2], s) /\ Covers(h, R, n, w[1])}

\* From s on there is an order of calls in R, and of lost Gets, that covers R.
Possible(h, R, s) == \E n \in Nat : Orders(h, R, s, n) # {}

\* What such an order is.
LEMMA OrdersAre ==
  ASSUME NEW h, NEW R, NEW s, NEW n \in Nat, NEW order, NEW st,
         IsOrder(h, R \cup Gets(h), n, order, st, s), Covers(h, R, n, order)
  PROVE  Orders(h, R, s, n) # {}
<1>1. order \in [1 .. n -> R \cup Gets(h)] /\ st \in [0 .. n -> State]
  BY DEF IsOrder, Goes
<1>2. <<order, st>> \in Orders(h, R, s, n)
  BY <1>1 DEF Orders
<1>. QED
  BY <1>2

\* Without completed calls nothing needs to be placed.
LEMMA NothingToPlace ==
  ASSUME NEW h, NEW R, NEW s \in State, \A p \in R : h[p].end_time = None
  PROVE  Possible(h, R, s)
<1>. DEFINE order == [i \in 1 .. 0 |-> 0]
            st == [i \in 0 .. 0 |-> s]
<1>1. IsOrder(h, R \cup Gets(h), 0, order, st, s)
  BY DEF IsOrder, Goes, GoesOn
<1>2. Covers(h, R, 0, order)
  BY DEF Covers
<1>. QED
  BY <1>1, <1>2, OrdersAre DEF Possible

\* What comes after the first call of an order.
LEMMA Rest ==
  ASSUME NEW h, NEW P, NEW n \in Nat, n > 0, NEW order, NEW st, NEW s,
         IsOrder(h, P, n, order, st, s), NEW Q,
         \A i \in 2 .. n : order[i] \in Q
  PROVE  LET rest == [i \in 1 .. n - 1 |-> order[i + 1]]
             later == [i \in 0 .. n - 1 |-> st[i + 1]]
         IN  IsOrder(h, Q, n - 1, rest, later, NextState(s, h[order[1]].op))
<1>. DEFINE rest == [i \in 1 .. n - 1 |-> order[i + 1]]
            later == [i \in 0 .. n - 1 |-> st[i + 1]]
<1>1. /\ order \in [1 .. n -> P]
      /\ \A i, j \in 1 .. n : order[i] = order[j] => i = j
      /\ st \in [0 .. n -> State]
      /\ st[0] = s
      /\ \A i \in 1 .. n : st[i] = NextState(st[i - 1], h[order[i]].op)
      /\ \A i \in 1 .. n : Answers(st[i - 1], h[order[i]])
      /\ \A i, j \in 1 .. n : i < j => ~PrecedesInRealTime(h[order[j]], h[order[i]])
  BY DEF IsOrder, Goes, GoesOn
<1>2. \A i \in 1 .. n - 1 : i + 1 \in 2 .. n /\ i + 1 \in 1 .. n /\ rest[i] = order[i + 1]
  OBVIOUS
<1>3. \A i \in 0 .. n - 1 : i + 1 \in 0 .. n /\ later[i] = st[i + 1]
  OBVIOUS
<1>4. rest \in [1 .. n - 1 -> Q] /\ later \in [0 .. n - 1 -> State]
  BY <1>1, <1>2, <1>3
<1>5. later[0] = NextState(s, h[order[1]].op)
  <2>1. later[0] = st[1]
    BY <1>3
  <2>. QED
    BY <1>1, <2>1
<1>. HIDE DEF rest, later
<1>6. \A i \in 1 .. n - 1 : i - 1 \in 0 .. n - 1 /\ later[i - 1] = st[i] /\ (i + 1) - 1 = i
  BY <1>3
<1>7. \A i \in 1 .. n - 1 : later[i] = NextState(later[i - 1], h[rest[i]].op)
  <2>. SUFFICES ASSUME NEW i \in 1 .. n - 1
                PROVE  later[i] = NextState(later[i - 1], h[rest[i]].op)
    OBVIOUS
  <2>1. st[i + 1] = NextState(st[(i + 1) - 1], h[order[i + 1]].op)
    BY <1>1, <1>2
  <2>2. later[i] = st[i + 1]
    BY <1>3
  <2>. QED
    BY <1>2, <1>6, <2>1, <2>2
<1>8. \A i \in 1 .. n - 1 : Answers(later[i - 1], h[rest[i]])
  <2>. SUFFICES ASSUME NEW i \in 1 .. n - 1
                PROVE  Answers(later[i - 1], h[rest[i]])
    OBVIOUS
  <2>1. Answers(st[(i + 1) - 1], h[order[i + 1]])
    BY <1>1, <1>2
  <2>. QED
    BY <1>2, <1>6, <2>1
<1>9. \A i, j \in 1 .. n - 1 : rest[i] = rest[j] => i = j
  BY <1>1, <1>2
<1>10. \A i, j \in 1 .. n - 1 : i < j => ~PrecedesInRealTime(h[rest[j]], h[rest[i]])
  BY <1>1, <1>2
<1>11. IsOrder(h, Q, n - 1, rest, later, NextState(s, h[order[1]].op))
  BY <1>4, <1>5, <1>7, <1>8, <1>9, <1>10 DEF IsOrder, Goes, GoesOn
<1>. QED
  BY <1>11 DEF rest, later

\* What can be placed at all can be placed beginning with some call that no
\* call in R precedes and whose answer fits, unless nothing need be placed.
LEMMA FirstStep ==
  ASSUME NEW h \in Seq(Call), NEW R \in SUBSET (DOMAIN h), NEW s \in State,
         Possible(h, R, s), \E p \in R : h[p].end_time # None
  PROVE  \E f \in R :
           /\ \A r \in R : ~PrecedesInRealTime(h[r], h[f])
           /\ Answers(s, h[f])
           /\ Possible(h, R \ {f}, NextState(s, h[f].op))
<1>. DEFINE T == {n \in Nat : Orders(h, R, s, n) # {}}
<1>1. T \in SUBSET Nat /\ T # {}
  BY DEF Possible
<1>. HIDE DEF T
<1>2. PICK n \in T : \A m \in T : n <= m
  BY <1>1, LeastElement
<1>3. n \in Nat
  BY <1>1
<1>4. PICK order, st : IsOrder(h, R \cup Gets(h), n, order, st, s) /\ Covers(h, R, n, order)
  BY <1>2 DEF T, Orders
<1>5. /\ order \in [1 .. n -> R \cup Gets(h)]
      /\ \A i, j \in 1 .. n : order[i] = order[j] => i = j
      /\ st[0] = s
      /\ \A i \in 1 .. n : Answers(st[i - 1], h[order[i]])
      /\ \A i, j \in 1 .. n : i < j => ~PrecedesInRealTime(h[order[j]], h[order[i]])
  BY <1>4 DEF IsOrder, Goes, GoesOn
<1>6. n > 0 /\ 1 \in 1 .. n /\ n - 1 \in Nat
  BY <1>3, <1>4 DEF Covers
<1>. DEFINE f == order[1]
            rest == [i \in 1 .. n - 1 |-> order[i + 1]]
            later == [i \in 0 .. n - 1 |-> st[i + 1]]
<1>7. ASSUME NEW Q \in SUBSET R, \A p \in R : p \in Q \/ p = f,
             \A i \in 2 .. n : order[i] \in Q \cup Gets(h), f \notin Q
      PROVE  Orders(h, Q, NextState(s, h[f].op), n - 1) # {}
  <2>1. IsOrder(h, Q \cup Gets(h), n - 1, rest, later, NextState(s, h[f].op))
    BY <1>3, <1>4, <1>6, <1>7, Rest
  <2>2. Covers(h, Q, n - 1, rest)
    <3>. SUFFICES ASSUME NEW p \in Q, h[p].end_time # None
                  PROVE  \E i \in 1 .. n - 1 : rest[i] = p
      BY DEF Covers
    <3>1. PICK i \in 1 .. n : order[i] = p
      BY <1>4 DEF Covers
    <3>2. i # 1
      BY <1>7, <3>1
    <3>3. i - 1 \in 1 .. n - 1 /\ (i - 1) + 1 = i
      BY <1>3, <3>2
    <3>4. rest[i - 1] = p
      BY <3>1, <3>3
    <3>. QED
      BY <3>3, <3>4
  <2>. HIDE DEF rest, later, f
  <2>. QED
    BY <1>6, <2>1, <2>2, OrdersAre
<1>8. f \in R \cup Gets(h)
  BY <1>5, <1>6
<1>9. \A i \in 2 .. n : order[i] \in R \cup Gets(h) /\ order[i] # f
  <2>. SUFFICES ASSUME NEW i \in 2 .. n
                PROVE  order[i] \in R \cup Gets(h) /\ order[i] # f
    OBVIOUS
  <2>1. i \in 1 .. n /\ i # 1
    BY <1>3
  <2>. QED
    BY <1>5, <1>6, <2>1
\* The shortest order does not begin with a lost Get.
<1>10. f \in R
  <2>. SUFFICES ASSUME f \notin R
                PROVE  FALSE
    OBVIOUS
  <2>1. f \in DOMAIN h /\ ~Matters(h[f])
    BY <1>8 DEF Gets
  <2>2. NextState(s, h[f].op) = s
    BY <2>1, CallOf, LostGetsDoNothing
  <2>3. Orders(h, R, NextState(s, h[f].op), n - 1) # {}
    <3>1. \A p \in R : p \in R \/ p = f
      OBVIOUS
    <3>. HIDE DEF f
    <3>. QED
      BY <1>7, <1>9, <3>1
  <2>4. n - 1 \in T
    BY <1>6, <2>2, <2>3 DEF T
  <2>. QED
    BY <1>2, <1>3, <2>4
<1>11. \A r \in R : ~PrecedesInRealTime(h[r], h[f])
  <2>. SUFFICES ASSUME NEW r \in R, PrecedesInRealTime(h[r], h[f])
                PROVE  FALSE
    OBVIOUS
  <2>1. h[r].end_time # None
    BY DEF PrecedesInRealTime, IsCompleted
  <2>2. PICK i \in 1 .. n : order[i] = r
    BY <1>4, <2>1 DEF Covers
  <2>3. i # 1
    <3>1. ~PrecedesInRealTime(h[f], h[f])
      <4>1. f \in DOMAIN h
        BY <1>10
      <4>. HIDE DEF f
      <4>. QED
        BY <4>1, CallOf
    <3>. QED
      BY <2>2, <3>1
  <2>. QED
    BY <1>3, <1>5, <1>6, <2>2, <2>3
<1>12. Answers(s, h[f])
  BY <1>5, <1>6
<1>13. Possible(h, R \ {f}, NextState(s, h[f].op))
  <2>1. /\ R \ {f} \in SUBSET R
        /\ \A p \in R : p \in R \ {f} \/ p = f
        /\ \A i \in 2 .. n : order[i] \in (R \ {f}) \cup Gets(h)
        /\ f \notin R \ {f}
    BY <1>9
  <2>. HIDE DEF f
  <2>. QED
    BY <1>6, <1>7, <2>1 DEF Possible
<1>. QED
  BY <1>10, <1>11, <1>12, <1>13

-----------------------------------------------------------------------------
(* What has been placed *)

\* An order of the calls in P after which the store is s.
Reaches(h, P, s, n, order, st) ==
  /\ IsOrder(h, P, n, order, st, InitialState)
  /\ st[n] = s
  /\ Covers(h, P, n, order)

\* Some calls of P, with all the completed ones, lead the store to s.
Reached(h, P, s) ==
  \E n \in Nat : \E order \in [1 .. n -> P], st \in [0 .. n -> State] :
    Reaches(h, P, s, n, order, st)

\* Before the first call is placed the store is as it begins.
LEMMA NothingPlaced ==
  ASSUME NEW h
  PROVE  Reached(h, {}, InitialState)
<1>. DEFINE order == [i \in 1 .. 0 |-> 0]
            st == [i \in 0 .. 0 |-> InitialState]
<1>1. order \in [1 .. 0 -> {}] /\ st \in [0 .. 0 -> State] /\ st[0] = InitialState
  BY InitialStateType
<1>2. IsOrder(h, {}, 0, order, st, InitialState)
  BY <1>1 DEF IsOrder, Goes, GoesOn
<1>3. Covers(h, {}, 0, order)
  BY DEF Covers
<1>. QED
  BY <1>1, <1>2, <1>3 DEF Reached, Reaches

\* A lost call that is placed may be left out.
LEMMA PlaceLost ==
  ASSUME NEW h, NEW P, NEW s, Reached(h, P, s), NEW f, h[f].end_time = None
  PROVE  Reached(h, P \cup {f}, s)
<1>0. PICK n \in Nat : \E order \in [1 .. n -> P], st \in [0 .. n -> State] :
                          Reaches(h, P, s, n, order, st)
  BY DEF Reached
<1>1. PICK order \in [1 .. n -> P], st \in [0 .. n -> State] :
        /\ IsOrder(h, P, n, order, st, InitialState)
        /\ st[n] = s
        /\ Covers(h, P, n, order)
  BY <1>0 DEF Reaches
<1>2. order \in [1 .. n -> P \cup {f}]
  OBVIOUS
<1>3. IsOrder(h, P \cup {f}, n, order, st, InitialState)
  BY <1>1, <1>2 DEF IsOrder
<1>4. Covers(h, P \cup {f}, n, order)
  BY <1>1 DEF Covers
<1>. QED
  BY <1>1, <1>2, <1>3, <1>4 DEF Reached, Reaches

\* A call that precedes none of those placed is executed after them.
LEMMA PlaceNext ==
  ASSUME NEW h \in Seq(Call), NEW P \in SUBSET (DOMAIN h), NEW s, Reached(h, P, s),
         NEW f \in DOMAIN h, f \notin P, Answers(s, h[f]),
         \A p \in P : ~PrecedesInRealTime(h[f], h[p])
  PROVE  Reached(h, P \cup {f}, NextState(s, h[f].op))
<1>0. PICK n \in Nat : \E order \in [1 .. n -> P], st \in [0 .. n -> State] :
                          Reaches(h, P, s, n, order, st)
  BY DEF Reached
<1>1. PICK order \in [1 .. n -> P], st \in [0 .. n -> State] :
        /\ IsOrder(h, P, n, order, st, InitialState)
        /\ st[n] = s
        /\ Covers(h, P, n, order)
  BY <1>0 DEF Reaches
<1>2. /\ \A i, j \in 1 .. n : order[i] = order[j] => i = j
      /\ st[0] = InitialState
      /\ \A i \in 1 .. n : st[i] = NextState(st[i - 1], h[order[i]].op)
      /\ \A i \in 1 .. n : Answers(st[i - 1], h[order[i]])
      /\ \A i, j \in 1 .. n : i < j => ~PrecedesInRealTime(h[order[j]], h[order[i]])
  BY <1>1 DEF IsOrder, Goes, GoesOn
<1>. DEFINE t == NextState(s, h[f].op)
            m == n + 1
            more == [i \in 1 .. m |-> IF i = m THEN f ELSE order[i]]
            on == [i \in 0 .. m |-> IF i = m THEN t ELSE st[i]]
<1>3. t \in State
  <2>1. st[n] \in State
    OBVIOUS
  <2>. QED
    BY <1>1, <2>1, CallOf, NextStateType
<1>. HIDE DEF t
<1>4. m \in Nat /\ m = n + 1
  OBVIOUS
<1>5. /\ more[m] = f
      /\ \A i \in 1 .. n : more[i] = order[i] /\ order[i] \in P
      /\ \A i \in 1 .. m : i \in 1 .. n \/ i = m
  OBVIOUS
<1>6. /\ on[m] = t
      /\ \A i \in 0 .. n : on[i] = st[i]
  OBVIOUS
<1>7. more \in [1 .. m -> P \cup {f}]
  BY <1>5
<1>8. on \in [0 .. m -> State]
  BY <1>3
<1>. HIDE DEF m, more, on
<1>9. \A i, j \in 1 .. m : more[i] = more[j] => i = j
  BY <1>2, <1>5
<1>10. on[0] = InitialState
  BY <1>2, <1>6
<1>11. \A i \in 1 .. m : on[i - 1] = st[i - 1]
  <2>1. \A i \in 1 .. m : i - 1 \in 0 .. n
    BY <1>4
  <2>. QED
    BY <1>6, <2>1
<1>12. \A i \in 1 .. m : on[i] = NextState(on[i - 1], h[more[i]].op)
  <2>1. on[m] = NextState(on[m - 1], h[more[m]].op)
    <3>1. m \in 1 .. m /\ m - 1 = n
      BY <1>4
    <3>2. on[m - 1] = s
      BY <1>1, <1>11, <3>1
    <3>. QED
      BY <1>5, <1>6, <3>2 DEF t
  <2>2. \A i \in 1 .. n : on[i] = NextState(on[i - 1], h[more[i]].op)
    <3>1. \A i \in 1 .. n : i \in 0 .. n /\ i \in 1 .. m
      BY <1>4
    <3>. QED
      BY <1>2, <1>5, <1>6, <1>11, <3>1
  <2>. QED
    BY <1>5, <2>1, <2>2
<1>13. \A i \in 1 .. m : Answers(on[i - 1], h[more[i]])
  <2>1. Answers(on[m - 1], h[more[m]])
    <3>1. m \in 1 .. m /\ m - 1 = n
      BY <1>4
    <3>2. on[m - 1] = s
      BY <1>1, <1>11, <3>1
    <3>. QED
      BY <1>5, <3>2
  <2>2. \A i \in 1 .. n : Answers(on[i - 1], h[more[i]])
    <3>1. \A i \in 1 .. n : i \in 1 .. m
      BY <1>4
    <3>. QED
      BY <1>2, <1>5, <1>11, <3>1
  <2>. QED
    BY <1>5, <2>1, <2>2
<1>14. \A i, j \in 1 .. m : i < j => ~PrecedesInRealTime(h[more[j]], h[more[i]])
  <2>. SUFFICES ASSUME NEW i \in 1 .. m, NEW j \in 1 .. m, i < j
                PROVE  ~PrecedesInRealTime(h[more[j]], h[more[i]])
    OBVIOUS
  <2>1. i \in 1 .. n
    BY <1>4
  <2>2. CASE j = m
    BY <1>5, <2>1, <2>2
  <2>3. CASE j \in 1 .. n
    BY <1>2, <1>5, <2>1, <2>3
  <2>. QED
    BY <1>5, <2>2, <2>3
<1>15. IsOrder(h, P \cup {f}, m, more, on, InitialState)
  BY <1>7, <1>8, <1>9, <1>10, <1>12, <1>13, <1>14 DEF IsOrder, Goes, GoesOn
<1>16. Covers(h, P \cup {f}, m, more)
  <2>1. m \in 1 .. m /\ \A i \in 1 .. n : i \in 1 .. m
    BY <1>4
  <2>. QED
    BY <1>1, <1>5, <2>1 DEF Covers
<1>. QED
  BY <1>4, <1>6, <1>7, <1>8, <1>15, <1>16 DEF Reached, Reaches, t

\* When all that matters is placed, the history is linearizable.
LEMMA AllPlaced ==
  ASSUME NEW h \in Seq(Call), NEW P \in SUBSET (DOMAIN h), NEW s, Reached(h, P, s),
         \A p \in DOMAIN h : Matters(h[p]) => p \in P
  PROVE  Linearizable(h)
<1>0. PICK n \in Nat : \E order \in [1 .. n -> P], st \in [0 .. n -> State] :
                          Reaches(h, P, s, n, order, st)
  BY DEF Reached
<1>1. PICK order \in [1 .. n -> P], st \in [0 .. n -> State] :
        /\ IsOrder(h, P, n, order, st, InitialState)
        /\ st[n] = s
        /\ Covers(h, P, n, order)
  BY <1>0 DEF Reaches
<1>2. Covers(h, DOMAIN h, n, order)
  BY <1>1 DEF Covers, Matters, IsCompleted
<1>. QED
  BY <1>1, <1>2, OrderLinearizes

\* A linearizable history has an order that begins with the initial state.
LEMMA LinearizableIsPossible ==
  ASSUME NEW h \in Seq(Call), Linearizable(h), NEW R,
         R = {p \in DOMAIN h : Matters(h[p])}
  PROVE  Possible(h, R, InitialState)
<1>. DEFINE completed == {i \in DOMAIN h : h[i].end_time # None}
<1>1. PICK lost \in SUBSET (DOMAIN h \ completed) :
        \E order \in Arrangements(completed \cup lost) :
          KeepsRealTime(h, order) /\ Explains(h, order)
  BY DEF Linearizable
<1>. DEFINE S == completed \cup lost
            n == Cardinality(S)
<1>2. PICK order \in Arrangements(S) : KeepsRealTime(h, order) /\ Explains(h, order)
  BY <1>1
<1>3. S \in SUBSET (DOMAIN h) /\ \A i \in S : i \in R \cup Gets(h)
  BY DEF Gets
<1>4. IsFiniteSet(S) /\ n \in Nat
  <2>1. DOMAIN h = 1 .. Len(h) /\ Len(h) \in Nat
    OBVIOUS
  <2>2. IsFiniteSet(DOMAIN h)
    BY <2>1, FS_Interval
  <2>. HIDE DEF S
  <2>. QED
    BY <1>3, <2>2, FS_Subset, FS_CardinalityType
<1>5. \A p \in DOMAIN h : h[p].end_time # None => p \in S
  OBVIOUS
<1>. HIDE DEF S
<1>6. order \in [1 .. n -> S] /\ \A i, j \in 1 .. n : order[i] = order[j] => i = j
  BY <1>2 DEF Arrangements
<1>7. \A x \in S : \E i \in 1 .. n : order[i] = x
  BY <1>2, <1>4, ArrangementIsOnto
<1>. HIDE DEF n
<1>8. order \in [1 .. n -> DOMAIN h] /\ order \in [1 .. n -> R \cup Gets(h)]
  BY <1>3, <1>6
<1>. DEFINE st == Run(h, order)
<1>9. Goes(h, order, n, st, InitialState)
  BY <1>4, <1>8, RunExists
<1>10. \A i \in 1 .. n : Answers(st[i - 1], h[order[i]])
  <2>1. DOMAIN order = 1 .. n
    BY <1>6
  <2>. QED
    BY <1>2, <2>1 DEF Explains, Answers
<1>. HIDE DEF st
<1>11. \A i, j \in 1 .. n : i < j => ~PrecedesInRealTime(h[order[j]], h[order[i]])
  BY <1>2, <1>4, <1>8, RealTime
<1>12. IsOrder(h, R \cup Gets(h), n, order, st, InitialState)
  BY <1>6, <1>8, <1>9, <1>10, <1>11 DEF IsOrder
<1>13. Covers(h, R, n, order)
  BY <1>5, <1>7 DEF Covers
<1>. QED
  BY <1>4, <1>12, <1>13, OrdersAre DEF Possible

-----------------------------------------------------------------------------
(* What Cleanup leaves *)

\* The calls of c are those of h at the places a, and these are the first i
\* places that matter.
Picks(h, i, c, a) ==
  /\ a \in [1 .. Len(c) -> 1 .. i]
  /\ \A j, k \in 1 .. Len(c) : a[j] = a[k] => j = k
  /\ \A p \in 1 .. i : Matters(h[p]) <=> \E j \in 1 .. Len(c) : a[j] = p
  /\ \A j \in 1 .. Len(c) : c[j] = h[a[j]]

\* Of no calls, none is kept.
LEMMA PicksNothing ==
  ASSUME NEW h
  PROVE  \E a : Picks(h, 0, <<>>, a)
<1>. DEFINE a == [j \in 1 .. 0 |-> 0]
<1>1. Picks(h, 0, <<>>, a)
  BY DEF Picks
<1>. QED
  BY <1>1

\* One more call is kept if it matters and is dropped otherwise (Cleanup).
LEMMA PicksNext ==
  ASSUME NEW h \in Seq(Call), NEW i \in 1 .. Len(h), NEW c \in Seq(Call), NEW a,
         Picks(h, i - 1, c, a)
  PROVE  \E b : Picks(h, i, IF Matters(h[i]) THEN Append(c, h[i]) ELSE c, b)
<1>1. /\ a \in [1 .. Len(c) -> 1 .. i - 1]
      /\ \A j, k \in 1 .. Len(c) : a[j] = a[k] => j = k
      /\ \A p \in 1 .. i - 1 : Matters(h[p]) <=> \E j \in 1 .. Len(c) : a[j] = p
      /\ \A j \in 1 .. Len(c) : c[j] = h[a[j]]
  BY DEF Picks
<1>2. \A j \in 1 .. Len(c) : a[j] \in 1 .. i - 1 /\ a[j] \in 1 .. i /\ a[j] # i
  BY <1>1
<1>3. \A p \in 1 .. i : p \in 1 .. i - 1 \/ p = i
  OBVIOUS
<1>4. CASE ~Matters(h[i])
  <2>1. Picks(h, i, c, a)
    BY <1>1, <1>2, <1>3, <1>4 DEF Picks
  <2>. QED
    BY <1>4, <2>1
<1>5. CASE Matters(h[i])
  <2>. DEFINE n == Len(c)
              m == n + 1
              d == Append(c, h[i])
              b == [j \in 1 .. m |-> IF j = m THEN i ELSE a[j]]
  <2>1. h[i] \in Call
    OBVIOUS
  <2>2. n \in Nat /\ Len(d) = m /\ d[m] = h[i] /\ \A j \in 1 .. n : d[j] = c[j]
    BY <2>1
  <2>3. b[m] = i /\ \A j \in 1 .. n : b[j] = a[j]
    OBVIOUS
  <2>4. m \in 1 .. m /\ \A j \in 1 .. m : j \in 1 .. n \/ j = m
    BY <2>2
  <2>5. \A j \in 1 .. n : j \in 1 .. m
    BY <2>2
  <2>6. b \in [1 .. m -> 1 .. i]
    BY <1>2, <2>4
  <2>. HIDE DEF m, n, b, d
  <2>7. \A j, k \in 1 .. m : b[j] = b[k] => j = k
    BY <1>1, <1>2, <2>3, <2>4 DEF n
  <2>8. \A p \in 1 .. i : Matters(h[p]) <=> \E j \in 1 .. m : b[j] = p
    <3>1. \A p \in 1 .. i - 1 : Matters(h[p]) <=> \E j \in 1 .. m : b[j] = p
      <4>. SUFFICES ASSUME NEW p \in 1 .. i - 1
                    PROVE  Matters(h[p]) <=> \E j \in 1 .. m : b[j] = p
        OBVIOUS
      <4>1. Matters(h[p]) => \E j \in 1 .. m : b[j] = p
        BY <1>1, <2>3, <2>5 DEF n
      <4>2. ASSUME NEW j \in 1 .. m, b[j] = p
            PROVE  Matters(h[p])
        BY <1>1, <2>3, <2>4, <4>2 DEF n
      <4>. QED
        BY <4>1, <4>2
    <3>2. \E j \in 1 .. m : b[j] = i
      BY <2>3, <2>4
    <3>. QED
      BY <1>3, <1>5, <3>1, <3>2
  <2>9. \A j \in 1 .. m : d[j] = h[b[j]]
    BY <1>1, <2>2, <2>3, <2>4 DEF n
  <2>10. Picks(h, i, d, b)
    BY <2>2, <2>6, <2>7, <2>8, <2>9 DEF Picks
  <2>. QED
    BY <1>5, <2>10 DEF d
<1>. QED
  BY <1>4, <1>5

\* The first i calls are kept as far as they matter, for every i.
LEMMA KeptIs ==
  ASSUME NEW h \in Seq(Call)
  PROVE  /\ Kept(h) \in [0 .. Len(h) -> Seq(Call)]
         /\ Kept(h)[0] = <<>>
         /\ \A i \in 1 .. Len(h) :
              Kept(h)[i] = IF Matters(h[i]) THEN Append(Kept(h)[i - 1], h[i])
                                            ELSE Kept(h)[i - 1]
<1>. DEFINE n == Len(h)
            F == [x \in (1 .. n) \X Seq(Call) |->
                    IF Matters(h[x[1]]) THEN Append(x[2], h[x[1]]) ELSE x[2]]
            Step(g, i) == IF i = 0 THEN <<>>
                          ELSE IF Matters(h[i]) THEN Append(g[i - 1], h[i]) ELSE g[i - 1]
<1>1. \A i \in 1 .. n : h[i] \in Call
  OBVIOUS
<1>2. F \in [(1 .. n) \X Seq(Call) -> Seq(Call)]
  BY <1>1
<1>3. \A i \in 1 .. n, c \in Seq(Call) :
        F[<<i, c>>] = IF Matters(h[i]) THEN Append(c, h[i]) ELSE c
  OBVIOUS
<1>. HIDE DEF F
<1>4. <<>> \in Seq(Call) /\ n \in Nat
  OBVIOUS
<1>5. PICK g \in [0 .. n -> Seq(Call)] : Follows(g, n, <<>>, F)
  BY <1>2, <1>4, Recursion
<1>6. \A i \in 0 .. n : g[i] = Step(g, i)
  <2>. SUFFICES ASSUME NEW i \in 0 .. n
                PROVE  g[i] = Step(g, i)
    OBVIOUS
  <2>1. CASE i = 0
    BY <1>5, <2>1 DEF Follows
  <2>2. CASE i \in 1 .. n
    <3>1. i - 1 \in 0 .. n /\ i # 0 /\ g[i - 1] \in Seq(Call)
      BY <2>2
    <3>. HIDE DEF n
    <3>. QED
      BY <1>3, <1>5, <2>2, <3>1 DEF Follows
  <2>. QED
    BY <2>1, <2>2
<1>7. g = [i \in 0 .. n |-> Step(g, i)]
  BY <1>6
<1>. DEFINE r == Kept(h)
<1>8. r = [i \in 0 .. n |-> Step(r, i)]
  BY <1>7 DEF Kept
<1>. HIDE DEF r
<1>9. r[0] = <<>> /\ DOMAIN r = 0 .. n
  BY <1>4, <1>8
<1>10. \A i \in 1 .. n :
         r[i] = IF Matters(h[i]) THEN Append(r[i - 1], h[i]) ELSE r[i - 1]
  <2>1. \A i \in 1 .. n : i \in 0 .. n /\ i # 0
    OBVIOUS
  <2>. QED
    BY <1>8, <2>1
<1>11. \A i \in 0 .. n : r[i] \in Seq(Call)
  <2>. DEFINE T == {i \in 0 .. n : r[i] \notin Seq(Call)}
  <2>. SUFFICES ASSUME T # {}
                PROVE  FALSE
    OBVIOUS
  <2>1. T \in SUBSET Nat
    OBVIOUS
  <2>. HIDE DEF T
  <2>2. PICK k \in T : \A m \in T : k <= m
    BY <2>1, LeastElement
  <2>3. k \in 0 .. n /\ r[k] \notin Seq(Call)
    BY DEF T
  <2>4. k \in 1 .. n
    <3>1. r[0] \in Seq(Call)
      BY <1>4, <1>9
    <3>2. k # 0
      BY <2>3, <3>1
    <3>. QED
      BY <2>3, <3>2
  <2>5. k - 1 \in 0 .. n /\ k - 1 \notin T
    BY <2>2, <2>4
  <2>6. r[k - 1] \in Seq(Call) /\ h[k] \in Call
    BY <1>1, <2>4, <2>5 DEF T
  <2>7. Append(r[k - 1], h[k]) \in Seq(Call)
    BY <2>6
  <2>. QED
    BY <1>10, <2>3, <2>4, <2>6, <2>7
<1>12. r \in [0 .. n -> Seq(Call)]
  BY <1>8, <1>11
<1>. QED
  BY <1>9, <1>10, <1>12 DEF r

\* Cleanup keeps the calls that matter, each at a place of its own.
LEMMA CleanupKeeps ==
  ASSUME NEW h \in Seq(Call)
  PROVE  Cleanup(h) \in Seq(Call) /\ \E a : Picks(h, Len(h), Cleanup(h), a)
<1>. DEFINE n == Len(h)
            r == Kept(h)
            T == {i \in 0 .. n : ~ \E a : Picks(h, i, r[i], a)}
<1>1. /\ r \in [0 .. n -> Seq(Call)]
      /\ r[0] = <<>>
      /\ \A i \in 1 .. n :
           r[i] = IF Matters(h[i]) THEN Append(r[i - 1], h[i]) ELSE r[i - 1]
  BY KeptIs
<1>. HIDE DEF r
<1>2. T = {}
  <2>. SUFFICES ASSUME T # {}
                PROVE  FALSE
    OBVIOUS
  <2>1. T \in SUBSET Nat
    OBVIOUS
  <2>. HIDE DEF T
  <2>2. PICK k \in T : \A m \in T : k <= m
    BY <2>1, LeastElement
  <2>3. k \in 0 .. n /\ ~ \E a : Picks(h, k, r[k], a)
    BY DEF T
  <2>4. k \in 1 .. n
    <3>1. \E a : Picks(h, 0, r[0], a)
      BY <1>1, PicksNothing
    <3>2. k # 0
      BY <2>3, <3>1
    <3>. QED
      BY <2>3, <3>2
  <2>5. k - 1 \in 0 .. n /\ k - 1 \notin T
    BY <2>2, <2>4
  <2>6. PICK a : Picks(h, k - 1, r[k - 1], a)
    BY <2>5 DEF T
  <2>7. r[k - 1] \in Seq(Call)
    BY <1>1, <2>5
  <2>8. \E b : Picks(h, k, IF Matters(h[k]) THEN Append(r[k - 1], h[k]) ELSE r[k - 1], b)
    BY <2>4, <2>6, <2>7, PicksNext
  <2>. QED
    BY <1>1, <2>3, <2>4, <2>8
<1>3. n \in 0 .. n
  OBVIOUS
<1>4. r[n] \in Seq(Call) /\ \E a : Picks(h, n, r[n], a)
  BY <1>1, <1>2, <1>3
<1>. QED
  BY <1>4 DEF Cleanup, r

-----------------------------------------------------------------------------
(* The array of calls at one level of the search *)

\* a is an order of the places of h that matter.
Sorted(h, N, a) ==
  /\ a \in [1 .. N -> DOMAIN h]
  /\ \A i, j \in 1 .. N : a[i] = a[j] => i = j
  /\ \A p \in DOMAIN h : Matters(h[p]) <=> \E j \in 1 .. N : a[j] = p

\* StepInto: a with the calls at i and j swapped.
Exchanged(a, i, j) == [a EXCEPT ![i] = a[j], ![j] = a[i]]

\* The first n are still to be placed, the others have been.
Remaining(h, a, n) == {p \in DOMAIN h : \E q \in 1 .. n : a[q] = p}

\* The calls behind the first n are those that have been placed.
Placed(h, N, a, n) == {p \in DOMAIN h : \E q \in n + 1 .. N : a[q] = p}

\* Nothing precedes what has been placed before it.
Ordered(h, N, a, n) ==
  \A q \in n + 1 .. N : \A b \in 1 .. q - 1 : ~PrecedesInRealTime(h[a[b]], h[a[q]])

\* No call that is not placed precedes the one at i.
IsFirst(h, a, n, i) == \A b \in 1 .. n : ~PrecedesInRealTime(h[a[b]], h[a[i]])

\* The execution of a[i] next leads nowhere.
Dead(h, a, n, s, i) ==
  Answers(s, h[a[i]]) /\ IsFirst(h, a, n, i) =>
    ~Possible(h, Remaining(h, a, n) \ {a[i]}, NextState(s, h[a[i]].op))

\* A call of Search that has n calls to place and has come to some index.
Level(h, N, a, n, frame) ==
  /\ Sorted(h, N, a)
  /\ Ordered(h, N, a, n)
  /\ frame.state \in State
  /\ Reached(h, Placed(h, N, a, n), frame.state)
  /\ \A j \in 1 .. frame.i - 1 : Dead(h, a, n, frame.state, j)

\* Every call of an order is a call of the history.
LEMMA SortedFacts ==
  ASSUME NEW h \in Seq(Call), NEW N \in Nat, NEW a, Sorted(h, N, a), NEW i \in 1 .. N
  PROVE  a[i] \in DOMAIN h /\ h[a[i]] \in Call
BY DEF Sorted

\* An order with two calls swapped is an order of the same calls.
LEMMA Exchange ==
  ASSUME NEW h \in Seq(Call), NEW N \in Nat, NEW a, Sorted(h, N, a),
         NEW n \in 1 .. N, NEW i \in 1 .. n, NEW b, b = Exchanged(a, i, n)
  PROVE  /\ Sorted(h, N, b)
         /\ b[n] = a[i] /\ b[i] = a[n]
         /\ \A q \in 1 .. N : q # i /\ q # n => b[q] = a[q]
         /\ Exchanged(b, i, n) = a
         /\ Remaining(h, b, n - 1) = Remaining(h, a, n) \ {a[i]}
         /\ Placed(h, N, b, n - 1) = Placed(h, N, a, n) \cup {a[i]}
         /\ a[i] \notin Placed(h, N, a, n)
<1>1. /\ a \in [1 .. N -> DOMAIN h]
      /\ \A k, j \in 1 .. N : a[k] = a[j] => k = j
      /\ \A p \in DOMAIN h : Matters(h[p]) <=> \E j \in 1 .. N : a[j] = p
  BY DEF Sorted
<1>2. i \in 1 .. N /\ n \in 1 .. N
  OBVIOUS
<1>3. /\ b \in [1 .. N -> DOMAIN h]
      /\ b[n] = a[i] /\ b[i] = a[n]
      /\ \A q \in 1 .. N : q # i /\ q # n => b[q] = a[q]
  BY <1>1, <1>2 DEF Exchanged
<1>4. \A k, j \in 1 .. N : b[k] = b[j] => k = j
  <2>. DEFINE Other(q) == IF q = i THEN n ELSE IF q = n THEN i ELSE q
  <2>1. \A q \in 1 .. N : Other(q) \in 1 .. N /\ b[q] = a[Other(q)]
    BY <1>2, <1>3
  <2>2. \A q \in 1 .. N : Other(Other(q)) = q
    OBVIOUS
  <2>. HIDE DEF Other
  <2>3. \A k, j \in 1 .. N : b[k] = b[j] => Other(k) = Other(j)
    <3>. SUFFICES ASSUME NEW k \in 1 .. N, NEW j \in 1 .. N, b[k] = b[j]
                  PROVE  Other(k) = Other(j)
      OBVIOUS
    <3>1. Other(k) \in 1 .. N /\ Other(j) \in 1 .. N /\ a[Other(k)] = a[Other(j)]
      BY <2>1
    <3>2. \A x, y \in 1 .. N : a[x] = a[y] => x = y
      BY <1>1
    <3>. QED
      BY <3>1, <3>2
  <2>. QED
    BY <2>2, <2>3
<1>5. \A p \in DOMAIN h : (\E j \in 1 .. N : a[j] = p) <=> (\E j \in 1 .. N : b[j] = p)
  BY <1>1, <1>2, <1>3
<1>6. Sorted(h, N, b)
  BY <1>1, <1>3, <1>4, <1>5 DEF Sorted
<1>7. Exchanged(b, i, n) = a
  BY <1>1, <1>2, <1>3 DEF Exchanged
<1>8. a[i] \in DOMAIN h
  BY <1>1, <1>2
<1>9. Remaining(h, b, n - 1) = Remaining(h, a, n) \ {a[i]}
  <2>1. ASSUME NEW p \in DOMAIN h, NEW q \in 1 .. n - 1, b[q] = p
        PROVE  p # a[i] /\ \E r \in 1 .. n : a[r] = p
    <3>1. q \in 1 .. N /\ q # n /\ q \in 1 .. n /\ n \in 1 .. n
      OBVIOUS
    <3>. QED
      BY <1>2, <1>3, <1>4, <2>1, <3>1
  <2>2. ASSUME NEW p \in DOMAIN h, NEW q \in 1 .. n, a[q] = p, p # a[i]
        PROVE  \E r \in 1 .. n - 1 : b[r] = p
    <3>1. CASE q = n
      <4>1. i \in 1 .. n - 1
        BY <2>2, <3>1
      <4>. QED
        BY <1>3, <2>2, <3>1, <4>1
    <3>2. CASE q # n
      <4>1. q \in 1 .. n - 1 /\ q # i /\ q \in 1 .. N
        BY <2>2, <3>2
      <4>. QED
        BY <1>3, <2>2, <3>2, <4>1
    <3>. QED
      BY <3>1, <3>2
  <2>. QED
    BY <2>1, <2>2 DEF Remaining
<1>10. Placed(h, N, b, n - 1) = Placed(h, N, a, n) \cup {a[i]}
  <2>1. \A q \in (n - 1) + 1 .. N : q = n \/ (q \in n + 1 .. N /\ q \in 1 .. N /\ q # i /\ q # n)
    OBVIOUS
  <2>2. n \in (n - 1) + 1 .. N /\ \A q \in n + 1 .. N : q \in (n - 1) + 1 .. N
    OBVIOUS
  <2>3. \A q \in n + 1 .. N : b[q] = a[q]
    BY <1>3, <2>1, <2>2
  <2>4. ASSUME NEW p \in DOMAIN h, NEW q \in (n - 1) + 1 .. N, b[q] = p
        PROVE  p = a[i] \/ \E r \in n + 1 .. N : a[r] = p
    BY <1>3, <2>1, <2>3, <2>4
  <2>5. ASSUME NEW p \in DOMAIN h, NEW q \in n + 1 .. N, a[q] = p
        PROVE  \E r \in (n - 1) + 1 .. N : b[r] = p
    BY <2>2, <2>3, <2>5
  <2>6. \E r \in (n - 1) + 1 .. N : b[r] = a[i]
    BY <1>3, <2>2
  <2>. QED
    BY <1>8, <2>4, <2>5, <2>6 DEF Placed
<1>11. a[i] \notin Placed(h, N, a, n)
  <2>1. \A q \in n + 1 .. N : q # i /\ q \in 1 .. N
    OBVIOUS
  <2>. QED
    BY <1>1, <1>2, <2>1 DEF Placed
<1>. QED
  BY <1>3, <1>6, <1>7, <1>9, <1>10, <1>11

\* The same of the array itself.
LEMMA ExchangedIs ==
  ASSUME NEW h \in Seq(Call), NEW N \in Nat, NEW a, Sorted(h, N, a),
         NEW n \in 1 .. N, NEW i \in 1 .. n
  PROVE  /\ Sorted(h, N, Exchanged(a, i, n))
         /\ Exchanged(a, i, n)[n] = a[i] /\ Exchanged(a, i, n)[i] = a[n]
         /\ \A q \in 1 .. N : q # i /\ q # n => Exchanged(a, i, n)[q] = a[q]
BY Exchange

\* The search goes on below, with the call i ignored or executed.
LEMMA StepIntoLevel ==
  ASSUME NEW h \in Seq(Call), NEW N \in Nat, NEW a, NEW n \in 1 .. N, NEW frame,
         Level(h, N, a, n, frame), NEW i \in 1 .. n, IsFirst(h, a, n, i),
         NEW s, \/ h[a[i]].end_time = None /\ s = frame.state
                \/ Answers(frame.state, h[a[i]]) /\ s = NextState(frame.state, h[a[i]].op),
         NEW b, b = Exchanged(a, i, n)
  PROVE  Level(h, N, b, n - 1, Entered(s))
<1>1. Sorted(h, N, a) /\ Ordered(h, N, a, n) /\ frame.state \in State
      /\ Reached(h, Placed(h, N, a, n), frame.state)
  BY DEF Level
<1>2. /\ Sorted(h, N, b)
      /\ b[n] = a[i] /\ b[i] = a[n]
      /\ \A q \in 1 .. N : q # i /\ q # n => b[q] = a[q]
      /\ Placed(h, N, b, n - 1) = Placed(h, N, a, n) \cup {a[i]}
      /\ a[i] \notin Placed(h, N, a, n)
  BY <1>1, Exchange
<1>3. n \in 1 .. n /\ \A q \in 1 .. n : q \in 1 .. N
  OBVIOUS
<1>4. \A q \in 1 .. n : \E r \in 1 .. n : b[q] = a[r]
  BY <1>2, <1>3
<1>5. Ordered(h, N, b, n - 1)
  <2>. SUFFICES ASSUME NEW q \in (n - 1) + 1 .. N, NEW k \in 1 .. q - 1
                PROVE  ~PrecedesInRealTime(h[b[k]], h[b[q]])
    BY DEF Ordered
  <2>1. CASE q = n
    <3>1. k \in 1 .. n
      BY <2>1
    <3>. QED
      BY <1>2, <1>4, <2>1, <3>1 DEF IsFirst
  <2>2. CASE q # n
    <3>1. q \in n + 1 .. N /\ q \in 1 .. N /\ q # i
      BY <2>2
    <3>2. b[q] = a[q]
      BY <1>2, <2>2, <3>1
    <3>3. \A r \in 1 .. q - 1 : ~PrecedesInRealTime(h[a[r]], h[a[q]])
      BY <1>1, <3>1 DEF Ordered
    <3>4. CASE k \in 1 .. n
      <4>1. PICK r \in 1 .. n : b[k] = a[r]
        BY <1>4, <3>4
      <4>2. r \in 1 .. q - 1
        BY <3>1
      <4>. QED
        BY <3>2, <3>3, <4>1, <4>2
    <3>5. CASE k \notin 1 .. n
      <4>1. k \in 1 .. N /\ k # i /\ k # n
        BY <3>1, <3>5
      <4>. QED
        BY <1>2, <3>2, <3>3, <4>1
    <3>. QED
      BY <3>4, <3>5
  <2>. QED
    BY <2>1, <2>2
<1>6. a[i] \in DOMAIN h /\ h[a[i]] \in Call
  BY <1>1, <1>3, SortedFacts
<1>7. s \in State
  BY <1>1, <1>6, NextStateType DEF Call
<1>8. Reached(h, Placed(h, N, b, n - 1), s)
  <2>. DEFINE P == Placed(h, N, a, n)
  <2>1. P \in SUBSET (DOMAIN h)
    BY DEF Placed
  <2>2. CASE h[a[i]].end_time = None /\ s = frame.state
    BY <1>1, <1>2, <2>2, PlaceLost
  <2>3. CASE Answers(frame.state, h[a[i]]) /\ s = NextState(frame.state, h[a[i]].op)
    <3>1. \A p \in P : ~PrecedesInRealTime(h[a[i]], h[p])
      <4>. SUFFICES ASSUME NEW q \in n + 1 .. N
                    PROVE  ~PrecedesInRealTime(h[a[i]], h[a[q]])
        BY DEF Placed
      <4>1. i \in 1 .. q - 1
        OBVIOUS
      <4>. QED
        BY <1>1, <4>1 DEF Ordered
    <3>2. a[i] \notin P /\ Reached(h, P, frame.state)
      BY <1>1, <1>2
    <3>. HIDE DEF P
    <3>3. Reached(h, P \cup {a[i]}, NextState(frame.state, h[a[i]].op))
      BY <1>6, <2>1, <2>3, <3>1, <3>2, PlaceNext
    <3>. QED
      BY <1>2, <2>3, <3>3 DEF P
  <2>. QED
    BY <2>2, <2>3
<1>. QED
  BY <1>2, <1>5, <1>7, <1>8 DEF Level, Entered

\* All n calls have been tried: nothing is possible.
LEMMA NothingFits ==
  ASSUME NEW h \in Seq(Call), NEW N \in Nat, NEW a, NEW n \in 1 .. N, NEW frame,
         Level(h, N, a, n, frame), frame.i = n + 1
  PROVE  ~Possible(h, Remaining(h, a, n), frame.state)
<1>. DEFINE R == Remaining(h, a, n)
            s == frame.state
<1>1. Sorted(h, N, a) /\ s \in State /\ \A j \in 1 .. n : Dead(h, a, n, s, j)
  BY DEF Level
<1>2. R \in SUBSET (DOMAIN h) /\ \A f \in R : \E j \in 1 .. n : a[j] = f
  BY DEF Remaining
<1>3. \A j \in 1 .. n : a[j] \in R
  <2>1. \A j \in 1 .. n : a[j] \in DOMAIN h
    BY <1>1, SortedFacts
  <2>. QED
    BY <2>1 DEF Remaining
<1>4. CASE \E p \in R : h[p].end_time # None
  <2>. SUFFICES ASSUME Possible(h, R, s)
                PROVE  FALSE
    OBVIOUS
  <2>. HIDE DEF R, s
  <2>1. PICK f \in R : /\ \A r \in R : ~PrecedesInRealTime(h[r], h[f])
                       /\ Answers(s, h[f])
                       /\ Possible(h, R \ {f}, NextState(s, h[f].op))
    BY <1>1, <1>2, <1>4, FirstStep
  <2>2. PICK j \in 1 .. n : a[j] = f
    BY <1>2
  <2>3. IsFirst(h, a, n, j)
    BY <1>3, <2>1, <2>2 DEF IsFirst
  <2>. QED
    BY <1>1, <2>1, <2>2, <2>3 DEF Dead, R
<1>5. CASE \A p \in R : h[p].end_time = None
  <2>1. 1 \in 1 .. n
    OBVIOUS
  <2>. DEFINE f == a[1]
  <2>2. f \in R /\ h[f].end_time = None /\ f \in DOMAIN h
    BY <1>2, <1>3, <1>5, <2>1
  <2>3. Answers(s, h[f]) /\ IsFirst(h, a, n, 1)
    BY <1>3, <1>5, <2>1, <2>2 DEF Answers, IsFirst, PrecedesInRealTime, IsCompleted
  <2>4. NextState(s, h[f].op) \in State
    BY <1>1, <2>2, CallOf, NextStateType
  <2>5. \A p \in R \ {f} : h[p].end_time = None
    BY <1>5
  <2>. HIDE DEF R, s, f
  <2>6. Possible(h, R \ {f}, NextState(s, h[f].op))
    BY <2>4, <2>5, NothingToPlace
  <2>. QED
    BY <1>1, <2>1, <2>3, <2>6 DEF Dead, R, f
<1>. QED
  BY <1>4, <1>5

\* No call is left to be placed.
LEMMA AllDone ==
  ASSUME NEW h \in Seq(Call), NEW N \in Nat, NEW a, NEW frame, Level(h, N, a, 0, frame)
  PROVE  Linearizable(h)
<1>. DEFINE P == Placed(h, N, a, 0)
<1>1. P \in SUBSET (DOMAIN h) /\ \A p \in DOMAIN h : Matters(h[p]) => p \in P
  BY DEF Level, Sorted, Placed
<1>2. Reached(h, P, frame.state)
  BY DEF Level
<1>. HIDE DEF P
<1>. QED
  BY <1>1, <1>2, AllPlaced

\* Nothing is possible from the start.
LEMMA NothingPossible ==
  ASSUME NEW h \in Seq(Call), NEW N \in Nat, NEW a, Sorted(h, N, a),
         ~Possible(h, Remaining(h, a, N), InitialState)
  PROVE  ~Linearizable(h)
<1>1. Remaining(h, a, N) = {p \in DOMAIN h : Matters(h[p])}
  BY DEF Remaining, Sorted
<1>. QED
  BY <1>1, LinearizableIsPossible

\* Before the search nothing is placed and every call that matters is left.
LEMMA FirstLevel ==
  ASSUME NEW h \in Seq(Call), NEW c \in Seq(Call), NEW a, Picks(h, Len(h), c, a)
  PROVE  Level(h, Len(c), a, Len(c), Entered(InitialState))
<1>. DEFINE N == Len(c)
<1>1. Sorted(h, N, a)
  BY SMTT(30) DEF Sorted, Picks
<1>2. N + 1 .. N = {}
  OBVIOUS
<1>3. Ordered(h, N, a, N) /\ Placed(h, N, a, N) = {}
  BY <1>2 DEF Ordered, Placed
<1>. QED
  BY <1>1, <1>3, NothingPlaced, InitialStateType DEF Level, Entered

-----------------------------------------------------------------------------
(* The invariant of the search *)

\* An entry of the stack: a call of Search that runs or waits.
Frame == [state : State, i : Nat, waits : {"apply", "next"}]

\* The calls of Search under way.
Depth == Len(stack)

\* Types of the search, and its sizes: every level has placed one call more.
SearchTypes ==
  /\ history \in Seq(Call)
  /\ calls \in Seq(Call)
  /\ stack \in Seq(Frame) /\ Depth >= 1
  /\ linear \in Seq(Call) /\ Len(linear) = Depth - 1
  /\ count \in Nat /\ count = Len(calls) + 1 - Depth

\* A call of Search has stepped into the next one: a is its array, b that of the
\* other.
Link(h, a, b, n, frame, child) ==
  /\ frame.i \in 1 .. n
  /\ b = Exchanged(a, frame.i, n)
  /\ IsFirst(h, a, n, frame.i)
  /\ frame.waits = "next" => child.state = NextState(frame.state, h[a[frame.i]].op)

\* What is known of the call of Search that runs, at its place in the code.
Known(h, a, n, at, result, frame) ==
  /\ at = "search" => frame.i = 1
  /\ at = "loop" => n > 0 /\ frame.i \in 1 .. n + 1
  /\ at = "apply" => frame.i \in 1 .. n /\ IsFirst(h, a, n, frame.i)
  /\ at = "next" => frame.i \in 1 .. n /\ Dead(h, a, n, frame.state, frame.i)
  /\ at \in {"return", "end"} /\ ~result => ~Possible(h, Remaining(h, a, n), frame.state)

\* The array of calls as it was when each call of Search began.
Arrays(arr) ==
  /\ \A j \in 1 .. Len(calls) : calls[j] = history[arr[Depth][j]]
  /\ \A k \in 1 .. Depth - 1 : linear[k] = history[arr[Depth][Len(calls) + 1 - k]]
  /\ \A k \in 1 .. Depth : Level(history, Len(calls), arr[k], Len(calls) + 1 - k, stack[k])
  /\ \A k \in 1 .. Depth - 1 :
       Link(history, arr[k], arr[k + 1], Len(calls) + 1 - k, stack[k], stack[k + 1])

\* The search, with arr[k] the array when the k-th call of Search began.
Searching(arr) ==
  /\ SearchTypes
  /\ Arrays(arr)
  /\ stack[1].state = InitialState
  /\ Known(history, arr[Depth], count, pc, found, Top)
  /\ pc = "end" => Depth = 1

\* What is found within the limit is an order.
FoundIsTrue == found /\ time <= TimeLimit => Linearizable(history)

\* What holds of the checker, before, during and after a search.
SearchInv ==
  /\ pc \in {"idle", "search", "loop", "apply", "next", "return", "end"}
  /\ time \in Nat
  /\ pc = "idle" => time = 0 /\ found = FALSE /\ linear = <<>>
  /\ pc # "idle" => FoundIsTrue /\ \E arr : Searching(arr)

\* The facts about the level that runs.
LEMMA TopFacts ==
  ASSUME NEW arr, Searching(arr)
  PROVE  /\ Depth \in Nat /\ Depth >= 1 /\ Depth \in 1 .. Depth
         /\ Len(calls) \in Nat /\ count = Len(calls) + 1 - Depth /\ count \in Nat
         /\ Top \in Frame /\ Top = stack[Depth]
         /\ Level(history, Len(calls), arr[Depth], count, Top)
         /\ history \in Seq(Call)
         /\ \A j \in 1 .. Len(calls) : calls[j] = history[arr[Depth][j]]
<1>1. SearchTypes /\ Arrays(arr)
  BY DEF Searching
<1>2. Depth \in Nat /\ Depth >= 1 /\ Len(calls) \in Nat /\ Depth \in 1 .. Depth
  BY <1>1 DEF SearchTypes, Depth
<1>3. stack[Depth] \in Frame
  BY <1>1, <1>2 DEF SearchTypes, Depth
<1>4. Top = stack[Depth]
  BY DEF Top, Depth
<1>5. count = Len(calls) + 1 - Depth /\ count \in Nat
  BY <1>1 DEF SearchTypes
<1>6. Level(history, Len(calls), arr[Depth], Len(calls) + 1 - Depth, stack[Depth])
  BY <1>1, <1>2 DEF Arrays
<1>. QED
  BY <1>1, <1>2, <1>3, <1>4, <1>5, <1>6 DEF SearchTypes, Arrays

\* A candidate is preceded by no call that is left (LinChecker::Search).
LEMMA CandidateIsFirst ==
  ASSUME NEW arr, Searching(arr), NEW i \in 1 .. count
  PROVE  /\ Candidate(i) <=> IsFirst(history, arr[Depth], count, i)
         /\ calls[i] = history[arr[Depth][i]]
         /\ i \in 1 .. Len(calls)
<1>1. \A j \in 1 .. count : j \in 1 .. Len(calls)
  BY TopFacts
<1>2. \A j \in 1 .. count : calls[j] = history[arr[Depth][j]]
  BY <1>1, TopFacts
<1>. QED
  BY <1>1, <1>2 DEF Candidate, IsFirst

\* The call of Search that runs goes on.
LEMMA TopMoves ==
  ASSUME NEW arr, Searching(arr), UNCHANGED <<history, calls, count, linear>>,
         NEW frame \in Frame, frame.state = Top.state, stack' = WithTop(frame),
         Level(history, Len(calls), arr[Depth], count, frame),
         Known(history, arr[Depth], count, pc', found', frame),
         pc' = "end" => Depth = 1
  PROVE  Searching(arr)'
<1>1. SearchTypes /\ Arrays(arr) /\ stack[1].state = InitialState
  BY DEF Searching
<1>. DEFINE D == Depth  N == Len(calls)
<1>2. /\ D \in Nat /\ D >= 1 /\ D \in 1 .. D /\ D = Len(stack)
      /\ N \in Nat /\ count = N + 1 - D /\ count \in Nat
  BY TopFacts DEF Depth
<1>3. stack \in Seq(Frame)
  BY <1>1 DEF SearchTypes
<1>4. /\ stack' \in Seq(Frame) /\ Len(stack') = D
      /\ stack'[D] = frame
      /\ \A k \in 1 .. D : k # D => stack'[k] = stack[k]
  BY <1>2, <1>3 DEF WithTop
<1>5. \A k \in 1 .. D : stack'[k].state = stack[k].state
  BY <1>2, <1>4 DEF Top
<1>6. D' = D /\ N' = N /\ Top' = frame
  BY <1>4 DEF Depth, Top
<1>7. SearchTypes'
  BY <1>1, <1>2, <1>4, <1>6 DEF SearchTypes
<1>. HIDE DEF D
<1>8. Arrays(arr)'
  <2>1. \A k \in 1 .. D : Level(history, N, arr[k], N + 1 - k, stack'[k])
    <3>. SUFFICES ASSUME NEW k \in 1 .. D
                  PROVE  Level(history, N, arr[k], N + 1 - k, stack'[k])
      OBVIOUS
    <3>1. Level(history, N, arr[k], N + 1 - k, stack[k])
      BY <1>1 DEF Arrays, D
    <3>2. CASE k = D
      BY <1>2, <1>4, <3>2 DEF D
    <3>3. CASE k # D
      BY <1>4, <3>1, <3>3
    <3>. QED
      BY <3>2, <3>3
  <2>2. \A k \in 1 .. D - 1 : Link(history, arr[k], arr[k + 1], N + 1 - k, stack'[k], stack'[k + 1])
    <3>. SUFFICES ASSUME NEW k \in 1 .. D - 1
                  PROVE  Link(history, arr[k], arr[k + 1], N + 1 - k, stack'[k], stack'[k + 1])
      OBVIOUS
    <3>1. Link(history, arr[k], arr[k + 1], N + 1 - k, stack[k], stack[k + 1])
      BY <1>1 DEF Arrays, D
    <3>2. k \in 1 .. D /\ k + 1 \in 1 .. D /\ k # D
      BY <1>2
    <3>3. stack'[k] = stack[k] /\ stack'[k + 1].state = stack[k + 1].state
      BY <1>4, <1>5, <3>2
    <3>. QED
      BY <3>1, <3>3 DEF Link
  <2>3. /\ \A j \in 1 .. N : calls[j] = history[arr[D][j]]
        /\ \A k \in 1 .. D - 1 : linear[k] = history[arr[D][N + 1 - k]]
    BY <1>1 DEF Arrays, D
  <2>4. Depth' = D
    BY <1>6 DEF D
  <2>. QED
    BY <2>1, <2>2, <2>3, <2>4 DEF Arrays
<1>9. stack'[1].state = InitialState
  BY <1>1, <1>2, <1>5
<1>. QED
  BY <1>6, <1>7, <1>8, <1>9 DEF Searching, D

\* A sequence without its last element.
LEMMA WithoutTheLast ==
  ASSUME NEW S, NEW c \in Seq(S), Len(c) > 0, NEW d, d = SubSeq(c, 1, Len(c) - 1)
  PROVE  /\ d \in Seq(S) /\ Len(d) = Len(c) - 1
         /\ \A k \in 1 .. Len(c) - 1 : d[k] = c[k]
<1>1. PICK n \in Nat : n = Len(c) - 1
  BY LenProperties, SMTT(30)
<1>2. \A i \in 1 .. n : c[i] \in S
  BY <1>1
<1>3. d = SubSeq(c, 1, n)
  BY <1>1
<1>4. /\ SubSeq(c, 1, n) \in Seq(S)
      /\ Len(SubSeq(c, 1, n)) = IF 1 <= n THEN n - 1 + 1 ELSE 0
      /\ \A i \in 1 .. n - 1 + 1 : SubSeq(c, 1, n)[i] = c[1 + i - 1]
  BY <1>2, SubSeqProperties
<1>5. \A i \in 1 .. n : i \in 1 .. n - 1 + 1 /\ 1 + i - 1 = i
  OBVIOUS
<1>. QED
  BY <1>1, <1>3, <1>4, <1>5

\* Swapping two elements of a sequence moves nothing else.
LEMMA SwapInSequence ==
  ASSUME NEW S, NEW c \in Seq(S), NEW i \in 1 .. Len(c), NEW j \in 1 .. Len(c),
         NEW d, d = [c EXCEPT ![i] = c[j], ![j] = c[i]]
  PROVE  /\ d \in Seq(S) /\ Len(d) = Len(c)
         /\ d[i] = c[j] /\ d[j] = c[i]
         /\ \A k \in 1 .. Len(c) : k # i /\ k # j => d[k] = c[k]
<1>1. c[i] \in S /\ c[j] \in S
  OBVIOUS
<1>. QED
  BY <1>1

\* The array of the level below.
LEMMA ArrayBelow ==
  ASSUME NEW arr, Searching(arr), count \in 1 .. Len(calls), NEW i \in 1 .. count
  PROVE  LET a == arr[Depth]
             b == Exchanged(a, i, count)
         IN  /\ Sorted(history, Len(calls), b) /\ b[count] = a[i] /\ b[i] = a[count]
             /\ \A q \in 1 .. Len(calls) : q # i /\ q # count => b[q] = a[q]
<1>. DEFINE N == Len(calls)  a == arr[Depth]
<1>1. N \in Nat /\ history \in Seq(Call) /\ Sorted(history, N, a)
  BY TopFacts DEF Level
<1>. HIDE DEF N, a
<1>2. PICK n \in 1 .. N : n = count
  BY DEF N
<1>3. i \in 1 .. n
  BY <1>2
<1>4. /\ Sorted(history, N, Exchanged(a, i, n))
      /\ Exchanged(a, i, n)[n] = a[i] /\ Exchanged(a, i, n)[i] = a[n]
      /\ \A q \in 1 .. N : q # i /\ q # n => Exchanged(a, i, n)[q] = a[q]
  BY <1>1, <1>3, ExchangedIs
<1>. QED
  BY <1>2, <1>4 DEF N, a

\* The search goes one level down.
LEMMA StepsDown ==
  ASSUME NEW arr, Searching(arr), NEW i \in 1 .. count, i = Top.i,
         IsFirst(history, arr[Depth], count, i),
         NEW s, NEW waits \in {"apply", "next"},
         \/ /\ history[arr[Depth][i]].end_time = None
            /\ s = Top.state
            /\ waits = "apply"
         \/ /\ Answers(Top.state, history[arr[Depth][i]])
            /\ s = NextState(Top.state, history[arr[Depth][i]].op),
         StepInto(i, s, waits)
  PROVE  \E brr : Searching(brr)'
<1>1. SearchTypes /\ Arrays(arr) /\ stack[1].state = InitialState
  BY DEF Searching
<1>. DEFINE D == Depth  N == Len(calls)  h == history
            a == arr[D]
            b == Exchanged(a, i, count)
            frame == [Top EXCEPT !.waits = waits]
<1>2. /\ D \in Nat /\ D >= 1 /\ D \in 1 .. D /\ D = Len(stack)
      /\ N \in Nat /\ count = N + 1 - D /\ count \in Nat /\ count \in 1 .. N
      /\ Top \in Frame /\ Top = stack[D]
      /\ Level(h, N, a, count, Top)
      /\ h \in Seq(Call)
      /\ \A j \in 1 .. N : calls[j] = h[a[j]]
  BY TopFacts DEF Depth
<1>3. /\ linear' = Append(linear, calls[i])
      /\ calls' = Swapped(i, count)
      /\ count' = count - 1
      /\ stack' = Append(WithTop(frame), Entered(s))
      /\ pc' = "search"
      /\ UNCHANGED <<history, time, found>>
  BY DEF StepInto
<1>4. /\ frame \in Frame /\ frame.i = i /\ frame.state = Top.state
      /\ frame.waits = waits
  BY <1>2 DEF Frame
<1>. HIDE DEF frame
<1>5. Sorted(h, N, a)
  BY <1>2 DEF Level
<1>6. /\ Sorted(h, N, b) /\ b[count] = a[i] /\ b[i] = a[count]
      /\ \A q \in 1 .. N : q # i /\ q # count => b[q] = a[q]
  <2>1. Searching(arr) /\ count \in 1 .. Len(calls) /\ i \in 1 .. count
    BY <1>2
  <2>. QED
    BY <2>1, ArrayBelow
<1>7. Level(h, N, b, count - 1, Entered(s))
  BY <1>2, StepIntoLevel
<1>8. PICK brr : brr[D + 1] = b /\ \A k \in 1 .. D : brr[k] = arr[k]
  <2>. DEFINE more == [k \in 1 .. D + 1 |-> IF k = D + 1 THEN b ELSE arr[k]]
  <2>1. more[D + 1] = b /\ \A k \in 1 .. D : more[k] = arr[k]
    BY <1>2
  <2>. QED
    BY <2>1
<1>. HIDE DEF b
<1>9. s \in State /\ Entered(s) \in Frame
  BY <1>7 DEF Level, Entered, Frame
<1>10. /\ stack' \in Seq(Frame) /\ Len(stack') = D + 1
       /\ stack'[D + 1] = Entered(s) /\ stack'[D] = frame
       /\ \A k \in 1 .. D : k # D => stack'[k] = stack[k]
  <2>1. stack \in Seq(Frame)
    BY <1>1 DEF SearchTypes
  <2>2. /\ WithTop(frame) \in Seq(Frame) /\ Len(WithTop(frame)) = D
        /\ WithTop(frame)[D] = frame
        /\ \A k \in 1 .. D : k # D => WithTop(frame)[k] = stack[k]
    BY <1>2, <1>4, <2>1 DEF WithTop
  <2>. HIDE DEF D
  <2>. QED
    BY <1>2, <1>3, <1>9, <2>2
<1>11. calls' \in Seq(Call) /\ Len(calls') = N /\ \A j \in 1 .. N : calls'[j] = h[b[j]]
  <2>1. calls \in Seq(Call)
    BY <1>1 DEF SearchTypes
  <2>2. i \in 1 .. N /\ count \in 1 .. N
    BY <1>2
  <2>3. calls' = [calls EXCEPT ![i] = calls[count], ![count] = calls[i]]
    BY <1>3 DEF Swapped
  <2>4. /\ calls' \in Seq(Call) /\ Len(calls') = N
        /\ calls'[count] = calls[i] /\ calls'[i] = calls[count]
        /\ \A j \in 1 .. N : j # i /\ j # count => calls'[j] = calls[j]
    BY <2>1, <2>2, <2>3, SwapInSequence
  <2>5. \A j \in 1 .. N : calls[j] = h[a[j]]
    BY <1>2
  <2>. HIDE DEF N, a, h
  <2>. QED
    BY <1>6, <2>2, <2>4, <2>5
<1>12. linear' \in Seq(Call) /\ Len(linear') = D /\ linear'[D] = calls[i]
       /\ \A k \in 1 .. D - 1 : linear'[k] = linear[k]
  <2>1. calls \in Seq(Call) /\ linear \in Seq(Call) /\ Len(linear) = D - 1
    BY <1>1 DEF SearchTypes
  <2>2. calls[i] \in Call
    BY <1>2, <2>1
  <2>3. D - 1 \in Nat /\ (D - 1) + 1 = D
    BY <1>2
  <2>. HIDE DEF D
  <2>. QED
    BY <1>3, <2>1, <2>2, <2>3
<1>13. Depth' = D + 1 /\ Len(calls)' = N /\ Top' = Entered(s) /\ history' = h
  BY <1>3, <1>10, <1>11 DEF Depth, Top
<1>14. SearchTypes'
  <2>1. count' \in Nat /\ count' = N + 1 - (D + 1) /\ D + 1 >= 1 /\ D = (D + 1) - 1
    BY <1>2, <1>3
  <2>. HIDE DEF D, N, h
  <2>. QED
    BY <1>2, <1>10, <1>11, <1>12, <1>13, <2>1 DEF SearchTypes
<1>15. \A k \in 1 .. D : linear'[k] = h[b[N + 1 - k]]
  <2>. SUFFICES ASSUME NEW k \in 1 .. D
                PROVE  linear'[k] = h[b[N + 1 - k]]
    OBVIOUS
  <2>1. CASE k = D
    <3>1. i \in 1 .. N /\ N + 1 - k = count
      BY <1>2, <2>1
    <3>2. calls[i] = h[a[i]]
      BY <1>2, <3>1
    <3>. QED
      BY <1>6, <1>12, <2>1, <3>1, <3>2
  <2>2. CASE k # D
    <3>1. k \in 1 .. D - 1
      BY <1>2, <2>2
    <3>2. N + 1 - k \in 1 .. N /\ N + 1 - k # i /\ N + 1 - k # count
      BY <1>2, <3>1
    <3>3. linear[k] = h[a[N + 1 - k]]
      BY <1>1, <3>1 DEF Arrays
    <3>. QED
      BY <1>6, <1>12, <3>1, <3>2, <3>3
  <2>. QED
    BY <2>1, <2>2
<1>16. \A k \in 1 .. D + 1 : Level(h, N, brr[k], N + 1 - k, stack'[k])
  <2>1. Level(h, N, brr[D + 1], N + 1 - (D + 1), stack'[D + 1])
    <3>1. N + 1 - (D + 1) = count - 1
      BY <1>2
    <3>. QED
      BY <1>7, <1>8, <1>10, <3>1
  <2>2. Level(h, N, brr[D], N + 1 - D, stack'[D])
    <3>1. Level(h, N, a, count, frame)
      BY <1>2, <1>4 DEF Level
    <3>. QED
      BY <1>2, <1>8, <1>10, <3>1
  <2>3. ASSUME NEW k \in 1 .. D - 1
        PROVE  Level(h, N, brr[k], N + 1 - k, stack'[k])
    <3>1. k \in 1 .. D /\ k # D
      BY <1>2
    <3>2. Level(h, N, arr[k], N + 1 - k, stack[k])
      BY <1>1, <3>1 DEF Arrays
    <3>. QED
      BY <1>8, <1>10, <3>1, <3>2
  <2>4. \A k \in 1 .. D + 1 : k \in 1 .. D - 1 \/ k = D \/ k = D + 1
    BY <1>2
  <2>. QED
    BY <2>1, <2>2, <2>3, <2>4
<1>17. \A k \in 1 .. D : Link(h, brr[k], brr[k + 1], N + 1 - k, stack'[k], stack'[k + 1])
  <2>1. Link(h, brr[D], brr[D + 1], N + 1 - D, stack'[D], stack'[D + 1])
    <3>1. Entered(s).state = s
      BY DEF Entered
    <3>2. Link(h, a, b, count, frame, Entered(s))
      BY <1>4, <3>1 DEF Link, b
    <3>. QED
      BY <1>2, <1>8, <1>10, <3>2
  <2>2. ASSUME NEW k \in 1 .. D - 1
        PROVE  Link(h, brr[k], brr[k + 1], N + 1 - k, stack'[k], stack'[k + 1])
    <3>1. Link(h, arr[k], arr[k + 1], N + 1 - k, stack[k], stack[k + 1])
      BY <1>1 DEF Arrays
    <3>2. k \in 1 .. D /\ k # D /\ k + 1 \in 1 .. D
      BY <1>2
    <3>3. stack'[k] = stack[k] /\ stack'[k + 1].state = stack[k + 1].state
      BY <1>2, <1>4, <1>10, <3>2
    <3>4. brr[k] = arr[k] /\ brr[k + 1] = arr[k + 1]
      BY <1>8, <3>2
    <3>. QED
      BY <3>1, <3>3, <3>4 DEF Link
  <2>3. \A k \in 1 .. D : k \in 1 .. D - 1 \/ k = D
    BY <1>2
  <2>. QED
    BY <2>1, <2>2, <2>3
<1>18. Arrays(brr)'
  <2>1. Depth' = D + 1 /\ (D + 1) - 1 = D /\ brr[Depth'] = b
    BY <1>2, <1>8, <1>13
  <2>2. Len(calls') = N /\ history' = h
    BY <1>13
  <2>. HIDE DEF D, N, h, a
  <2>3. \A j \in 1 .. Len(calls') : calls'[j] = history'[brr[Depth'][j]]
    BY <1>11, <2>1, <2>2
  <2>4. \A k \in 1 .. Depth' - 1 : linear'[k] = history'[brr[Depth'][Len(calls') + 1 - k]]
    BY <1>15, <2>1, <2>2
  <2>5. \A k \in 1 .. Depth' :
          Level(history', Len(calls'), brr[k], Len(calls') + 1 - k, stack'[k])
    BY <1>16, <2>1, <2>2
  <2>6. \A k \in 1 .. Depth' - 1 :
          Link(history', brr[k], brr[k + 1], Len(calls') + 1 - k, stack'[k], stack'[k + 1])
    BY <1>17, <2>1, <2>2
  <2>. QED
    BY <2>3, <2>4, <2>5, <2>6 DEF Arrays
<1>19. stack'[1].state = InitialState
  BY <1>1, <1>2, <1>4, <1>10
<1>20. Known(history, brr[Depth], count, pc, found, Top)'
  <2>1. Entered(s).i = 1
    BY DEF Entered
  <2>. QED
    BY <1>3, <1>13, <2>1 DEF Known
<1>. QED
  BY <1>3, <1>14, <1>18, <1>19, <1>20 DEF Searching

\* The search comes back to the level above.
LEMMA ComesBack ==
  ASSUME NEW arr, Searching(arr), Unwind
  PROVE  Searching(arr)' /\ pc' \in {"return", "apply", "next"}
<1>1. SearchTypes /\ Arrays(arr) /\ stack[1].state = InitialState
      /\ Known(history, arr[Depth], count, pc, found, Top)
  BY DEF Searching
<1>. DEFINE D == Depth  N == Len(calls)  h == history  E == D - 1
            a == arr[E]
            b == arr[D]
            frame == stack[E]
            i == frame.i
            n == count + 1
<1>2. /\ D \in Nat /\ D >= 1 /\ D \in 1 .. D /\ D = Len(stack)
      /\ N \in Nat /\ count = N + 1 - D /\ count \in Nat
      /\ Top = stack[D]
      /\ h \in Seq(Call)
      /\ \A j \in 1 .. N : calls[j] = h[b[j]]
  BY TopFacts DEF Depth
<1>3. /\ pc = "return" /\ D > 1
      /\ count' = n
      /\ calls' = Swapped(i, n)
      /\ linear' = SubSeq(linear, 1, Len(linear) - 1)
      /\ pc' = IF found THEN "return" ELSE frame.waits
      /\ stack' = SubSeq(stack, 1, D - 1)
      /\ UNCHANGED <<history, time, found>>
  BY DEF Unwind, Caller, Depth
<1>4. /\ E \in Nat /\ E >= 1 /\ E \in 1 .. D - 1 /\ E \in 1 .. D /\ E + 1 = D
      /\ n = N + 1 - E /\ n \in 1 .. N /\ count = n - 1
  BY <1>2, <1>3
<1>5. stack \in Seq(Frame) /\ frame \in Frame
  BY <1>1, <1>2, <1>4 DEF SearchTypes
<1>6. Level(h, N, a, n, frame) /\ Link(h, a, b, n, frame, Top)
  BY <1>1, <1>2, <1>4 DEF Arrays
<1>7. Sorted(h, N, a) /\ i \in 1 .. n /\ b = Exchanged(a, i, n) /\ IsFirst(h, a, n, i)
      /\ (frame.waits = "next" => Top.state = NextState(frame.state, h[a[i]].op))
  BY <1>6 DEF Level, Link
<1>. HIDE DEF i, n
<1>8. /\ b[n] = a[i] /\ b[i] = a[n]
      /\ \A q \in 1 .. N : q # i /\ q # n => b[q] = a[q]
      /\ Remaining(h, b, n - 1) = Remaining(h, a, n) \ {a[i]}
  <2>1. N \in Nat /\ h \in Seq(Call) /\ n \in 1 .. N
    BY <1>2, <1>4
  <2>. HIDE DEF N, h, a, b
  <2>. QED
    BY <1>7, <2>1, Exchange, SMTT(30)
<1>9. /\ stack' \in Seq(Frame) /\ Len(stack') = E
      /\ \A k \in 1 .. E : stack'[k] = stack[k]
  BY <1>2, <1>3, <1>4, <1>5
<1>10. calls' \in Seq(Call) /\ Len(calls') = N /\ \A j \in 1 .. N : calls'[j] = h[a[j]]
  <2>0. i \in 1 .. N
    BY <1>4, <1>7
  <2>1. calls \in Seq(Call)
    BY <1>1 DEF SearchTypes
  <2>2. n \in 1 .. N
    BY <1>4
  <2>3. calls' = [calls EXCEPT ![i] = calls[n], ![n] = calls[i]]
    BY <1>3 DEF Swapped
  <2>4. /\ calls' \in Seq(Call) /\ Len(calls') = N
        /\ calls'[n] = calls[i] /\ calls'[i] = calls[n]
        /\ \A j \in 1 .. N : j # i /\ j # n => calls'[j] = calls[j]
    BY <2>0, <2>1, <2>2, <2>3, SwapInSequence
  <2>5. \A j \in 1 .. N : calls[j] = h[b[j]]
    BY <1>2
  <2>. HIDE DEF N, a, b, h, E
  <2>. QED
    BY <1>8, <2>0, <2>2, <2>4, <2>5
<1>11. linear' \in Seq(Call) /\ Len(linear') = E - 1
       /\ \A k \in 1 .. E - 1 : linear'[k] = linear[k]
  <2>1. linear \in Seq(Call) /\ Len(linear) = E
    BY <1>1, <1>4 DEF SearchTypes
  <2>2. linear' = SubSeq(linear, 1, Len(linear) - 1) /\ E \in Nat /\ E >= 1
    BY <1>3, <1>4
  <2>. HIDE DEF E
  <2>3. Len(linear) > 0
    BY <2>1, <2>2
  <2>. QED
    BY <2>1, <2>2, <2>3, WithoutTheLast
<1>12. Depth' = E /\ Len(calls)' = N /\ Top' = frame /\ history' = h
  BY <1>3, <1>4, <1>9, <1>10 DEF Depth, Top
<1>13. SearchTypes'
  <2>1. n \in Nat
    BY <1>4
  <2>. QED
    BY <1>2, <1>3, <1>4, <1>9, <1>10, <1>11, <1>12, <2>1 DEF SearchTypes
<1>14. \A k \in 1 .. E - 1 : linear'[k] = h[a[N + 1 - k]]
  <2>. SUFFICES ASSUME NEW k \in 1 .. E - 1
                PROVE  linear'[k] = h[a[N + 1 - k]]
    OBVIOUS
  <2>1. k \in 1 .. D - 1
    BY <1>4
  <2>2. linear[k] = h[b[N + 1 - k]]
    BY <1>1, <2>1 DEF Arrays
  <2>3. N + 1 - k \in 1 .. N /\ N + 1 - k # i /\ N + 1 - k # n
    BY <1>2, <1>4, <1>7, SMTT(30)
  <2>. QED
    BY <1>8, <1>11, <2>2, <2>3
<1>15. Arrays(arr)'
  <2>1. \A k \in 1 .. E : Level(h, N, arr[k], N + 1 - k, stack'[k])
    <3>1. \A k \in 1 .. E : k \in 1 .. D
      BY <1>4
    <3>. QED
      BY <1>1, <1>9, <3>1 DEF Arrays
  <2>2. \A k \in 1 .. E - 1 : Link(h, arr[k], arr[k + 1], N + 1 - k, stack'[k], stack'[k + 1])
    <3>1. \A k \in 1 .. E - 1 : k \in 1 .. D - 1 /\ k \in 1 .. E /\ k + 1 \in 1 .. E
      BY <1>4
    <3>. QED
      BY <1>1, <1>9, <3>1 DEF Arrays
  <2>. HIDE DEF D, N, h, E
  <2>. QED
    BY <1>10, <1>12, <1>14, <2>1, <2>2 DEF Arrays, N, h
<1>16. stack'[1].state = InitialState
  BY <1>1, <1>4, <1>9
<1>17. pc' \in {"return", "apply", "next"}
  BY <1>3, <1>5 DEF Frame
<1>18. Known(h, a, n, pc', found, frame)
  <2>. DEFINE at == pc'
  <2>1. CASE found
    BY <1>3, <2>1 DEF Known
  <2>2. CASE ~found /\ frame.waits = "apply"
    BY <1>3, <1>7, <2>2 DEF Known, i
  <2>3. CASE ~found /\ frame.waits = "next"
    <3>1. ~Possible(h, Remaining(h, b, count), Top.state)
      BY <1>1, <1>3, <2>3 DEF Known
    <3>2. ~Possible(h, Remaining(h, a, n) \ {a[i]}, NextState(frame.state, h[a[i]].op))
      BY <1>4, <1>7, <1>8, <2>3, <3>1
    <3>3. Dead(h, a, n, frame.state, i)
      BY <3>2 DEF Dead
    <3>. QED
      BY <1>3, <1>7, <2>3, <3>3 DEF Known, i
  <2>. QED
    BY <1>5, <2>1, <2>2, <2>3 DEF Frame
<1>19. Known(history, arr[Depth], count, pc, found, Top)'
  <2>1. arr[Depth]' = a
    BY <1>12
  <2>. QED
    BY <1>3, <1>12, <1>18, <2>1
<1>. QED
  BY <1>13, <1>15, <1>16, <1>17, <1>19 DEF Searching

\* A search has begun.
HasBegun ==
  /\ history \in Seq(Call)
  /\ calls = Cleanup(history) /\ count = Len(calls) /\ linear = <<>>
  /\ stack = <<Entered(InitialState)>> /\ pc = "search"

\* The search goes on as it should, with some arrays.
IsSearching == \E arr : Searching(arr)

\* A search begins as it should (LinChecker::Check).
LEMMA Begins == HasBegun => IsSearching
<1>. SUFFICES ASSUME HasBegun
              PROVE  IsSearching
  OBVIOUS
<1>. USE DEF HasBegun
<1>. DEFINE h == history
            c == Cleanup(h)
            top == Entered(InitialState)
<1>1. PICK a : c \in Seq(Call) /\ Picks(h, Len(h), c, a)
  BY CleanupKeeps
<1>2. Level(h, Len(c), a, Len(c), top)
  BY <1>1, FirstLevel
<1>3. top \in Frame /\ top.i = 1 /\ top.state = InitialState
  BY InitialStateType DEF Entered, Frame
<1>. HIDE DEF c, top
<1>4. PICK arr : arr[1] = a
  <2>. DEFINE f == [k \in {1} |-> a]
  <2>1. f[1] = a
    OBVIOUS
  <2>. QED
    BY <2>1
<1>5. /\ stack = <<top>> /\ stack \in Seq(Frame) /\ stack[1] = top /\ Len(stack) = 1
      /\ calls = c
  BY <1>3 DEF c, top
<1>6. Depth = 1 /\ Top = top
  BY <1>5 DEF Depth, Top
<1>7. Len(c) \in Nat /\ Len(c) + 1 - 1 = Len(c)
  BY <1>1
<1>8. SearchTypes
  <2>1. linear \in Seq(Call) /\ Len(linear) = 0
    OBVIOUS
  <2>. QED
    BY <1>1, <1>5, <1>6, <1>7, <2>1 DEF SearchTypes
<1>9. Arrays(arr)
  <2>1. \A j \in 1 .. Len(c) : c[j] = h[a[j]]
    BY <1>1 DEF Picks
  <2>2. 1 .. 1 - 1 = {} /\ 1 .. 1 = {1}
    OBVIOUS
  <2>. QED
    BY <1>2, <1>4, <1>5, <1>6, <1>7, <2>1, <2>2 DEF Arrays
<1>10. Known(history, arr[Depth], count, pc, found, Top)
  BY <1>3, <1>6 DEF Known
<1>. QED
  BY <1>3, <1>5, <1>8, <1>9, <1>10 DEF Searching, IsSearching

\* So does one that begins in this step.
LEMMA BeginsNext == HasBegun' => IsSearching'
BY Begins, PTL

\* Every step of the search.
LEMMA SearchStep ==
  ASSUME SearchInv, SearchNext, TimeLimit \in Nat
  PROVE  SearchInv'
<1>1. pc # "idle" /\ time \in Nat
  BY DEF SearchInv, SearchNext, Enter, Ignore, PassOver, Fit, AtApply, NoneLeft, Unwind,
         Continue, End
<1>2. PICK arr : Searching(arr)
  BY <1>1 DEF SearchInv
<1>3. FoundIsTrue
  BY <1>1 DEF SearchInv
<1>. DEFINE N == Len(calls)  a == arr[Depth]
<1>4. /\ Depth \in Nat /\ Depth >= 1
      /\ N \in Nat /\ count = N + 1 - Depth /\ count \in Nat
      /\ Top \in Frame /\ Top = stack[Depth]
      /\ Level(history, N, a, count, Top)
      /\ history \in Seq(Call)
  BY <1>2, TopFacts
<1>5. stack \in Seq(Frame) /\ Known(history, a, count, pc, found, Top)
      /\ (pc = "end" => Depth = 1) /\ stack[1].state = InitialState
  BY <1>2 DEF Searching, SearchTypes
\* The state of Search and its top are left as they are.
<1>6. ASSUME UNCHANGED <<history, calls, count, linear, stack>>,
             Known(history, a, count, pc', found', Top), pc' = "end" => Depth = 1
      PROVE  Searching(arr)'
  <2>1. WithTop(Top) = stack
    BY <1>4, <1>5 DEF WithTop, Top, Depth
  <2>2. stack' = WithTop(Top)
    BY <1>6, <2>1
  <2>. QED
    BY <1>2, <1>4, <1>6, <2>2, TopMoves
\* The loop goes on.
<1>7. ASSUME NextCall, Top.i \in 1 .. count,
             Dead(history, a, count, Top.state, Top.i)
      PROVE  SearchInv'
  <2>. DEFINE frame == [Top EXCEPT !.i = @ + 1]
  <2>1. /\ frame \in Frame /\ frame.state = Top.state /\ frame.i = Top.i + 1
    BY <1>4, SMTT(30) DEF Frame
  <2>. HIDE DEF frame
  <2>2. Level(history, N, a, count, frame)
    <3>1. \A j \in 1 .. frame.i - 1 : j \in 1 .. Top.i - 1 \/ j = Top.i
      BY <1>4, <1>7, <2>1
    <3>2. \A j \in 1 .. Top.i - 1 : Dead(history, a, count, Top.state, j)
      BY <1>4 DEF Level
    <3>3. \A j \in 1 .. frame.i - 1 : Dead(history, a, count, Top.state, j)
      BY <1>7, <3>1, <3>2
    <3>. QED
      BY <1>4, <2>1, <3>3 DEF Level
  <2>3. Known(history, a, count, "loop", found', frame)
    BY <1>4, <1>7, <2>1 DEF Known
  <2>4. /\ stack' = WithTop(frame) /\ pc' = "loop"
        /\ UNCHANGED <<history, calls, count, linear, time, found>>
    BY <1>7 DEF NextCall, frame
  <2>5. Searching(arr)'
    BY <1>2, <2>1, <2>2, <2>3, <2>4, TopMoves
  <2>. QED
    BY <1>1, <1>3, <2>4, <2>5 DEF SearchInv, FoundIsTrue
<1>8. CASE Enter
  <2>1. Top.i = 1
    BY <1>5, <1>8 DEF Enter, Known
  <2>2. /\ pc' \in {"loop", "return"}
        /\ pc' = "loop" => count > 0
        /\ pc' = "return" => found'
        /\ UNCHANGED <<history, calls, count, linear, stack>>
    BY <1>4, <1>8 DEF Enter
  <2>3. Known(history, a, count, pc', found', Top)
    BY <1>4, <2>1, <2>2 DEF Known
  <2>4. Searching(arr)'
    BY <1>6, <2>2, <2>3
  <2>5. FoundIsTrue'
    <3>1. CASE count = 0
      <4>1. Linearizable(history)
        BY <1>4, <3>1, AllDone
      <4>. QED
        BY <2>2, <4>1 DEF FoundIsTrue
    <3>2. CASE count # 0
      <4>1. time' = time + 1 /\ (time' <= TimeLimit => found' = found)
        BY <1>8, <3>2 DEF Enter
      <4>2. time' <= TimeLimit => time <= TimeLimit
        BY <1>1, <4>1
      <4>3. history' = history
        BY <2>2
      <4>. QED
        BY <1>3, <4>1, <4>2, <4>3 DEF FoundIsTrue
    <3>. QED
      BY <3>1, <3>2
  <2>6. time' \in Nat
    BY <1>1, <1>8 DEF Enter
  <2>. QED
    BY <2>2, <2>4, <2>5, <2>6 DEF SearchInv
<1>9. CASE Ignore
  <2>1. pc = "loop" /\ Top.i <= count /\ Candidate(Top.i) /\ calls[Top.i].end_time = None
        /\ StepInto(Top.i, Top.state, "apply")
    BY <1>9 DEF Ignore, IsCompleted
  <2>2. Top.i \in 1 .. count
    BY <1>4, <1>5, <2>1 DEF Known
  <2>3. IsFirst(history, a, count, Top.i) /\ history[a[Top.i]].end_time = None
    BY <1>2, <2>1, <2>2, CandidateIsFirst
  <2>4. \E brr : Searching(brr)'
    BY <1>2, <2>1, <2>2, <2>3, StepsDown
  <2>5. pc' = "search" /\ UNCHANGED <<history, time, found>>
    BY <2>1 DEF StepInto
  <2>. QED
    BY <1>1, <1>3, <2>4, <2>5 DEF SearchInv, FoundIsTrue
<1>10. CASE PassOver
  <2>1. Top.i \in 1 .. count /\ ~Candidate(Top.i) /\ NextCall
    BY <1>4, <1>5, <1>10 DEF PassOver, Known
  <2>2. Dead(history, a, count, Top.state, Top.i)
    BY <1>2, <2>1, CandidateIsFirst DEF Dead
  <2>. QED
    BY <1>7, <2>1, <2>2
<1>11. CASE Fit
  <2>1. Top.i \in 1 .. count /\ IsFirst(history, a, count, Top.i)
    <3>1. CASE pc = "apply"
      BY <1>5, <3>1 DEF Known
    <3>2. CASE pc = "loop" /\ Top.i <= count /\ Candidate(Top.i)
      <4>1. Top.i \in 1 .. count
        BY <1>4, <1>5, <3>2 DEF Known
      <4>. QED
        BY <1>2, <3>2, <4>1, CandidateIsFirst
    <3>. QED
      BY <1>11, <3>1, <3>2 DEF Fit, AtApply
  <2>2. calls[Top.i] = history[a[Top.i]]
    BY <1>2, <2>1, CandidateIsFirst
  <2>3. Fits(Top.i) <=> Answers(Top.state, history[a[Top.i]])
    BY <2>2 DEF Fits, Answers, IsCompleted
  <2>4. CASE Fits(Top.i)
    <3>. DEFINE s == NextState(Top.state, history[a[Top.i]].op)
    <3>1. StepInto(Top.i, s, "next")
      BY <1>11, <2>2, <2>4 DEF Fit
    <3>2. Answers(Top.state, history[a[Top.i]])
      BY <2>3, <2>4
    <3>3. \E brr : Searching(brr)'
      BY <1>2, <2>1, <3>1, <3>2, StepsDown
    <3>4. pc' = "search" /\ UNCHANGED <<history, time, found>>
      BY <3>1 DEF StepInto
    <3>. QED
      BY <1>1, <1>3, <3>3, <3>4 DEF SearchInv, FoundIsTrue
  <2>5. CASE ~Fits(Top.i)
    <3>1. NextCall
      BY <1>11, <2>5 DEF Fit
    <3>2. Dead(history, a, count, Top.state, Top.i)
      BY <2>3, <2>5 DEF Dead
    <3>. QED
      BY <1>7, <2>1, <3>1, <3>2
  <2>. QED
    BY <2>4, <2>5
<1>12. CASE NoneLeft
  <2>1. /\ pc = "loop" /\ Top.i > count /\ pc' = "return" /\ found' = FALSE
        /\ UNCHANGED <<history, calls, count, linear, time, stack>>
    BY <1>12 DEF NoneLeft
  <2>2. Top.i = count + 1 /\ count \in 1 .. N
    BY <1>4, <1>5, <2>1 DEF Known
  <2>3. ~Possible(history, Remaining(history, a, count), Top.state)
    BY <1>4, <2>2, NothingFits
  <2>4. Searching(arr)'
    BY <1>6, <2>1, <2>3 DEF Known
  <2>. QED
    BY <1>1, <2>1, <2>4 DEF SearchInv, FoundIsTrue
<1>13. CASE Unwind
  <2>1. Searching(arr)' /\ pc' \in {"return", "apply", "next"}
    BY <1>2, <1>13, ComesBack
  <2>2. UNCHANGED <<history, time, found>>
    BY <1>13 DEF Unwind
  <2>. QED
    BY <1>1, <1>3, <2>1, <2>2 DEF SearchInv, FoundIsTrue
<1>14. CASE Continue
  <2>1. pc = "next" /\ NextCall
    BY <1>14 DEF Continue
  <2>2. Top.i \in 1 .. count /\ Dead(history, a, count, Top.state, Top.i)
    BY <1>5, <2>1 DEF Known
  <2>. QED
    BY <1>7, <2>1, <2>2
<1>15. CASE End
  <2>1. pc = "return" /\ Depth = 1 /\ pc' = "end"
        /\ UNCHANGED <<history, calls, count, linear, time, stack, found>>
    BY <1>15 DEF End, Depth
  <2>2. Searching(arr)'
    BY <1>5, <1>6, <2>1 DEF Known
  <2>. QED
    BY <1>1, <1>3, <2>1, <2>2 DEF SearchInv, FoundIsTrue
<1>. QED
  BY <1>8, <1>9, <1>10, <1>11, <1>12, <1>13, <1>14, <1>15 DEF SearchNext

\* The first call of Search answers no only if no order explains the history.
LEMMA RefusalIsRight ==
  ASSUME SearchInv
  PROVE  RefusedIsNotLinearizable
<1>. SUFFICES ASSUME pc = "end", ~found
              PROVE  ~Linearizable(history)
  BY DEF RefusedIsNotLinearizable
<1>1. PICK arr : Searching(arr)
  BY DEF SearchInv
<1>2. /\ Known(history, arr[Depth], count, pc, found, Top) /\ Depth = 1
      /\ stack[1].state = InitialState
  BY <1>1 DEF Searching
<1>3. /\ Len(calls) \in Nat /\ count = Len(calls) /\ Top = stack[1]
      /\ Sorted(history, Len(calls), arr[1]) /\ history \in Seq(Call)
  BY <1>1, <1>2, TopFacts DEF Level
<1>4. ~Possible(history, Remaining(history, arr[1], count), InitialState)
  BY <1>2, <1>3 DEF Known
<1>. QED
  BY <1>3, <1>4, NothingPossible

\* No call is placed before one that was over when it began.
LEMMA PlacesAreInOrder ==
  ASSUME SearchInv
  PROVE  PlacedInOrder
<1>1. CASE pc = "idle"
  BY <1>1 DEF SearchInv, PlacedInOrder
<1>2. CASE pc # "idle"
  <2>1. PICK arr : Searching(arr)
    BY <1>2 DEF SearchInv
  <2>. DEFINE D == Depth  N == Len(calls)  a == arr[Depth]
  <2>2. /\ D \in Nat /\ D >= 1 /\ N \in Nat /\ count = N + 1 - D /\ count \in Nat
        /\ Level(history, N, a, count, Top)
        /\ \A j \in 1 .. N : calls[j] = history[a[j]]
    BY <2>1, TopFacts
  <2>3. Ordered(history, N, a, count)
    BY <2>2 DEF Level
  <2>4. /\ \A k \in 1 .. D - 1 : linear[k] = history[a[N + 1 - k]]
        /\ linear \in Seq(Call) /\ Len(linear) = D - 1
    BY <2>1 DEF Searching, Arrays, SearchTypes
  <2>5. DOMAIN linear = 1 .. D - 1
    BY <2>4
  <2>. HIDE DEF D, N, a
  <2>6. ASSUME NEW k \in 1 .. D - 1, NEW b \in 1 .. N - k
        PROVE  ~PrecedesInRealTime(history[a[b]], linear[k])
    <3>1. N + 1 - k \in count + 1 .. N /\ b \in 1 .. (N + 1 - k) - 1
      BY <2>2, <2>6
    <3>. QED
      BY <2>3, <2>4, <3>1 DEF Ordered
  <2>7. ASSUME NEW k \in 1 .. D - 1, NEW m \in 1 .. D - 1, k < m
        PROVE  ~PrecedesInRealTime(linear[m], linear[k])
    <3>1. N + 1 - m \in 1 .. N - k
      BY <2>2, <2>7
    <3>2. linear[m] = history[a[N + 1 - m]]
      BY <2>4
    <3>. QED
      BY <2>6, <3>1, <3>2
  <2>8. ASSUME NEW k \in 1 .. D - 1, NEW i \in 1 .. count
        PROVE  ~PrecedesInRealTime(calls[i], linear[k])
    <3>1. i \in 1 .. N - k /\ i \in 1 .. N
      BY <2>2, <2>8
    <3>. QED
      BY <2>2, <2>6, <3>1
  <2>. QED
    BY <2>5, <2>7, <2>8 DEF PlacedInOrder
<1>. QED
  BY <1>1, <1>2

-----------------------------------------------------------------------------
(* The recorder *)

\* What the recorder keeps of a call that runs (HistoryRecorder).
RunningCall ==
  [id : 1 .. next_id, client : Client, op : Operation, start_time : 0 .. now]

\* Types of the recorder; running calls have numbers of their own.
RecorderTypes ==
  /\ now \in Nat /\ next_id \in Nat /\ stopped \in BOOLEAN
  /\ store \in State
  /\ running_calls \in SUBSET RunningCall
  /\ \A x, y \in running_calls : x.id = y.id => x = y
  /\ requests \in SUBSET [id : 1 .. next_id, op : Operation]
  /\ responses \in SUBSET [id : 1 .. next_id, output : Val \cup {Default, Unit}]
  /\ finalized_calls \in Seq(Call)

\* The answers of a store are values or nothing (KVStoreModel::Apply).
LEMMA OutputType ==
  ASSUME NEW s \in State, NEW op \in Operation
  PROVE  Output(s, op) \in Val \cup {Default, Unit}
<1>1. op.method # "Set" => op.key \in Key
  BY DEF Operation
<1>. QED
  BY <1>1 DEF Output, State

\* The calls of S in the order of their numbers.
LEMMA ByIdIs ==
  ASSUME NEW S, NEW N \in Nat, \A x \in S : x.id \in 1 .. N,
         \A x, y \in S : x.id = y.id => x = y
  PROVE  \E m \in Nat : /\ ById(S) \in [1 .. m -> S]
                        /\ \A i, j \in 1 .. m : ById(S)[i] = ById(S)[j] => i = j
                        /\ \A x \in S : \E i \in 1 .. m : ById(S)[i] = x
<1>. DEFINE Up(k) == {x \in S : x.id <= k}
            Row(k, m, f) == /\ f \in [1 .. m -> Up(k)]
                            /\ \A i, j \in 1 .. m : i < j => f[i].id < f[j].id
                            /\ \A x \in Up(k) : \E i \in 1 .. m : f[i] = x
            T == {k \in 0 .. N : ~ \E m \in Nat : \E f : Row(k, m, f)}
<1>1. \E m \in Nat : \E f : Row(0, m, f)
  <2>. DEFINE f == [i \in 1 .. 0 |-> 0]
  <2>1. Up(0) = {} /\ 1 .. 0 = {}
    OBVIOUS
  <2>2. Row(0, 0, f)
    BY <2>1
  <2>. HIDE DEF Row
  <2>. QED
    BY <2>2
<1>2. ASSUME NEW k \in 1 .. N, NEW m \in Nat, NEW f, Row(k - 1, m, f)
      PROVE  \E l \in Nat : \E g : Row(k, l, g)
  <2>1. CASE \A x \in S : x.id # k
    <3>1. Up(k) = Up(k - 1)
      BY <2>1
    <3>2. Row(k, m, f)
      BY <1>2, <3>1
    <3>. HIDE DEF Row
    <3>. QED
      BY <3>2
  <2>2. ASSUME NEW x \in S, x.id = k
        PROVE  \E l \in Nat : \E g : Row(k, l, g)
    <3>. DEFINE l == m + 1
                g == [i \in 1 .. l |-> IF i = l THEN x ELSE f[i]]
    <3>1. l \in Nat /\ l \in 1 .. l /\ \A i \in 1 .. l : i \in 1 .. m \/ i = l
      OBVIOUS
    <3>2. g[l] = x /\ \A i \in 1 .. m : i \in 1 .. l /\ i # l /\ g[i] = f[i]
      OBVIOUS
    <3>3. \A y \in S : y \in Up(k) <=> y \in Up(k - 1) \/ y = x
      BY <2>2
    <3>4. \A i \in 1 .. m : f[i] \in Up(k - 1) /\ f[i].id < k
      BY <1>2
    <3>5. g \in [1 .. l -> Up(k)]
      BY <3>1, <3>3, <3>4, <2>2
    <3>. HIDE DEF l, g
    <3>6. \A i, j \in 1 .. l : i < j => g[i].id < g[j].id
      <4>. SUFFICES ASSUME NEW i \in 1 .. l, NEW j \in 1 .. l, i < j
                    PROVE  g[i].id < g[j].id
        OBVIOUS
      <4>1. i \in 1 .. m
        BY <3>1
      <4>2. CASE j = l
        BY <2>2, <3>2, <3>4, <4>1, <4>2
      <4>3. CASE j \in 1 .. m
        BY <1>2, <3>2, <4>1, <4>3
      <4>. QED
        BY <3>1, <4>2, <4>3
    <3>7. \A y \in Up(k) : \E i \in 1 .. l : g[i] = y
      <4>1. \A y \in Up(k - 1) : \E i \in 1 .. m : f[i] = y
        BY <1>2
      <4>2. \A y \in Up(k) : y \in Up(k - 1) \/ y = x
        BY <3>3
      <4>. HIDE DEF Up
      <4>. QED
        BY <3>1, <3>2, <4>1, <4>2
    <3>8. Row(k, l, g)
      BY <3>5, <3>6, <3>7
    <3>. HIDE DEF Row
    <3>. QED
      BY <3>1, <3>8
  <2>. QED
    BY <2>1, <2>2
<1>. HIDE DEF Row
<1>3. T = {}
  <2>. SUFFICES ASSUME T # {}
                PROVE  FALSE
    OBVIOUS
  <2>1. T \in SUBSET Nat
    OBVIOUS
  <2>. HIDE DEF T
  <2>2. PICK k \in T : \A i \in T : k <= i
    BY <2>1, LeastElement
  <2>3. k \in 0 .. N /\ ~ \E m \in Nat : \E f : Row(k, m, f)
    BY DEF T
  <2>4. k \in 1 .. N
    BY <1>1, <2>3
  <2>5. k - 1 \in 0 .. N /\ k - 1 \notin T
    BY <2>2, <2>4
  <2>6. PICK m \in Nat : \E f : Row(k - 1, m, f)
    BY <2>5 DEF T
  <2>. QED
    BY <1>2, <2>3, <2>4, <2>6
<1>4. PICK m \in Nat : \E f : Row(N, m, f)
  <2>1. N \in 0 .. N
    OBVIOUS
  <2>. QED
    BY <1>3, <2>1
<1>5. PICK f : Row(N, m, f)
  BY <1>4
<1>6. Up(N) = S
  OBVIOUS
<1>7. /\ f \in [1 .. m -> S]
      /\ \A i, j \in 1 .. m : i < j => f[i].id < f[j].id
      /\ \A x \in S : \E i \in 1 .. m : f[i] = x
  BY <1>5, <1>6 DEF Row
<1>8. \A i, j \in 1 .. m : f[i] = f[j] => i = j
  <2>. SUFFICES ASSUME NEW i \in 1 .. m, NEW j \in 1 .. m, i < j, f[i] = f[j]
                PROVE  FALSE
    OBVIOUS
  <2>1. f[i].id < f[i].id /\ f[i].id \in Nat
    BY <1>7
  <2>. QED
    BY <2>1
<1>9. IsFiniteSet(S) /\ Cardinality(S) = m /\ f \in Arrangements(S)
  BY <1>7, <1>8, OrderIsArrangement
<1>10. DOMAIN f = 1 .. m
  BY <1>7
<1>11. ById(S) \in Arrangements(S)
  <2>1. \E g \in Arrangements(S) : \A i, j \in DOMAIN g : i < j => g[i].id < g[j].id
    BY <1>7, <1>9, <1>10
  <2>. QED
    BY <2>1 DEF ById
<1>12. \A x \in S : \E i \in 1 .. m : ById(S)[i] = x
  BY <1>9, <1>11, ArrangementIsOnto
<1>13. /\ ById(S) \in [1 .. m -> S]
       /\ \A i, j \in 1 .. m : ById(S)[i] = ById(S)[j] => i = j
  BY <1>9, <1>11 DEF Arrangements
<1>. QED
  BY <1>12, <1>13

-----------------------------------------------------------------------------
(* What has been executed *)

\* The n requests that the service has executed, each at its time, and the
\* states of its store before and after.
Executions(n, ex, st) ==
  /\ n \in Nat
  /\ ex \in [1 .. n -> [id : 1 .. next_id, op : Operation, time : 0 .. now]]
  /\ \A i, j \in 1 .. n : ex[i].id = ex[j].id => i = j
  /\ \A i, j \in 1 .. n : i < j => ex[i].time <= ex[j].time
  /\ st \in [0 .. n -> State]
  /\ st[0] = InitialState /\ st[n] = store
  /\ \A i \in 1 .. n : st[i] = NextState(st[i - 1], ex[i].op)

\* e is the execution of call c.
IsOf(e, c) ==
  /\ e.op = c.op /\ c.start_time <= e.time
  /\ c.end_time # None => e.time <= c.end_time

\* The calls of h have the numbers num, and those that have been executed, with
\* the right answers if they are completed, are in ex.
Numbered(h, num) ==
  \A p, q \in DOMAIN h : num[p] = num[q] => p = q

\* Every completed call has the answer of its execution.
AnsweredRight(n, ex, st, h, num) ==
  \A p \in DOMAIN h : h[p].end_time # None =>
    \E j \in 1 .. n : ex[j].id = num[p] /\ h[p].result = Output(st[j - 1], ex[j].op)

\* If each execution is of a call of h, they show that h is linearizable.
LEMMA ExecutionsLinearize ==
  ASSUME NEW n, NEW ex, NEW st, Executions(n, ex, st), NEW h \in Seq(Call), NEW num,
         Numbered(h, num), AnsweredRight(n, ex, st, h, num),
         \A j \in 1 .. n : \E p \in DOMAIN h : num[p] = ex[j].id /\ IsOf(ex[j], h[p])
  PROVE  Linearizable(h)
<1>. DEFINE order == [j \in 1 .. n |->
                        CHOOSE p \in DOMAIN h : num[p] = ex[j].id /\ IsOf(ex[j], h[p])]
            P == DOMAIN h
<1>1. /\ n \in Nat
      /\ \A j \in 1 .. n : ex[j].id \in Nat /\ ex[j].op \in Operation /\ ex[j].time \in Nat
      /\ \A i, j \in 1 .. n : ex[i].id = ex[j].id => i = j
      /\ \A i, j \in 1 .. n : i < j => ex[i].time <= ex[j].time
      /\ st \in [0 .. n -> State] /\ st[0] = InitialState
      /\ \A i \in 1 .. n : st[i] = NextState(st[i - 1], ex[i].op)
  BY SMTT(30) DEF Executions
<1>2. \A j \in 1 .. n : order[j] \in P /\ num[order[j]] = ex[j].id /\ IsOf(ex[j], h[order[j]])
  OBVIOUS
<1>3. order \in [1 .. n -> P]
  BY <1>2
<1>. HIDE DEF order
<1>4. \A i, j \in 1 .. n : order[i] = order[j] => i = j
  <2>. SUFFICES ASSUME NEW i \in 1 .. n, NEW j \in 1 .. n, order[i] = order[j]
                PROVE  i = j
    OBVIOUS
  <2>1. num[order[i]] = ex[i].id /\ num[order[j]] = ex[j].id
    BY <1>2
  <2>2. ex[i].id = ex[j].id
    BY <2>1
  <2>. QED
    BY <1>1, <2>2
<1>5. Goes(h, order, n, st, InitialState)
  <2>1. \A i \in 1 .. n : h[order[i]].op = ex[i].op
    BY <1>2 DEF IsOf
  <2>. QED
    BY <1>1, <2>1 DEF Goes, GoesOn
<1>6. \A i \in 1 .. n : Answers(st[i - 1], h[order[i]])
  <2>. SUFFICES ASSUME NEW i \in 1 .. n, h[order[i]].end_time # None
                PROVE  Output(st[i - 1], h[order[i]].op) = h[order[i]].result
    BY DEF Answers
  <2>1. PICK j \in 1 .. n : /\ ex[j].id = num[order[i]]
                            /\ h[order[i]].result = Output(st[j - 1], ex[j].op)
    BY <1>2 DEF AnsweredRight
  <2>2. i = j
    BY <1>1, <1>2, <2>1
  <2>. QED
    BY <1>2, <2>1, <2>2 DEF IsOf
<1>7. \A i, j \in 1 .. n : i < j => ~PrecedesInRealTime(h[order[j]], h[order[i]])
  <2>. SUFFICES ASSUME NEW i \in 1 .. n, NEW j \in 1 .. n, i < j,
                       h[order[j]].end_time # None
                PROVE  ~(h[order[j]].end_time < h[order[i]].start_time)
    BY DEF PrecedesInRealTime, IsCompleted
  <2>1. h[order[i]].start_time <= ex[i].time /\ ex[j].time <= h[order[j]].end_time
    BY <1>2 DEF IsOf
  <2>2. h[order[i]].start_time \in Nat /\ h[order[j]].end_time \in Nat
    BY <1>2, CallOf
  <2>3. ex[i].time \in Nat /\ ex[j].time \in Nat /\ ex[i].time <= ex[j].time
    BY <1>1
  <2>. DEFINE a == h[order[i]].start_time  b == h[order[j]].end_time
              c == ex[i].time  d == ex[j].time
  <2>4. a \in Nat /\ b \in Nat /\ c \in Nat /\ d \in Nat /\ a <= c /\ c <= d /\ d <= b
    BY <2>1, <2>2, <2>3
  <2>. HIDE DEF a, b, c, d
  <2>5. ~(b < a)
    BY <2>4
  <2>. QED
    BY <2>5 DEF a, b
<1>8. IsOrder(h, P, n, order, st, InitialState)
  BY <1>3, <1>4, <1>5, <1>6, <1>7 DEF IsOrder
<1>9. Covers(h, DOMAIN h, n, order)
  <2>. SUFFICES ASSUME NEW p \in DOMAIN h, h[p].end_time # None
                PROVE  \E i \in 1 .. n : order[i] = p
    BY DEF Covers
  <2>1. PICK j \in 1 .. n : ex[j].id = num[p]
    BY DEF AnsweredRight
  <2>2. order[j] = p
    BY <1>2, <2>1 DEF Numbered
  <2>. QED
    BY <2>2
<1>. QED
  BY <1>1, <1>8, <1>9, OrderLinearizes

\* An executed request is that of a call, be it running or put down.
ExecutedForACall(n, ex, num) ==
  \A j \in 1 .. n :
    \/ \E call \in running_calls :
         call.id = ex[j].id /\ call.op = ex[j].op /\ call.start_time <= ex[j].time
    \/ \E p \in DOMAIN finalized_calls :
         num[p] = ex[j].id /\ IsOf(ex[j], finalized_calls[p])

\* So is a request on its way; if the call is put down it is as a lost one.
RequestedForACall(num) ==
  \A request \in requests :
    \/ \E call \in running_calls : call.id = request.id /\ call.op = request.op
    \/ \E p \in DOMAIN finalized_calls :
         /\ num[p] = request.id /\ finalized_calls[p].op = request.op
         /\ finalized_calls[p].end_time = None /\ finalized_calls[p].start_time <= now

\* A request is executed once.
RequestsAreNew(n, ex) ==
  /\ \A request \in requests : \A j \in 1 .. n : request.id # ex[j].id
  /\ \A x, y \in requests : x.id = y.id => x = y

\* A response is the answer of an execution.
ResponsesAreRight(n, ex, st) ==
  \A response \in responses :
    \E j \in 1 .. n : ex[j].id = response.id /\ response.output = Output(st[j - 1], ex[j].op)

\* A number is that of one call, running or put down.
NumbersAreUnique(num) ==
  /\ \A p \in DOMAIN finalized_calls : num[p] \in 1 .. next_id
  /\ Numbered(finalized_calls, num)
  /\ \A p \in DOMAIN finalized_calls : \A call \in running_calls : num[p] # call.id

\* The history, with the calls that run, is that of the executions ex.
RightSoFar(n, ex, st, num) ==
  /\ Executions(n, ex, st)
  /\ NumbersAreUnique(num)
  /\ AnsweredRight(n, ex, st, finalized_calls, num)
  /\ ExecutedForACall(n, ex, num)
  /\ RequestedForACall(num)
  /\ RequestsAreNew(n, ex)
  /\ ResponsesAreRight(n, ex, st)

-----------------------------------------------------------------------------
(* The types of the recorder *)

\* Finalize puts down the calls that run, each as lost and once.
LEMMA StopTypes ==
  ASSUME RecorderTypes, Stop
  PROVE  \E m \in Nat : \E f :
           /\ f \in [1 .. m -> running_calls]
           /\ \A i, j \in 1 .. m : f[i] = f[j] => i = j
           /\ \A call \in running_calls : \E i \in 1 .. m : f[i] = call
           /\ finalized_calls' \in Seq(Call)
           /\ Len(finalized_calls') = Len(finalized_calls) + m
           /\ \A p \in 1 .. Len(finalized_calls) : finalized_calls'[p] = finalized_calls[p]
           /\ \A i \in 1 .. m : finalized_calls'[Len(finalized_calls) + i] = Lost(f[i])
<1>. DEFINE f == ById(running_calls)  L == Len(finalized_calls)
<1>1. /\ \A call \in running_calls : call.id \in 1 .. next_id
      /\ \A x, y \in running_calls : x.id = y.id => x = y
      /\ next_id \in Nat /\ finalized_calls \in Seq(Call)
  BY DEF RecorderTypes, RunningCall
<1>2. PICK m \in Nat : /\ f \in [1 .. m -> running_calls]
                       /\ \A i, j \in 1 .. m : f[i] = f[j] => i = j
                       /\ \A call \in running_calls : \E i \in 1 .. m : f[i] = call
  BY <1>1, ByIdIs
<1>. HIDE DEF f
<1>3. \A call \in running_calls : Lost(call) \in Call
  <2>. SUFFICES ASSUME NEW call \in running_calls
                PROVE  Lost(call) \in Call
    OBVIOUS
  <2>1. call.op \in Operation /\ call.start_time \in Nat
    BY DEF RecorderTypes, RunningCall
  <2>. QED
    BY <2>1 DEF Lost, Call, IsCompleted
<1>4. DOMAIN f = 1 .. m
  BY <1>2
<1>. DEFINE more == [i \in 1 .. m |-> Lost(f[i])]
<1>5. /\ more \in Seq(Call) /\ Len(more) = m
      /\ \A i \in 1 .. m : more[i] = Lost(f[i])
  BY <1>2, <1>3
<1>6. finalized_calls' = finalized_calls \o more
  BY <1>4 DEF Stop, f
<1>. HIDE DEF more
<1>7. /\ finalized_calls' \in Seq(Call) /\ Len(finalized_calls') = L + m
      /\ \A p \in 1 .. L : finalized_calls'[p] = finalized_calls[p]
      /\ \A i \in 1 .. m : finalized_calls'[L + i] = more[i]
  BY <1>1, <1>5, <1>6
<1>8. \A i \in 1 .. m : finalized_calls'[L + i] = Lost(f[i])
  BY <1>5, <1>7
<1>. WITNESS m \in Nat
<1>. WITNESS f
<1>. QED
  BY <1>2, <1>7, <1>8, Zenon

\* No step of the recorder and its clients breaks the types.
LEMMA RecorderTypesStep ==
  ASSUME RecorderTypes, RecorderNext
  PROVE  RecorderTypes'
<1>. USE DEF RecorderTypes, RunningCall
<1>1. ASSUME NEW c \in Client, NEW op \in Operation, Start(c, op)
      PROVE  RecorderTypes'
  <2>. USE <1>1 DEF Start, CallStarted
  <2>. DEFINE new == [id |-> next_id + 1, client |-> c, op |-> op, start_time |-> now]
              request == [id |-> next_id + 1, op |-> op]
  <2>1. /\ next_id' = next_id + 1
        /\ running_calls' = running_calls \cup {new}
        /\ requests' = requests \cup {request}
        /\ UNCHANGED <<now, finalized_calls, responses, store, stopped>>
    OBVIOUS
  <2>2. \A x \in 1 .. next_id : x \in 1 .. next_id' /\ x # next_id'
    BY <2>1
  <2>3. next_id' \in Nat /\ next_id' \in 1 .. next_id' /\ now \in 0 .. now
    BY <2>1
  <2>4. running_calls' \in SUBSET RunningCall'
    BY <2>1, <2>2, <2>3
  <2>5. \A x, y \in running_calls' : x.id = y.id => x = y
    BY <2>1, <2>2
  <2>6. requests' \in SUBSET [id : 1 .. next_id', op : Operation]
    BY <2>1, <2>2, <2>3
  <2>7. responses' \in SUBSET [id : 1 .. next_id', output : Val \cup {Default, Unit}]
    BY <2>1, <2>2
  <2>. QED
    BY <2>1, <2>3, <2>4, <2>5, <2>6, <2>7
<1>2. ASSUME NEW request \in requests, Execute(request)
      PROVE  RecorderTypes'
  <2>1. request.id \in 1 .. next_id /\ request.op \in Operation
    OBVIOUS
  <2>2. Output(store, request.op) \in Val \cup {Default, Unit}
        /\ NextState(store, request.op) \in State
    BY <2>1, OutputType, NextStateType
  <2>3. responses' \in SUBSET [id : 1 .. next_id, output : Val \cup {Default, Unit}]
    BY <1>2, <2>1, <2>2 DEF Execute
  <2>. QED
    BY <1>2, <2>2, <2>3 DEF Execute
<1>3. ASSUME NEW call \in running_calls, Succeed(call)
      PROVE  RecorderTypes'
  <2>1. PICK response \in responses :
          /\ CallCompleted(call, response.output)
          /\ responses' = responses \ {response}
    BY <1>3 DEF Succeed
  <2>2. Complete(call, response.output) \in Call
    <3>1. call.op \in Operation /\ call.start_time \in Nat /\ call.start_time <= now
          /\ response.output \in Val \cup {Default, Unit} /\ now \in Nat
      OBVIOUS
    <3>. QED
      BY <3>1 DEF Complete, Call
  <2>3. finalized_calls' \in Seq(Call)
    BY <2>1, <2>2 DEF CallCompleted
  <2>4. running_calls' \in SUBSET running_calls /\ responses' \in SUBSET responses
    BY <2>1 DEF CallCompleted
  <2>. QED
    BY <1>3, <2>3, <2>4 DEF Succeed
<1>4. ASSUME NEW call \in running_calls, Fail(call)
      PROVE  RecorderTypes'
  <2>1. Lost(call) \in Call
    <3>1. call.op \in Operation /\ call.start_time \in Nat
      OBVIOUS
    <3>. QED
      BY <3>1 DEF Lost, Call, IsCompleted
  <2>2. finalized_calls' \in Seq(Call)
    BY <1>4, <2>1 DEF Fail, CallLost
  <2>3. running_calls' \in SUBSET running_calls /\ responses' \in SUBSET responses
    BY <1>4 DEF Fail, CallLost
  <2>. QED
    BY <1>4, <2>2, <2>3 DEF Fail
<1>5. ASSUME NEW call \in running_calls, Refuse(call)
      PROVE  RecorderTypes'
  BY <1>5 DEF Refuse, RemoveCall
<1>6. CASE Tick
  <2>1. now' = now + 1 /\ now' \in Nat /\ \A x \in 0 .. now : x \in 0 .. now'
    BY <1>6 DEF Tick
  <2>2. UNCHANGED <<next_id, running_calls, finalized_calls, requests, responses, store, stopped>>
    BY <1>6 DEF Tick
  <2>3. running_calls' \in SUBSET RunningCall'
    BY <2>1, <2>2
  <2>. QED
    BY <2>1, <2>2, <2>3
<1>7. CASE Stop
  <2>1. finalized_calls' \in Seq(Call)
    BY <1>7, StopTypes
  <2>. QED
    BY <1>7, <2>1 DEF Stop
<1>. QED
  BY <1>1, <1>2, <1>3, <1>4, <1>5, <1>6, <1>7 DEF RecorderNext

\* The world goes on, with more numbers or time.
LEMMA ExecutionsStay ==
  ASSUME NEW n, NEW ex, NEW st, Executions(n, ex, st), RecorderTypes,
         next_id' \in Nat, now' \in Nat, next_id' >= next_id, now' >= now, store' = store
  PROVE  Executions(n, ex, st)'
<1>1. next_id \in Nat /\ now \in Nat
  BY DEF RecorderTypes
<1>2. \A x \in 1 .. next_id : x \in 1 .. next_id'
  BY <1>1
<1>3. \A x \in 0 .. now : x \in 0 .. now'
  BY <1>1
<1>4. ex \in [1 .. n -> [id : 1 .. next_id', op : Operation, time : 0 .. now']]
  <2>1. \A j \in 1 .. n : ex[j] \in [id : 1 .. next_id, op : Operation, time : 0 .. now]
    BY DEF Executions
  <2>2. \A j \in 1 .. n : ex[j] \in [id : 1 .. next_id', op : Operation, time : 0 .. now']
    BY <1>2, <1>3, <2>1
  <2>. QED
    BY <2>2 DEF Executions
<1>. QED
  BY <1>4 DEF Executions

\* A call that starts has a number that no call before it had (CallStarted).
LEMMA StartIsRight ==
  ASSUME NEW n, NEW ex, NEW st, NEW num, RightSoFar(n, ex, st, num), RecorderTypes,
         NEW c \in Client, NEW op \in Operation, Start(c, op)
  PROVE  RightSoFar(n, ex, st, num)'
<1>. DEFINE new == [id |-> next_id + 1, client |-> c, op |-> op, start_time |-> now]
            request == [id |-> next_id + 1, op |-> op]
<1>1. /\ next_id' = next_id + 1
      /\ running_calls' = running_calls \cup {new}
      /\ requests' = requests \cup {request}
      /\ UNCHANGED <<now, finalized_calls, responses, store, stopped>>
  BY DEF Start, CallStarted
<1>2. next_id \in Nat /\ now \in Nat
  BY DEF RecorderTypes
<1>3. \A x \in 1 .. next_id : x \in 1 .. next_id' /\ x # next_id + 1
  BY <1>1, <1>2
<1>4. /\ new.id = next_id + 1 /\ new.op = op
      /\ request.id = next_id + 1 /\ request.op = op
  OBVIOUS
<1>. HIDE DEF new, request
<1>5. Executions(n, ex, st)'
  BY <1>1, <1>2, ExecutionsStay DEF RightSoFar
<1>6. NumbersAreUnique(num)'
  BY <1>1, <1>3, <1>4 DEF RightSoFar, NumbersAreUnique
<1>7. ExecutedForACall(n, ex, num)'
  BY <1>1 DEF RightSoFar, ExecutedForACall
<1>8. RequestedForACall(num)'
  BY <1>1, <1>4 DEF RightSoFar, RequestedForACall
<1>9. RequestsAreNew(n, ex)'
  <2>1. \A j \in 1 .. n : ex[j].id \in 1 .. next_id
    BY DEF RightSoFar, Executions
  <2>2. \A x \in requests : x.id \in 1 .. next_id
    BY DEF RecorderTypes
  <2>. QED
    BY <1>1, <1>3, <1>4, <2>1, <2>2 DEF RightSoFar, RequestsAreNew
<1>10. ResponsesAreRight(n, ex, st)'
  BY <1>1 DEF RightSoFar, ResponsesAreRight
<1>. QED
  BY <1>1, <1>5, <1>6, <1>7, <1>8, <1>9, <1>10 DEF RightSoFar

\* An execution takes the next place among those before it.
LEMMA ExecuteIsRight ==
  ASSUME NEW n, NEW ex, NEW st, NEW num, RightSoFar(n, ex, st, num), RecorderTypes,
         NEW request \in requests, Execute(request)
  PROVE  \E m, fx, gt : RightSoFar(m, fx, gt, num)'
<1>. DEFINE s == NextState(store, request.op)
            out == Output(store, request.op)
            response == [id |-> request.id, output |-> out]
            e == [id |-> request.id, op |-> request.op, time |-> now]
            m == n + 1
<1>1. /\ requests' = requests \ {request}
      /\ responses' = responses \cup {response}
      /\ store' = s
      /\ UNCHANGED <<now, next_id, running_calls, finalized_calls, stopped>>
  BY DEF Execute
<1>2. /\ n \in Nat
      /\ \A j \in 1 .. n : ex[j] \in [id : 1 .. next_id, op : Operation, time : 0 .. now]
      /\ \A i, j \in 1 .. n : ex[i].id = ex[j].id => i = j
      /\ \A i, j \in 1 .. n : i < j => ex[i].time <= ex[j].time
      /\ \A j \in 0 .. n : st[j] \in State
      /\ st[0] = InitialState /\ st[n] = store
      /\ \A i \in 1 .. n : st[i] = NextState(st[i - 1], ex[i].op)
  BY DEF RightSoFar, Executions
<1>3. now \in Nat /\ request.id \in 1 .. next_id /\ request.op \in Operation
      /\ store \in State /\ s \in State
  BY NextStateType DEF RecorderTypes
<1>4. /\ response.id = request.id /\ response.output = out
      /\ e.id = request.id /\ e.op = request.op /\ e.time = now
      /\ e \in [id : 1 .. next_id, op : Operation, time : 0 .. now]
  BY <1>3
<1>. HIDE DEF s, out, response, e
<1>5. PICK fx \in [1 .. m -> {e} \cup {ex[j] : j \in 1 .. n}] :
        fx[m] = e /\ \A j \in 1 .. n : fx[j] = ex[j]
  <2>. DEFINE f == [j \in 1 .. m |-> IF j = m THEN e ELSE ex[j]]
  <2>1. f \in [1 .. m -> {e} \cup {ex[j] : j \in 1 .. n}]
    BY <1>2
  <2>2. f[m] = e /\ \A j \in 1 .. n : f[j] = ex[j]
    BY <1>2
  <2>. QED
    BY <2>1, <2>2
<1>6. PICK gt \in [0 .. m -> State] : gt[m] = s /\ \A j \in 0 .. n : gt[j] = st[j]
  <2>. DEFINE g == [j \in 0 .. m |-> IF j = m THEN s ELSE st[j]]
  <2>1. g \in [0 .. m -> State]
    BY <1>2, <1>3
  <2>2. g[m] = s /\ \A j \in 0 .. n : g[j] = st[j]
    BY <1>2
  <2>. QED
    BY <2>1, <2>2
<1>7. /\ m \in Nat /\ m \in 1 .. m /\ m - 1 = n /\ m - 1 \in 0 .. n
      /\ \A j \in 1 .. m : j \in 1 .. n \/ j = m
      /\ \A j \in 1 .. n : j \in 1 .. m /\ j # m /\ j \in 0 .. n /\ j - 1 \in 0 .. n
      /\ 0 \in 0 .. n
  BY <1>2
<1>. HIDE DEF m
<1>8. \A j \in 1 .. n : ex[j].id # e.id
  BY <1>4 DEF RightSoFar, RequestsAreNew
<1>9. Executions(m, fx, gt)'
  <2>1. fx \in [1 .. m -> [id : 1 .. next_id, op : Operation, time : 0 .. now]]
    <3>1. \A j \in 1 .. m : fx[j] \in [id : 1 .. next_id, op : Operation, time : 0 .. now]
      BY <1>2, <1>4, <1>5, <1>7
    <3>. QED
      BY <3>1
  <2>2. \A i, j \in 1 .. m : fx[i].id = fx[j].id => i = j
    BY <1>2, <1>5, <1>7, <1>8
  <2>3. \A i, j \in 1 .. m : i < j => fx[i].time <= fx[j].time
    <3>. SUFFICES ASSUME NEW i \in 1 .. m, NEW j \in 1 .. m, i < j
                  PROVE  fx[i].time <= fx[j].time
      OBVIOUS
    <3>1. i \in 1 .. n
      BY <1>7
    <3>2. CASE j = m
      <4>1. ex[i].time \in 0 .. now
        BY <1>2, <3>1
      <4>. QED
        BY <1>3, <1>4, <1>5, <3>1, <3>2, <4>1
    <3>3. CASE j \in 1 .. n
      BY <1>2, <1>5, <3>1, <3>3
    <3>. QED
      BY <1>7, <3>2, <3>3
  <2>4. gt[0] = InitialState /\ gt[m] = store'
    BY <1>1, <1>2, <1>6, <1>7
  <2>5. \A i \in 1 .. m : gt[i] = NextState(gt[i - 1], fx[i].op)
    <3>1. gt[m] = NextState(gt[m - 1], fx[m].op)
      BY <1>2, <1>4, <1>5, <1>6, <1>7 DEF s
    <3>2. \A i \in 1 .. n : gt[i] = NextState(gt[i - 1], fx[i].op)
      BY <1>2, <1>5, <1>6, <1>7
    <3>. QED
      BY <1>7, <3>1, <3>2
  <2>. QED
    BY <1>1, <1>6, <1>7, <2>1, <2>2, <2>3, <2>4, <2>5 DEF Executions
<1>10. AnsweredRight(m, fx, gt, finalized_calls, num)'
  <2>. SUFFICES ASSUME NEW p \in DOMAIN finalized_calls, finalized_calls[p].end_time # None
                PROVE  \E j \in 1 .. m : /\ fx[j].id = num[p]
                                         /\ finalized_calls[p].result = Output(gt[j - 1], fx[j].op)
    BY <1>1 DEF AnsweredRight
  <2>1. PICK j \in 1 .. n : /\ ex[j].id = num[p]
                            /\ finalized_calls[p].result = Output(st[j - 1], ex[j].op)
    BY DEF RightSoFar, AnsweredRight
  <2>. QED
    BY <1>5, <1>6, <1>7, <2>1
<1>11. ExecutedForACall(m, fx, num)'
  <2>. SUFFICES ASSUME NEW j \in 1 .. m
                PROVE  \/ \E call \in running_calls :
                            call.id = fx[j].id /\ call.op = fx[j].op /\ call.start_time <= fx[j].time
                       \/ \E p \in DOMAIN finalized_calls :
                            num[p] = fx[j].id /\ IsOf(fx[j], finalized_calls[p])
    BY <1>1 DEF ExecutedForACall
  <2>1. CASE j \in 1 .. n
    BY <1>5, <2>1 DEF RightSoFar, ExecutedForACall
  <2>2. CASE j = m
    <3>1. CASE \E call \in running_calls : call.id = request.id /\ call.op = request.op
      <4>1. PICK call \in running_calls : call.id = request.id /\ call.op = request.op
        BY <3>1
      <4>2. call.start_time <= now
        BY <1>3 DEF RecorderTypes, RunningCall
      <4>. QED
        BY <1>4, <1>5, <2>2, <4>1, <4>2
    <3>2. CASE \E p \in DOMAIN finalized_calls :
                 /\ num[p] = request.id /\ finalized_calls[p].op = request.op
                 /\ finalized_calls[p].end_time = None /\ finalized_calls[p].start_time <= now
      BY <1>4, <1>5, <2>2, <3>2 DEF IsOf
    <3>. QED
      BY <3>1, <3>2 DEF RightSoFar, RequestedForACall
  <2>. QED
    BY <1>7, <2>1, <2>2
<1>12. RequestedForACall(num)'
  BY <1>1 DEF RightSoFar, RequestedForACall
<1>13. RequestsAreNew(m, fx)'
  <2>1. \A x \in requests' : x \in requests /\ x.id # request.id
    BY <1>1 DEF RightSoFar, RequestsAreNew
  <2>2. \A x \in requests' : \A j \in 1 .. m : x.id # fx[j].id
    <3>1. \A x \in requests' : \A j \in 1 .. n : x.id # ex[j].id
      BY <2>1 DEF RightSoFar, RequestsAreNew
    <3>. QED
      BY <1>4, <1>5, <1>7, <2>1, <3>1, SMTT(30)
  <2>3. \A x, y \in requests' : x.id = y.id => x = y
    BY <2>1 DEF RightSoFar, RequestsAreNew
  <2>. QED
    BY <2>2, <2>3 DEF RequestsAreNew
<1>14. ResponsesAreRight(m, fx, gt)'
  <2>. SUFFICES ASSUME NEW x \in responses'
                PROVE  \E j \in 1 .. m : fx[j].id = x.id /\ x.output = Output(gt[j - 1], fx[j].op)
    BY DEF ResponsesAreRight
  <2>1. CASE x \in responses
    <3>1. PICK j \in 1 .. n : ex[j].id = x.id /\ x.output = Output(st[j - 1], ex[j].op)
      BY <2>1 DEF RightSoFar, ResponsesAreRight
    <3>. QED
      BY <1>5, <1>6, <1>7, <3>1
  <2>2. CASE x = response
    <3>1. gt[m - 1] = store
      BY <1>2, <1>6, <1>7
    <3>. QED
      BY <1>4, <1>5, <1>7, <2>2, <3>1 DEF out
  <2>. QED
    BY <1>1, <2>1, <2>2
<1>15. NumbersAreUnique(num)'
  BY <1>1 DEF RightSoFar, NumbersAreUnique
<1>16. RightSoFar(m, fx, gt, num)'
  BY <1>9, <1>10, <1>11, <1>12, <1>13, <1>14, <1>15 DEF RightSoFar
<1>. QED
  BY <1>16

\* A call is put down, be it as lost or with the answer of its execution.
LEMMA FinalizedIsRight ==
  ASSUME NEW n, NEW ex, NEW st, NEW num, RightSoFar(n, ex, st, num), RecorderTypes,
         RecorderTypes',
         NEW call \in running_calls, NEW c \in Call,
         c.op = call.op, c.start_time = call.start_time,
         \/ c.end_time = None
         \/ /\ c.end_time = now
            /\ \E j \in 1 .. n : /\ ex[j].id = call.id
                                 /\ c.result = Output(st[j - 1], ex[j].op),
         running_calls' = running_calls \ {call},
         finalized_calls' = Append(finalized_calls, c),
         responses' \in SUBSET responses,
         UNCHANGED <<now, next_id, requests, store>>
  PROVE  \E mun : RightSoFar(n, ex, st, mun)'
<1>. DEFINE L == Len(finalized_calls)  m == L + 1
            fin == finalized_calls  fin2 == finalized_calls'
<1>1. /\ fin \in Seq(Call) /\ L \in Nat /\ DOMAIN fin = 1 .. L
      /\ now \in Nat
      /\ call.id \in 1 .. next_id /\ call.start_time <= now
  BY DEF RecorderTypes, RunningCall
<1>2. /\ DOMAIN fin2 = 1 .. m /\ fin2[m] = c
      /\ \A p \in 1 .. L : fin2[p] = fin[p]
  BY <1>1
<1>3. /\ m \in 1 .. m
      /\ \A p \in 1 .. m : p \in 1 .. L \/ p = m
      /\ \A p \in 1 .. L : p \in 1 .. m /\ p # m
  BY <1>1
<1>4. PICK mun : mun[m] = call.id /\ \A p \in 1 .. L : mun[p] = num[p]
  <2>. DEFINE f == [p \in 1 .. m |-> IF p = m THEN call.id ELSE num[p]]
  <2>1. f[m] = call.id /\ \A p \in 1 .. L : f[p] = num[p]
    BY <1>3
  <2>. QED
    BY <2>1
<1>. HIDE DEF L, m, fin, fin2
<1>5. /\ Executions(n, ex, st)
      /\ \A p \in 1 .. L : num[p] \in 1 .. next_id
      /\ \A p, q \in 1 .. L : num[p] = num[q] => p = q
      /\ \A p \in 1 .. L : \A x \in running_calls : num[p] # x.id
  BY <1>1 DEF RightSoFar, NumbersAreUnique, Numbered, fin
<1>6. \A j \in 1 .. n :
        \/ \E x \in running_calls :
             x.id = ex[j].id /\ x.op = ex[j].op /\ x.start_time <= ex[j].time
        \/ \E p \in 1 .. L : num[p] = ex[j].id /\ IsOf(ex[j], fin[p])
  BY <1>1 DEF RightSoFar, ExecutedForACall, fin
<1>7. \A request \in requests :
        \/ \E x \in running_calls : x.id = request.id /\ x.op = request.op
        \/ \E p \in 1 .. L :
             /\ num[p] = request.id /\ fin[p].op = request.op
             /\ fin[p].end_time = None /\ fin[p].start_time <= now
  BY <1>1 DEF RightSoFar, RequestedForACall, fin
<1>8. \A p \in 1 .. L : fin[p].end_time # None =>
        \E j \in 1 .. n : ex[j].id = num[p] /\ fin[p].result = Output(st[j - 1], ex[j].op)
  BY <1>1 DEF RightSoFar, AnsweredRight, fin
<1>9. \A x \in running_calls : x \in running_calls' \/ x = call
  OBVIOUS
<1>10. Executions(n, ex, st)'
  BY <1>5 DEF Executions
<1>11. NumbersAreUnique(mun)'
  <2>1. \A p \in 1 .. m : mun[p] \in 1 .. next_id
    BY <1>1, <1>3, <1>4, <1>5
  <2>2. \A p, q \in 1 .. m : mun[p] = mun[q] => p = q
    BY <1>3, <1>4, <1>5
  <2>3. \A p \in 1 .. m : \A x \in running_calls' : mun[p] # x.id
    <3>1. \A x \in running_calls' : x \in running_calls /\ x.id # call.id
      BY DEF RecorderTypes
    <3>. QED
      BY <1>3, <1>4, <1>5, <3>1
  <2>. QED
    BY <1>2, <2>1, <2>2, <2>3 DEF NumbersAreUnique, Numbered, fin2
<1>12. AnsweredRight(n, ex, st, finalized_calls, mun)'
  <2>. SUFFICES ASSUME NEW p \in 1 .. m, fin2[p].end_time # None
                PROVE  \E j \in 1 .. n : /\ ex[j].id = mun[p]
                                         /\ fin2[p].result = Output(st[j - 1], ex[j].op)
    BY <1>2 DEF AnsweredRight, fin2
  <2>1. CASE p \in 1 .. L
    BY <1>2, <1>4, <1>8, <2>1
  <2>2. CASE p = m
    BY <1>2, <1>4, <2>2
  <2>. QED
    BY <1>3, <2>1, <2>2
<1>13. ExecutedForACall(n, ex, mun)'
  <2>. SUFFICES ASSUME NEW j \in 1 .. n
                PROVE  \/ \E x \in running_calls' :
                            x.id = ex[j].id /\ x.op = ex[j].op /\ x.start_time <= ex[j].time
                       \/ \E p \in 1 .. m : mun[p] = ex[j].id /\ IsOf(ex[j], fin2[p])
    BY <1>2 DEF ExecutedForACall, fin2
  <2>1. CASE \E p \in 1 .. L : num[p] = ex[j].id /\ IsOf(ex[j], fin[p])
    BY <1>2, <1>3, <1>4, <2>1
  <2>2. CASE \E x \in running_calls :
               x.id = ex[j].id /\ x.op = ex[j].op /\ x.start_time <= ex[j].time
    <3>1. PICK x \in running_calls :
            x.id = ex[j].id /\ x.op = ex[j].op /\ x.start_time <= ex[j].time
      BY <2>2
    <3>2. CASE x = call
      <4>1. ex[j].time <= now
        BY <1>1 DEF RightSoFar, Executions
      <4>2. IsOf(ex[j], c)
        BY <3>1, <3>2, <4>1 DEF IsOf
      <4>. QED
        BY <1>2, <1>3, <1>4, <3>1, <3>2, <4>2
    <3>3. CASE x \in running_calls'
      BY <3>1, <3>3
    <3>. QED
      BY <1>9, <3>2, <3>3
  <2>. QED
    BY <1>6, <2>1, <2>2
<1>14. RequestedForACall(mun)'
  <2>. SUFFICES ASSUME NEW request \in requests
                PROVE  \/ \E x \in running_calls' : x.id = request.id /\ x.op = request.op
                       \/ \E p \in 1 .. m :
                            /\ mun[p] = request.id /\ fin2[p].op = request.op
                            /\ fin2[p].end_time = None /\ fin2[p].start_time <= now
    BY <1>2 DEF RequestedForACall, fin2
  <2>1. CASE \E p \in 1 .. L :
               /\ num[p] = request.id /\ fin[p].op = request.op
               /\ fin[p].end_time = None /\ fin[p].start_time <= now
    BY <1>2, <1>3, <1>4, <2>1
  <2>2. CASE \E x \in running_calls : x.id = request.id /\ x.op = request.op
    <3>1. PICK x \in running_calls : x.id = request.id /\ x.op = request.op
      BY <2>2
    <3>2. CASE x = call
      <4>1. \A j \in 1 .. n : ex[j].id # call.id
        BY <3>1, <3>2 DEF RightSoFar, RequestsAreNew
      <4>2. c.end_time = None
        BY <4>1
      <4>. QED
        BY <1>1, <1>2, <1>3, <1>4, <3>1, <3>2, <4>2
    <3>3. CASE x \in running_calls'
      BY <3>1, <3>3
    <3>. QED
      BY <1>9, <3>2, <3>3
  <2>. QED
    BY <1>7, <2>1, <2>2
<1>15. RequestsAreNew(n, ex)'
  BY DEF RightSoFar, RequestsAreNew
<1>16. ResponsesAreRight(n, ex, st)'
  BY DEF RightSoFar, ResponsesAreRight
<1>17. RightSoFar(n, ex, st, mun)'
  BY <1>10, <1>11, <1>12, <1>13, <1>14, <1>15, <1>16 DEF RightSoFar
<1>. QED
  BY <1>17

\* A call that is answered completes with the answer of its execution.
LEMMA SucceedIsRight ==
  ASSUME NEW n, NEW ex, NEW st, NEW num, RightSoFar(n, ex, st, num), RecorderTypes,
         RecorderTypes', NEW call \in running_calls, Succeed(call)
  PROVE  \E mun : RightSoFar(n, ex, st, mun)'
<1>1. PICK response \in responses :
        /\ response.id = call.id
        /\ CallCompleted(call, response.output)
        /\ responses' = responses \ {response}
  BY DEF Succeed
<1>. DEFINE c == Complete(call, response.output)
<1>2. /\ call.op \in Operation /\ call.start_time \in Nat /\ call.start_time <= now
      /\ response.output \in Val \cup {Default, Unit} /\ now \in Nat
  BY DEF RecorderTypes, RunningCall
<1>3. c \in Call /\ c.op = call.op /\ c.start_time = call.start_time /\ c.end_time = now
      /\ c.result = response.output
  BY <1>2 DEF Complete, Call
<1>4. \E j \in 1 .. n : /\ ex[j].id = call.id
                        /\ c.result = Output(st[j - 1], ex[j].op)
  BY <1>1, <1>3 DEF RightSoFar, ResponsesAreRight
<1>5. /\ running_calls' = running_calls \ {call}
      /\ finalized_calls' = Append(finalized_calls, c)
      /\ responses' \in SUBSET responses
      /\ UNCHANGED <<now, next_id, requests, store>>
  BY <1>1 DEF Succeed, CallCompleted
<1>. HIDE DEF c
<1>. QED
  BY <1>3, <1>4, <1>5, FinalizedIsRight

\* A call that fails is lost, whether or not it was or will be executed.
LEMMA FailIsRight ==
  ASSUME NEW n, NEW ex, NEW st, NEW num, RightSoFar(n, ex, st, num), RecorderTypes,
         RecorderTypes', NEW call \in running_calls, Fail(call)
  PROVE  \E mun : RightSoFar(n, ex, st, mun)'
<1>. DEFINE c == Lost(call)
<1>1. call.op \in Operation /\ call.start_time \in Nat
  BY DEF RecorderTypes, RunningCall
<1>2. c \in Call /\ c.op = call.op /\ c.start_time = call.start_time /\ c.end_time = None
  BY <1>1 DEF Lost, Call, IsCompleted
<1>3. /\ running_calls' = running_calls \ {call}
      /\ finalized_calls' = Append(finalized_calls, c)
      /\ responses' \in SUBSET responses
      /\ UNCHANGED <<now, next_id, requests, store>>
  BY DEF Fail, CallLost
<1>. HIDE DEF c
<1>. QED
  BY <1>2, <1>3, FinalizedIsRight

\* A call that is refused was not executed, and is taken out (RemoveCall).
LEMMA RefuseIsRight ==
  ASSUME NEW n, NEW ex, NEW st, NEW num, RightSoFar(n, ex, st, num), RecorderTypes,
         NEW call \in running_calls, Refuse(call)
  PROVE  RightSoFar(n, ex, st, num)'
<1>1. PICK request \in requests : request.id = call.id /\ requests' = requests \ {request}
  BY DEF Refuse
<1>2. /\ running_calls' = running_calls \ {call}
      /\ UNCHANGED <<now, next_id, finalized_calls, responses, store, stopped>>
  BY DEF Refuse, RemoveCall
<1>3. \A j \in 1 .. n : ex[j].id # call.id
  BY <1>1 DEF RightSoFar, RequestsAreNew
<1>4. \A x \in requests' : x \in requests /\ x.id # call.id
  BY <1>1 DEF RightSoFar, RequestsAreNew
<1>5. \A x \in running_calls : x \in running_calls' \/ x = call
  BY <1>2
<1>6. Executions(n, ex, st)'
  BY <1>2 DEF RightSoFar, Executions
<1>7. NumbersAreUnique(num)'
  BY <1>2 DEF RightSoFar, NumbersAreUnique
<1>8. ExecutedForACall(n, ex, num)'
  <2>. SUFFICES ASSUME NEW j \in 1 .. n
                PROVE  \/ \E x \in running_calls' :
                            x.id = ex[j].id /\ x.op = ex[j].op /\ x.start_time <= ex[j].time
                       \/ \E p \in DOMAIN finalized_calls :
                            num[p] = ex[j].id /\ IsOf(ex[j], finalized_calls[p])
    BY <1>2 DEF ExecutedForACall
  <2>1. \/ \E x \in running_calls :
             x.id = ex[j].id /\ x.op = ex[j].op /\ x.start_time <= ex[j].time
        \/ \E p \in DOMAIN finalized_calls :
             num[p] = ex[j].id /\ IsOf(ex[j], finalized_calls[p])
    BY DEF RightSoFar, ExecutedForACall
  <2>. QED
    BY <1>3, <1>5, <2>1
<1>9. RequestedForACall(num)'
  <2>1. \A x \in requests' :
          \/ \E y \in running_calls : y.id = x.id /\ y.op = x.op
          \/ \E p \in DOMAIN finalized_calls :
               /\ num[p] = x.id /\ finalized_calls[p].op = x.op
               /\ finalized_calls[p].end_time = None /\ finalized_calls[p].start_time <= now
    BY <1>4 DEF RightSoFar, RequestedForACall
  <2>2. \A x \in requests' :
          \/ \E y \in running_calls' : y.id = x.id /\ y.op = x.op
          \/ \E p \in DOMAIN finalized_calls :
               /\ num[p] = x.id /\ finalized_calls[p].op = x.op
               /\ finalized_calls[p].end_time = None /\ finalized_calls[p].start_time <= now
    BY <1>4, <1>5, <2>1
  <2>. QED
    BY <1>2, <2>2 DEF RequestedForACall
<1>10. RequestsAreNew(n, ex)'
  BY <1>4 DEF RightSoFar, RequestsAreNew
<1>11. ResponsesAreRight(n, ex, st)' /\ AnsweredRight(n, ex, st, finalized_calls, num)'
  BY <1>2 DEF RightSoFar, ResponsesAreRight, AnsweredRight
<1>. QED
  BY <1>6, <1>7, <1>8, <1>9, <1>10, <1>11 DEF RightSoFar

\* Time passes.
LEMMA TickIsRight ==
  ASSUME NEW n, NEW ex, NEW st, NEW num, RightSoFar(n, ex, st, num), RecorderTypes, Tick
  PROVE  RightSoFar(n, ex, st, num)'
<1>1. /\ now' = now + 1 /\ now \in Nat /\ next_id \in Nat
      /\ UNCHANGED <<next_id, running_calls, finalized_calls, requests, responses,
                     store, stopped>>
  BY DEF Tick, RecorderTypes
<1>2. Executions(n, ex, st)'
  BY <1>1, ExecutionsStay DEF RightSoFar
<1>3. RequestedForACall(num)'
  <2>1. \A p \in DOMAIN finalized_calls :
          finalized_calls[p].start_time <= now => finalized_calls[p].start_time <= now'
    <3>1. \A p \in DOMAIN finalized_calls : finalized_calls[p].start_time \in Nat
      BY CallOf DEF RecorderTypes
    <3>. QED
      BY <1>1, <3>1
  <2>. QED
    BY <1>1, <2>1 DEF RightSoFar, RequestedForACall
<1>4. NumbersAreUnique(num)' /\ ExecutedForACall(n, ex, num)' /\ RequestsAreNew(n, ex)'
  BY <1>1 DEF RightSoFar, NumbersAreUnique, ExecutedForACall, RequestsAreNew
<1>5. ResponsesAreRight(n, ex, st)' /\ AnsweredRight(n, ex, st, finalized_calls, num)'
  BY <1>1 DEF RightSoFar, ResponsesAreRight, AnsweredRight
<1>. QED
  BY <1>2, <1>3, <1>4, <1>5 DEF RightSoFar

\* The history the recorder puts together at the end is linearizable: the
\* executions, in their order, explain it (HistoryRecorder::Finalize).
LEMMA StopIsRight ==
  ASSUME NEW n, NEW ex, NEW st, NEW num, RightSoFar(n, ex, st, num), RecorderTypes, Stop
  PROVE  Linearizable(finalized_calls')
<1>. DEFINE L == Len(finalized_calls)  fin == finalized_calls  h == finalized_calls'
<1>0. PICK m \in Nat : \E f :
           /\ f \in [1 .. m -> running_calls]
           /\ \A i, j \in 1 .. m : f[i] = f[j] => i = j
           /\ \A call \in running_calls : \E i \in 1 .. m : f[i] = call
           /\ h \in Seq(Call)
           /\ Len(h) = L + m
           /\ \A p \in 1 .. L : h[p] = fin[p]
           /\ \A i \in 1 .. m : h[L + i] = Lost(f[i])
  BY StopTypes
<1>1. PICK f :
           /\ f \in [1 .. m -> running_calls]
           /\ \A i, j \in 1 .. m : f[i] = f[j] => i = j
           /\ \A call \in running_calls : \E i \in 1 .. m : f[i] = call
           /\ h \in Seq(Call)
           /\ Len(h) = L + m
           /\ \A p \in 1 .. L : h[p] = fin[p]
           /\ \A i \in 1 .. m : h[L + i] = Lost(f[i])
  BY <1>0
<1>2. L \in Nat /\ DOMAIN fin = 1 .. L /\ DOMAIN h = 1 .. L + m
  BY <1>1 DEF RecorderTypes
<1>3. /\ \A i \in 1 .. m : L + i \in 1 .. L + m /\ L + i \notin 1 .. L
      /\ \A p \in 1 .. L : p \in 1 .. L + m
      /\ \A p \in 1 .. L + m : p \in 1 .. L \/ (p - L \in 1 .. m /\ L + (p - L) = p)
  BY <1>2
<1>4. PICK mun : /\ \A p \in 1 .. L : mun[p] = num[p]
                 /\ \A i \in 1 .. m : mun[L + i] = f[i].id
  <2>. DEFINE g == [p \in 1 .. L + m |-> IF p \in 1 .. L THEN num[p] ELSE f[p - L].id]
  <2>1. \A p \in 1 .. L : g[p] = num[p]
    BY <1>3
  <2>2. \A i \in 1 .. m : (L + i) - L = i
    BY <1>2
  <2>3. \A i \in 1 .. m : g[L + i] = f[i].id
    BY <1>3, <2>2
  <2>. HIDE DEF g
  <2>. QED
    BY <2>1, <2>3
<1>. HIDE DEF L, fin, h
<1>5. /\ \A p, q \in 1 .. L : num[p] = num[q] => p = q
      /\ \A p \in 1 .. L : \A x \in running_calls : num[p] # x.id
  BY <1>2 DEF RightSoFar, NumbersAreUnique, Numbered, fin
<1>6. \A i, j \in 1 .. m : f[i].id = f[j].id => i = j
  BY <1>1 DEF RecorderTypes
<1>7. Numbered(h, mun)
  <2>. SUFFICES ASSUME NEW p \in 1 .. L + m, NEW q \in 1 .. L + m, mun[p] = mun[q]
                PROVE  p = q
    BY <1>2 DEF Numbered
  <2>1. ASSUME NEW x \in 1 .. L, NEW y \in 1 .. L + m, mun[x] = mun[y]
        PROVE  x = y
    <3>1. CASE y \in 1 .. L
      BY <1>4, <1>5, <2>1, <3>1
    <3>2. CASE y \notin 1 .. L
      <4>1. y - L \in 1 .. m /\ L + (y - L) = y
        BY <1>3, <3>2
      <4>2. mun[y] = f[y - L].id /\ f[y - L] \in running_calls
        BY <1>1, <1>4, <4>1
      <4>. QED
        BY <1>4, <1>5, <2>1, <4>2
    <3>. QED
      BY <3>1, <3>2
  <2>2. CASE p \in 1 .. L
    BY <2>1, <2>2
  <2>3. CASE q \in 1 .. L
    BY <2>1, <2>3
  <2>4. CASE p \notin 1 .. L /\ q \notin 1 .. L
    <3>1. /\ p - L \in 1 .. m /\ L + (p - L) = p
          /\ q - L \in 1 .. m /\ L + (q - L) = q
      BY <1>3, <2>4
    <3>2. f[p - L].id = f[q - L].id
      BY <1>4, <3>1
    <3>. QED
      BY <1>6, <3>1, <3>2
  <2>. QED
    BY <2>2, <2>3, <2>4
<1>8. AnsweredRight(n, ex, st, h, mun)
  <2>. SUFFICES ASSUME NEW p \in 1 .. L + m, h[p].end_time # None
                PROVE  \E j \in 1 .. n : /\ ex[j].id = mun[p]
                                         /\ h[p].result = Output(st[j - 1], ex[j].op)
    BY <1>2 DEF AnsweredRight
  <2>1. CASE p \in 1 .. L
    <3>1. \E j \in 1 .. n : ex[j].id = num[p] /\ fin[p].result = Output(st[j - 1], ex[j].op)
      BY <1>1, <1>2, <2>1 DEF RightSoFar, AnsweredRight, fin
    <3>. QED
      BY <1>1, <1>4, <2>1, <3>1
  <2>2. CASE p \notin 1 .. L
    <3>1. h[p] = Lost(f[p - L])
      BY <1>1, <1>3, <2>2
    <3>. QED
      BY <3>1 DEF Lost
  <2>. QED
    BY <2>1, <2>2
<1>9. \A j \in 1 .. n : \E p \in DOMAIN h : mun[p] = ex[j].id /\ IsOf(ex[j], h[p])
  <2>. SUFFICES ASSUME NEW j \in 1 .. n
                PROVE  \E p \in 1 .. L + m : mun[p] = ex[j].id /\ IsOf(ex[j], h[p])
    BY <1>2
  <2>1. CASE \E p \in 1 .. L : num[p] = ex[j].id /\ IsOf(ex[j], fin[p])
    <3>1. PICK p \in 1 .. L : num[p] = ex[j].id /\ IsOf(ex[j], fin[p])
      BY <2>1
    <3>2. p \in 1 .. L + m
      BY <1>3
    <3>3. mun[p] = num[p] /\ h[p] = fin[p]
      BY <1>1, <1>4
    <3>. QED
      BY <3>1, <3>2, <3>3
  <2>2. CASE \E x \in running_calls :
               x.id = ex[j].id /\ x.op = ex[j].op /\ x.start_time <= ex[j].time
    <3>1. PICK x \in running_calls :
            x.id = ex[j].id /\ x.op = ex[j].op /\ x.start_time <= ex[j].time
      BY <2>2
    <3>2. PICK i \in 1 .. m : f[i] = x
      BY <1>1
    <3>3. IsOf(ex[j], Lost(x))
      BY <3>1 DEF IsOf, Lost
    <3>4. L + i \in 1 .. L + m
      BY <1>3
    <3>5. mun[L + i] = ex[j].id /\ h[L + i] = Lost(x)
      BY <1>1, <1>4, <3>1, <3>2
    <3>. QED
      BY <3>3, <3>4, <3>5
  <2>. QED
    BY <1>2, <2>1, <2>2 DEF RightSoFar, ExecutedForACall, fin
<1>10. Executions(n, ex, st) /\ h \in Seq(Call)
  BY <1>1 DEF RightSoFar
<1>. QED
  BY <1>7, <1>8, <1>9, <1>10, ExecutionsLinearize DEF h

-----------------------------------------------------------------------------
(* The whole *)

\* What the recorder has put down is right at every moment, and so is what the
\* search is given.
RecorderIsRight ==
  /\ pc = "idle" /\ ~stopped => \E n, ex, st, num : RightSoFar(n, ex, st, num)
  /\ pc = "idle" /\ stopped => Linearizable(finalized_calls)
  /\ pc # "idle" /\ stopped => Linearizable(history)

\* The inductive invariant.
JudgementInv == SearchInv /\ RecorderTypes /\ RecorderIsRight

\* The recorder and the checker begin as they should.
LEMMA JudgementBegins == Init => JudgementInv
<1>. SUFFICES ASSUME Init
              PROVE  JudgementInv
  OBVIOUS
<1>1. RecorderInit /\ (Unused \/ (history \in Histories /\ Begun))
  BY DEF Init
<1>2. RecorderTypes
  <2>1. <<>> \in Seq(Call)
    OBVIOUS
  <2>. QED
    BY <1>1, <2>1, InitialStateType DEF RecorderTypes, RecorderInit
<1>3. SearchInv
  <2>1. CASE Unused
    BY <2>1 DEF Unused, SearchInv
  <2>2. CASE history \in Histories /\ Begun
    <3>1. HasBegun
      BY <2>2, HistoriesAssumption DEF Begun, HasBegun
    <3>2. \E arr : Searching(arr)
      BY <3>1, Begins DEF IsSearching
    <3>. QED
      BY <2>2, <3>2 DEF Begun, SearchInv, FoundIsTrue
  <2>. QED
    BY <1>1, <2>1, <2>2
<1>4. RecorderIsRight
  <2>. DEFINE ex == [j \in 1 .. 0 |-> 0]
              st == [j \in 0 .. 0 |-> InitialState]
  <2>1. Executions(0, ex, st)
    BY <1>1, InitialStateType DEF Executions, RecorderInit
  <2>2. DOMAIN finalized_calls = {} /\ running_calls = {} /\ requests = {} /\ responses = {}
        /\ ~stopped
    BY <1>1 DEF RecorderInit
  <2>. HIDE DEF ex, st
  <2>3. 1 .. 0 = {}
    OBVIOUS
  <2>4. RightSoFar(0, ex, st, ex)
    BY <2>1, <2>2, <2>3
    DEF RightSoFar, NumbersAreUnique, Numbered, AnsweredRight, ExecutedForACall,
        RequestedForACall, RequestsAreNew, ResponsesAreRight
  <2>. QED
    BY <2>2, <2>4 DEF RecorderIsRight
<1>. QED
  BY <1>2, <1>3, <1>4 DEF JudgementInv

\* Nothing the clients, the service and the recorder do breaks it.
LEMMA RecordKeepsInv ==
  ASSUME JudgementInv, Record
  PROVE  JudgementInv'
<1>1. SearchInv /\ RecorderTypes /\ RecorderIsRight
      /\ pc = "idle" /\ RecorderNext /\ UNCHANGED searchVars
  BY DEF JudgementInv, Record
<1>2. SearchInv'
  BY <1>1 DEF SearchInv, searchVars
<1>3. RecorderTypes'
  BY <1>1, RecorderTypesStep
<1>4. ~stopped /\ pc' = "idle"
  BY <1>1 DEF RecorderNext, Start, Execute, Succeed, Fail, Refuse, Tick, Stop, searchVars
<1>5. PICK n, ex, st, num : RightSoFar(n, ex, st, num)
  BY <1>1, <1>4 DEF RecorderIsRight
<1>6. CASE Stop
  <2>1. Linearizable(finalized_calls')
    BY <1>1, <1>5, <1>6, StopIsRight
  <2>. QED
    BY <1>2, <1>3, <1>4, <1>6, <2>1 DEF JudgementInv, RecorderIsRight, Stop
<1>7. ASSUME \E m, fx, gt, mun : RightSoFar(m, fx, gt, mun)', ~stopped'
      PROVE  JudgementInv'
  BY <1>2, <1>3, <1>4, <1>7 DEF JudgementInv, RecorderIsRight
<1>8. ASSUME NEW c \in Client, NEW op \in Operation, Start(c, op)
      PROVE  JudgementInv'
  <2>1. RightSoFar(n, ex, st, num)'
    BY <1>1, <1>5, <1>8, StartIsRight
  <2>. QED
    BY <1>4, <1>7, <1>8, <2>1 DEF Start
<1>9. ASSUME NEW request \in requests, Execute(request)
      PROVE  JudgementInv'
  <2>1. \E m, fx, gt : RightSoFar(m, fx, gt, num)'
    BY <1>1, <1>5, <1>9, ExecuteIsRight
  <2>. QED
    BY <1>4, <1>7, <1>9, <2>1 DEF Execute
<1>10. ASSUME NEW call \in running_calls, Succeed(call)
       PROVE  JudgementInv'
  <2>1. \E mun : RightSoFar(n, ex, st, mun)'
    BY <1>1, <1>3, <1>5, <1>10, SucceedIsRight
  <2>. QED
    BY <1>4, <1>7, <1>10, <2>1 DEF Succeed
<1>11. ASSUME NEW call \in running_calls, Fail(call)
       PROVE  JudgementInv'
  <2>1. \E mun : RightSoFar(n, ex, st, mun)'
    BY <1>1, <1>3, <1>5, <1>11, FailIsRight
  <2>. QED
    BY <1>4, <1>7, <1>11, <2>1 DEF Fail
<1>12. ASSUME NEW call \in running_calls, Refuse(call)
       PROVE  JudgementInv'
  <2>1. RightSoFar(n, ex, st, num)'
    BY <1>1, <1>5, <1>12, RefuseIsRight
  <2>. QED
    BY <1>4, <1>7, <1>12, <2>1 DEF Refuse
<1>13. CASE Tick
  <2>1. RightSoFar(n, ex, st, num)'
    BY <1>1, <1>5, <1>13, TickIsRight
  <2>. QED
    BY <1>4, <1>7, <1>13, <2>1 DEF Tick
<1>. QED
  BY <1>1, <1>6, <1>8, <1>9, <1>10, <1>11, <1>12, <1>13 DEF RecorderNext

\* The search begins with the history of the recorder (RunSimulation).
LEMMA JudgeKeepsInv ==
  ASSUME JudgementInv, Judge
  PROVE  JudgementInv'
<1>1. SearchInv /\ RecorderTypes /\ RecorderIsRight /\ pc = "idle" /\ stopped
  BY DEF JudgementInv, Judge, LinCheck
<1>2. /\ history' = finalized_calls /\ calls' = Cleanup(finalized_calls)
      /\ count' = Len(calls') /\ stack' = <<Entered(InitialState)>> /\ pc' = "search"
      /\ UNCHANGED <<linear, time, found>>
  BY DEF Judge, LinCheck
<1>3. /\ now' = 0 /\ next_id' = 0 /\ running_calls' = {} /\ finalized_calls' = <<>>
      /\ requests' = {} /\ responses' = {} /\ store' = InitialState
      /\ UNCHANGED stopped
  BY DEF Judge
<1>4. linear = <<>> /\ time = 0 /\ found = FALSE
  BY <1>1 DEF SearchInv
<1>5. finalized_calls \in Seq(Call) /\ Linearizable(finalized_calls)
  BY <1>1 DEF RecorderTypes, RecorderIsRight
<1>6. SearchInv'
  <2>1. HasBegun'
    BY <1>2, <1>4, <1>5 DEF HasBegun
  <2>2. \E arr : Searching(arr)'
    BY <2>1, BeginsNext DEF IsSearching
  <2>. QED
    BY <1>2, <1>4, <2>2 DEF SearchInv, FoundIsTrue
<1>7. RecorderTypes'
  <2>1. <<>> \in Seq(Call)
    OBVIOUS
  <2>. QED
    BY <1>1, <1>3, <2>1, InitialStateType DEF RecorderTypes
<1>8. RecorderIsRight'
  BY <1>2, <1>5 DEF RecorderIsRight
<1>. QED
  BY <1>6, <1>7, <1>8 DEF JudgementInv

\* No step of the search breaks it (LinChecker::Search, StepInto).
LEMMA SearchKeepsInv ==
  ASSUME JudgementInv, Search
  PROVE  JudgementInv'
<1>1. SearchInv /\ RecorderTypes /\ RecorderIsRight /\ SearchNext /\ UNCHANGED historyVars
  BY DEF JudgementInv, Search
<1>2. SearchInv'
  BY <1>1, CheckerAssumption, SearchStep
<1>3. RecorderTypes'
  BY <1>1 DEF RecorderTypes, RunningCall, historyVars
<1>4. pc # "idle" /\ pc' # "idle" /\ history' = history
  <2>1. pc # "idle" /\ history' = history
    BY <1>1
    DEF SearchNext, Enter, Ignore, PassOver, Fit, AtApply, NoneLeft, Unwind, Continue, End,
        StepInto, NextCall
  <2>2. pc' # "idle"
    <3>1. CASE Unwind
      <4>1. PICK arr : Searching(arr)
        BY <1>1, <2>1 DEF SearchInv
      <4>. QED
        BY <3>1, <4>1, ComesBack
    <3>2. CASE ~Unwind
      BY <1>1, <3>2
      DEF SearchNext, Enter, Ignore, PassOver, Fit, NoneLeft, Continue, End, StepInto, NextCall
    <3>. QED
      BY <3>1, <3>2
  <2>. QED
    BY <2>1, <2>2
<1>5. RecorderIsRight'
  BY <1>1, <1>4 DEF RecorderIsRight, historyVars
<1>. QED
  BY <1>2, <1>3, <1>5 DEF JudgementInv

\* Nor does doing nothing.
LEMMA StutteringKeepsInv ==
  ASSUME JudgementInv, UNCHANGED vars
  PROVE  JudgementInv'
<1>. USE DEF vars, historyVars, searchVars
<1>1. SearchInv'
  <2>1. FoundIsTrue' <=> FoundIsTrue
    BY DEF FoundIsTrue
  <2>2. \A arr : Searching(arr)' <=> Searching(arr)
    BY DEF Searching, SearchTypes, Arrays, Depth, Top
  <2>. QED
    BY <2>1, <2>2 DEF JudgementInv, SearchInv
<1>2. RecorderTypes'
  BY DEF JudgementInv, RecorderTypes, RunningCall
<1>3. RecorderIsRight'
  <2>1. \A n, ex, st, num : RightSoFar(n, ex, st, num)' <=> RightSoFar(n, ex, st, num)
    BY
    DEF RightSoFar, Executions, NumbersAreUnique, Numbered, AnsweredRight, ExecutedForACall,
        RequestedForACall, RequestsAreNew, ResponsesAreRight
  <2>. QED
    BY <2>1 DEF JudgementInv, RecorderIsRight
<1>. QED
  BY <1>1, <1>2, <1>3 DEF JudgementInv

\* The checker and the recorder keep the invariant, for every number of keys,
\* values, clients and calls, every history given and every limit.
THEOREM JudgementIsSound == Spec => []JudgementInv
<1>1. JudgementInv /\ [Next]_vars => JudgementInv'
  BY RecordKeepsInv, JudgeKeepsInv, SearchKeepsInv, StutteringKeepsInv DEF Next
<1>. QED
  BY JudgementBegins, <1>1, PTL DEF Spec

\* The checker refuses a history only if it is not linearizable
\* (LinCheckBrute, whatever the limit).
THEOREM RefusalsAreRight == Spec => []RefusedIsNotLinearizable
<1>1. JudgementInv => RefusedIsNotLinearizable
  BY RefusalIsRight DEF JudgementInv
<1>. QED
  BY JudgementIsSound, <1>1, PTL

\* It accepts one before it runs out of its limit only if it is linearizable
\* (LinChecker::Search).
THEOREM AcceptancesAreRight == Spec => []AcceptedIsLinearizable
<1>1. JudgementInv => AcceptedIsLinearizable
  BY DEF JudgementInv, SearchInv, FoundIsTrue, AcceptedIsLinearizable
<1>. QED
  BY JudgementIsSound, <1>1, PTL

\* Of the calls it has placed none comes before one that was over when it
\* began (PrecedesInRealTime, LinChecker::StepInto).
THEOREM PlacesKeepRealTime == Spec => []PlacedInOrder
<1>1. JudgementInv => PlacedInOrder
  BY PlacesAreInOrder DEF JudgementInv
<1>. QED
  BY JudgementIsSound, <1>1, PTL

\* The history the recorder makes of a service that does each request in one
\* instant passes the checker (HistoryRecorder, HistoryChannel, LinCheck).
THEOREM RightServicesPass == Spec => []RightIsFoundRight
<1>1. JudgementInv => RightIsFoundRight
  <2>1. JudgementInv => RefusedIsNotLinearizable
    BY RefusalIsRight DEF JudgementInv
  <2>. QED
    BY <2>1 DEF JudgementInv, RecorderIsRight, RefusedIsNotLinearizable, RightIsFoundRight
<1>. QED
  BY JudgementIsSound, <1>1, PTL
=============================================================================
