--------------------------- MODULE PriorityQueue ---------------------------
(***************************************************************************)
(* helpers/priority_queue.hpp: a priority queue whose equal items leave in *)
(* the order they came.  The code wraps each item in                       *)
(* UniqueT{item, tie_braker = ++inserts_}; here a queue is the set of its  *)
(* wrapped items, ordered by time and then by tie_braker.                  *)
(*                                                                         *)
(* tie_brakers are only ever compared inside one queue, so the queues of a *)
(* world share one counter, inserts: inside each queue the entries stand   *)
(* in the same order as with a counter of its own.                         *)
(***************************************************************************)
EXTENDS Integers, FiniteSets

VARIABLE inserts    \* PriorityQueue::inserts_, shared by all the queues

Entry(t, n, x) == [time |-> t, tie_braker |-> n, item |-> x]

EntryOf(Item) == [time : Nat, tie_braker : Nat, item : Item]

\* UniqueT::operator<
Before(x, y) ==
  \/ x.time < y.time
  \/ x.time = y.time /\ x.tie_braker < y.tie_braker

\* x is what Smallest() shows and Extract() takes.
IsSmallest(x, q) == x \in q /\ \A y \in q \ {x} : Before(x, y)

\* A queue never holds two entries with one tie_braker.
UniqueTies(q) == \A x, y \in q : x.tie_braker = y.tie_braker => x = y
=============================================================================
