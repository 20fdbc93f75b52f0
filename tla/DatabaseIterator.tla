-------------------------- MODULE DatabaseIterator --------------------------
(***************************************************************************)
(* db/iterator.cpp and db/snapshot.cpp over the database: a fiber of its   *)
(* own scans a snapshot while the others go on writing and the process may *)
(* crash.  It scans as the program of examples/db does: from the first key *)
(* or from a key sought upwards, from the last key downwards, reading the  *)
(* key and the value of each place.  Each move may have to wait for the    *)
(* sstable on the disk.                                                    *)
(***************************************************************************)
EXTENDS Database

CONSTANT KeyOrder      \* the keys, in the order of std::map

ASSUME IteratorAssumption ==
  KeyOrder \in Seq(Key) /\ IsInjective(KeyOrder) /\ Range(KeyOrder) = Key

VARIABLE iterator      \* the Iterator of the fiber that scans, or NoIterator

iteratorVars == <<vars, iterator>>

NoIterator == [valid |-> FALSE, waits |-> FALSE]

\* entries_, which the iterator has of its snapshot.  The slip has it look into
\* the table of the database.
LiveEntries(it) == mem_table

EntriesOf(it) == it.snapshot.entries

\* The places of the entries in the order of the keys.
Places(it) == {i \in DOMAIN KeyOrder : KeyOrder[i] \in DOMAIN EntriesOf(it)}

\* Key and Value at a place.
Pair(it, place) == <<KeyOrder[place], Lookup(EntriesOf(it), KeyOrder[place])>>

\* The place is set and valid at once; the program can use it when Move is done,
\* which waits if the block is not in the cache.
MoveTo(it, place) ==
  \/ iterator' = [it EXCEPT !.valid = TRUE, !.at = place,
                            !.seen = Append(@, Pair(it, place))]
  \/ iterator' = [it EXCEPT !.valid = TRUE, !.at = place, !.waits = TRUE]

\* The end of the entries, or what is before the first of them.
Leave(it) == iterator' = [it EXCEPT !.valid = FALSE]

MoveToFirst(it, places) == IF places = {} THEN Leave(it) ELSE MoveTo(it, Min(places))

MoveToLast(it, places) == IF places = {} THEN Leave(it) ELSE MoveTo(it, Max(places))

FinishMove ==
  /\ iterator.waits
  /\ iterator' = [iterator EXCEPT !.waits = FALSE,
                                   !.seen = Append(@, Pair(iterator, iterator.at))]
  /\ UNCHANGED vars

\* A new scan of a snapshot, from the place low.
Scan(s, down, low) ==
  [snapshot |-> s, valid |-> FALSE, waits |-> FALSE, at |-> 1, down |-> down,
   low |-> low, seen |-> <<>>]

\* MakeIterator and SeekToFirst.
SeekToFirst ==
  /\ ~iterator.waits
  /\ \E s \in snapshots : LET it == Scan(s, FALSE, 1) IN MoveToFirst(it, Places(it))
  /\ UNCHANGED vars

SeekToLast ==
  /\ ~iterator.waits
  /\ \E s \in snapshots : LET it == Scan(s, TRUE, 1) IN MoveToLast(it, Places(it))
  /\ UNCHANGED vars

\* lower_bound: the first of the keys that are not below the target.
Seek ==
  /\ ~iterator.waits
  /\ \E s \in snapshots, target \in DOMAIN KeyOrder :
       LET it == Scan(s, FALSE, target)
       IN MoveToFirst(it, {i \in Places(it) : i >= target})
  /\ UNCHANGED vars

NextKey ==
  /\ iterator.valid /\ ~iterator.waits
  /\ ~iterator.down
  /\ MoveToFirst(iterator, {i \in Places(iterator) : i > iterator.at})
  /\ UNCHANGED vars

PrevKey ==
  /\ iterator.valid /\ ~iterator.waits
  /\ iterator.down
  /\ MoveToLast(iterator, {i \in Places(iterator) : i < iterator.at})
  /\ UNCHANGED vars

\* A crash, which alone closes the database, takes the iterator along.
Elsewhere ==
  /\ Next
  /\ iterator' = IF phase' = "Closed" THEN NoIterator ELSE iterator

IteratorInit == Init /\ iterator = NoIterator

IteratorNext ==
  \/ SeekToFirst \/ SeekToLast \/ Seek \/ NextKey \/ PrevKey \/ FinishMove
  \/ Elsewhere

IteratorSpec == IteratorInit /\ [][IteratorNext]_iteratorVars /\ Fairness

----------------------------------------------------------------------------
(* Property *)

\* What the database had after the version_ writes of a snapshot.
Past(s) == history[s.version + 1]

\* The key at place i, with its value of that time, as entry n of the scan.
IsSeen(it, n, i) == it.seen[n] = <<KeyOrder[i], Past(it.snapshot)[KeyOrder[i]]>>

Before(it, i, j) == IF it.down THEN i > j ELSE i < j

\* The places whose keys the scan is to meet.
Wanted(it) ==
  {i \in DOMAIN KeyOrder : i >= it.low /\ KeyOrder[i] \in DOMAIN Past(it.snapshot)}

\* A scan, however long its waits and whatever is written or deleted meanwhile,
\* meets the keys that the database had after the version_ writes of its
\* snapshot, each once, in order and with its value of that time, and passes none
\* over: it has met all of them when it comes to its end (iterator.cpp:9-83,
\* snapshot.hpp:41).
ScanIsOfThePast ==
  iterator # NoIterator =>
    /\ \A n \in DOMAIN iterator.seen : \E i \in Wanted(iterator) :
         /\ IsSeen(iterator, n, i)
         /\ \A j \in Wanted(iterator) :
              Before(iterator, j, i) <=> \E m \in 1 .. n - 1 : IsSeen(iterator, m, j)
    /\ ~iterator.valid =>
         \A i \in Wanted(iterator) : \E n \in DOMAIN iterator.seen : IsSeen(iterator, n, i)
----------------------------------------------------------------------------
(* The inductive invariant behind ScanIsOfThePast                          *)

\* The places a scan has come to and, if it need not wait, has read.
Passed(it) ==
  {i \in Places(it) :
     i >= it.low /\ (it.valid => Before(it, i, it.at) \/ (i = it.at /\ ~it.waits))}

\* A scan has read the pairs of the places P, in their order.
HasRead(it, P) ==
  /\ \A n \in DOMAIN it.seen : \E i \in P :
       /\ it.seen[n] = Pair(it, i)
       /\ \A j \in P : Before(it, j, i) <=> \E m \in 1 .. n - 1 : it.seen[m] = Pair(it, j)
  /\ \A i \in P : \E n \in DOMAIN it.seen : it.seen[n] = Pair(it, i)

Scans ==
  [snapshot : snapshots, valid : BOOLEAN, waits : BOOLEAN, at : Nat,
   down : BOOLEAN, low : Nat, seen : Seq(Key \X (Value \cup {NoValue}))]

IteratorInv ==
  iterator # NoIterator =>
    /\ iterator \in Scans
    /\ iterator.down => iterator.low = 1
    /\ iterator.waits => iterator.valid
    /\ iterator.valid => iterator.at \in Places(iterator) /\ iterator.at >= iterator.low
    /\ HasRead(iterator, Passed(iterator))
=============================================================================
