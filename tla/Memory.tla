------------------------------- MODULE Memory -------------------------------
(***************************************************************************)
(* memory/allocator.cpp: the heap of a simulated process.  New blocks are  *)
(* cut off the arena by a bump pointer, freed ones wait in a list for each *)
(* size to be used again.  Every process of a simulation must find zeroes  *)
(* wherever it allocates, else runs of one seed would differ; and the      *)
(* arena is never cleared as a whole: pages are filled with zeroes as the  *)
(* bump pointer comes near, and a crash only moves it back.                *)
(*                                                                         *)
(* Addresses count units of kRequiredAlignment bytes from arena_.Start().  *)
(* A block's header takes one unit and is what names the block.  The       *)
(* program is one that frees what it has allocated, once, and writes to    *)
(* nothing else.                                                           *)
(***************************************************************************)
EXTENDS Integers, Sequences

CONSTANTS
  Page,         \* kZFillBlockSize
  Pages,        \* of the arena
  SizeClass,    \* block sizes kept for reuse
  LargeSize,    \* block sizes that are not
  Null,         \* nullptr
  Zero, Dirty   \* what a unit holds: nothing, or data of a process

ArenaEnd == Pages * Page

Unit == 0 .. ArenaEnd - 1

Size == SizeClass \cup LargeSize

ASSUME MemoryAssumption ==
  /\ Page \in Nat \ {0} /\ Pages \in Nat \ {0}
  /\ Size \subseteq Nat \ {0}
  /\ SizeClass \cap LargeSize = {}
  /\ Null \notin Unit

VARIABLES
  next,         \* next_
  zfilled,      \* zfilled_
  mem,          \* what each unit of the arena holds
  head,         \* BlockList::head_ of each size
  live,         \* the blocks the program holds
  written,      \* those of them it has written to
  freed         \* the headers it has freed, for each size, the last one first

vars == <<next, zfilled, mem, head, live, written, freed>>

Block == [at : Unit, size : Size]

Header == [size : Size, next : Unit \cup {Null}]

\* The units of a block that belong to the program.
Span(b) == b.at + 1 .. b.at + b.size

\* No unit, header or data, belongs to both blocks.
Apart(b, c) == b.at + b.size < c.at \/ c.at + c.size < b.at

\* HeapsAllocator: a new arena, or one another server has released as it was.
AcquireHeap == {[u \in Unit |-> Zero], [u \in Unit |-> Dirty]}

Init ==
  /\ next = 0
  /\ zfilled = 0
  /\ mem \in AcquireHeap
  /\ head = [s \in SizeClass |-> Null]
  /\ live = {}
  /\ written = {}
  /\ freed = [s \in SizeClass |-> <<>>]

----------------------------------------------------------------------------
(* Allocate *)

Overflow(s) == next + 1 + s >= ArenaEnd

\* Where zero fill stops: pages are filled until one lies behind pos.
PageEnd == {k * Page : k \in 0 .. Pages + 1}

ZeroFilledTo(pos, z) ==
  IF pos < zfilled
  THEN z = zfilled
  ELSE z \in PageEnd /\ pos < z /\ \A y \in PageEnd : pos < y => z <= y

AllocateNewBlock(s) ==
  /\ ~Overflow(s)
  /\ \E z \in PageEnd :
       /\ ZeroFilledTo(next + 1 + s, z)
       /\ mem' = [u \in DOMAIN mem \cup zfilled .. z - 1 |->
                    IF u = next THEN [size |-> s, next |-> Null]
                    ELSE IF u >= zfilled /\ u < z THEN Zero ELSE mem[u]]
       /\ zfilled' = z
  /\ next' = next + 1 + s
  /\ live' = live \cup {[at |-> next, size |-> s]}
  /\ UNCHANGED <<head, written, freed>>

\* Slip: the header is cleared instead of the last unit.
ReuseBlockShifted(s) ==
  LET block == head[s]
  IN /\ head' = [head EXCEPT ![s] = mem[block].next]
     /\ mem' = [u \in Unit |->
                  IF u \in block .. block + mem[block].size - 1 THEN Zero ELSE mem[u]]
     /\ live' = live \cup {[at |-> block, size |-> s]}
     /\ freed' = [freed EXCEPT ![s] = Tail(@)]
     /\ UNCHANGED <<next, zfilled, written>>

\* BlockList::TryPop, and the block is cleared over the size its header names.
ReuseBlock(s) ==
  LET block == head[s]
  IN /\ head' = [head EXCEPT ![s] = mem[block].next]
     /\ mem' = [u \in Unit |->
                  IF u \in block + 1 .. block + mem[block].size THEN Zero ELSE mem[u]]
     /\ live' = live \cup {[at |-> block, size |-> s]}
     /\ freed' = [freed EXCEPT ![s] = Tail(@)]
     /\ UNCHANGED <<next, zfilled, written>>

\* BlockCache: the block that would be taken from the list of s, if there is one.
TryAcquire(s) == head[s]

\* s is the size the program asked for, rounded up to a power of two.
Allocate(s) ==
  \/ s \in LargeSize /\ AllocateNewBlock(s)
  \/ s \in SizeClass /\ TryAcquire(s) = Null /\ AllocateNewBlock(s)
  \/ s \in SizeClass /\ TryAcquire(s) # Null /\ ReuseBlock(s)

----------------------------------------------------------------------------
(* Free *)

\* Slip: the list begins with the block before the block is linked to it.
PushSwapped(b, s) ==
  /\ head' = [head EXCEPT ![s] = b.at]
  /\ mem' = [mem EXCEPT ![b.at] = [@ EXCEPT !.next = head'[s]]]
  /\ freed' = [freed EXCEPT ![s] = <<b.at>> \o @]

\* BlockList::Push
Push(b, s) ==
  /\ mem' = [mem EXCEPT ![b.at] = [@ EXCEPT !.next = head[s]]]
  /\ head' = [head EXCEPT ![s] = b.at]
  /\ freed' = [freed EXCEPT ![s] = <<b.at>> \o @]

\* BlockCache: to the list of the size that the header names.
Release(b) == Push(b, mem[b.at].size)

\* A large block is never used again.
Free(b) ==
  /\ live' = live \ {b}
  /\ written' = written \ {b}
  /\ \/ mem[b.at].size \in SizeClass /\ Release(b)
     \/ mem[b.at].size \in LargeSize /\ UNCHANGED <<mem, head, freed>>
  /\ UNCHANGED <<next, zfilled>>

----------------------------------------------------------------------------
\* The program fills a block with data of its own.
Write(b) ==
  /\ mem' = [u \in Unit |-> IF u \in Span(b) THEN Dirty ELSE mem[u]]
  /\ written' = written \cup {b}
  /\ UNCHANGED <<next, zfilled, head, live, freed>>

\* Slips: zero fill goes on where it was, or the lists outlive the process.
ResetKeepingZeroes ==
  /\ next' = 0
  /\ head' = [s \in SizeClass |-> Null]
  /\ live' = {} /\ written' = {}
  /\ freed' = [s \in SizeClass |-> <<>>]
  /\ UNCHANGED <<zfilled, mem>>

ResetKeepingLists ==
  /\ next' = 0 /\ zfilled' = 0
  /\ live' = {} /\ written' = {}
  /\ UNCHANGED <<mem, head, freed>>

\* BlockCache and its BlockLists forget their blocks.
HardReset == head' = [s \in SizeClass |-> Null]

\* Reset: the process has crashed.
Reset ==
  /\ next' = 0 /\ zfilled' = 0
  /\ HardReset
  /\ live' = {} /\ written' = {}
  /\ freed' = [s \in SizeClass |-> <<>>]
  /\ UNCHANGED mem

Next ==
  \/ \E s \in Size : Allocate(s)
  \/ \E b \in live : Free(b) \/ Write(b)
  \/ Reset

Spec == Init /\ [][Next]_vars

----------------------------------------------------------------------------
(* Properties *)

TypeOK ==
  /\ next \in Nat /\ next <= zfilled
  /\ zfilled \in 0 .. ArenaEnd
  /\ mem \in [Unit -> {Zero, Dirty} \cup Header]
  /\ head \in [SizeClass -> Unit \cup {Null}]
  /\ live \subseteq Block
  /\ written \subseteq live
  /\ freed \in [SizeClass -> Seq(Unit)]

Disjoint ==
  /\ \A b \in live : b.at + b.size < next
  /\ \A b, c \in live : b # c => Apart(b, c)

\* No unit belongs to two blocks, header or data, nor lies beyond the bump
\* pointer, whatever was freed and reused and however many processes the heap
\* has served; and neither the bump pointer nor the zero fill ever leaves the
\* arena (allocator.cpp:130-149, 169-179, 186).
BlocksAreApart == Disjoint /\ next <= zfilled /\ zfilled <= ArenaEnd

\* A block holds zeroes until its owner writes to it and its owner's data ever
\* after: neither the zero fill nor a header of another block, nor data of an
\* earlier owner or process, ever shows in it (allocator.cpp:140-146, 174-179).
BlocksAreKept ==
  \A b \in live : \A u \in Span(b) : mem[u] = IF b \in written THEN Dirty ELSE Zero

\* The header of a block the program holds is there when it comes to free it:
\* the canary is never found broken (allocator.cpp:160).
HeadersAreKept == \A b \in live : mem[b.at] \in Header /\ mem[b.at].size = b.size

\* The lists that run through the headers are the stacks of what was freed: no
\* block is lost from one, or twice in one, or in one of another size
\* (allocator.hpp:21-38, allocator.cpp:74-85).
ListsAreStacks ==
  \A s \in SizeClass :
    /\ head[s] = IF freed[s] = <<>> THEN Null ELSE freed[s][1]
    /\ \A i \in 1 .. Len(freed[s]) :
         /\ mem[freed[s][i]] \in Header
         /\ mem[freed[s][i]].size = s
         /\ mem[freed[s][i]].next = IF i = Len(freed[s]) THEN Null ELSE freed[s][i + 1]

----------------------------------------------------------------------------
(* The inductive invariant behind these four *)

FreedBlock(s, i) == [at |-> freed[s][i], size |-> s]

\* A block that was freed is one block of its list, and nobody's.
FreedAreApart ==
  \A s \in SizeClass : \A i \in 1 .. Len(freed[s]) :
    /\ freed[s][i] + s < next
    /\ \A b \in live : Apart(b, FreedBlock(s, i))
    /\ \A t \in SizeClass : \A j \in 1 .. Len(freed[t]) :
         s # t \/ i # j => Apart(FreedBlock(s, i), FreedBlock(t, j))

\* What the next block is cut from is clear as far as zfilled_.
ZeroAhead == \A u \in Unit : next <= u /\ u < zfilled => mem[u] = Zero

MemoryInv ==
  /\ TypeOK
  /\ Disjoint
  /\ BlocksAreKept
  /\ HeadersAreKept
  /\ ListsAreStacks
  /\ FreedAreApart
  /\ ZeroAhead
=============================================================================
