----------------------------- MODULE FileStore -----------------------------
(***************************************************************************)
(* What a disk promises the programs of a server: a directory of byte      *)
(* strings, without files behind the paths, offsets or memory that is      *)
(* given back.  Each call has one effect, in one instant.  A descriptor    *)
(* stands for the file it was opened for: once the path is unlinked it     *)
(* stands for none that a path leads to, and what is made there later is   *)
(* not its own.  A crash takes descriptors and calls, and no byte.         *)
(***************************************************************************)
EXTENDS File

CONSTANTS
  Fiber, Path,
  Fd,         \* the numbers of descriptors
  Chunk,      \* what a call may append
  Length,     \* what a call may truncate a file to
  Absent      \* no such file

VARIABLES
  contents,   \* what is to be read at each path
  handles,    \* descriptors; names are the paths that lead to their files
  appends     \* the calls of Append that have not returned

storeVars == <<contents, handles, appends>>

Init ==
  /\ contents = [p \in Path |-> Absent]
  /\ handles = {}
  /\ appends = {}

Create(p) ==
  /\ contents[p] = Absent
  /\ contents' = [contents EXCEPT ![p] = <<>>]
  /\ UNCHANGED <<handles, appends>>

Truncate(p, n) ==
  /\ contents[p] # Absent
  /\ contents' = [contents EXCEPT ![p] = Resized(@, n)]
  /\ UNCHANGED <<handles, appends>>

\* p no longer leads to the file of any descriptor or call.
Unlink(p) ==
  /\ contents' = [contents EXCEPT ![p] = Absent]
  /\ handles' = {[fd |-> h.fd, mode |-> h.mode, names |-> h.names \ {p}] : h \in handles}
  /\ appends' = {[fiber |-> a.fiber, names |-> a.names \ {p}, chunk |-> a.chunk] :
                   a \in appends}

Open(p, mode, fd) ==
  /\ \A h \in handles : h.fd # fd
  /\ IF contents[p] = Absent
       THEN mode = "Append" /\ contents' = [contents EXCEPT ![p] = <<>>]
       ELSE UNCHANGED contents
  /\ handles' = handles \cup {[fd |-> fd, mode |-> mode, names |-> {p}]}
  /\ UNCHANGED appends

Close(fd) ==
  /\ \E h \in handles : h.fd = fd /\ handles' = handles \ {h}
  /\ UNCHANGED <<contents, appends>>

\* The fiber f calls Append.
BeginAppend(f, fd, chunk) ==
  /\ \A a \in appends : a.fiber # f
  /\ \E h \in handles :
       /\ h.fd = fd /\ h.mode = "Append"
       /\ appends' = appends \cup {[fiber |-> f, names |-> h.names, chunk |-> chunk]}
  /\ UNCHANGED <<contents, handles>>

\* Its Append returns.  A file that was unlinked meanwhile is at no path.
FinishAppend(f) ==
  /\ \E a \in appends :
       /\ a.fiber = f
       /\ contents' = [p \in Path |-> IF p \in a.names THEN contents[p] \o a.chunk
                                                      ELSE contents[p]]
       /\ appends' = appends \ {a}
  /\ UNCHANGED handles

Crash ==
  /\ handles' = {} /\ appends' = {}
  /\ UNCHANGED contents

Next ==
  \/ \E p \in Path :
       \/ Create(p) \/ Unlink(p)
       \/ \E n \in Length : Truncate(p, n)
       \/ \E mode \in {"Read", "Append"}, fd \in Fd : Open(p, mode, fd)
  \/ \E fd \in Fd : Close(fd)
  \/ \E f \in Fiber : FinishAppend(f) \/ \E fd \in Fd, chunk \in Chunk : BeginAppend(f, fd, chunk)
  \/ Crash

Spec == Init /\ [][Next]_storeVars
=============================================================================
