----------------------------- MODULE FileSystem -----------------------------
(***************************************************************************)
(* fs/ and server/runtime/filesystem.hpp: the disk of a server.  Paths     *)
(* lead to files, descriptors to the files they were opened for, whatever  *)
(* has become of the path.  A read or an append waits for the disk first   *)
(* and looks its descriptor up when the wait is over; in between other     *)
(* fibers go on, and the process may crash.                                *)
(*                                                                         *)
(* A call that would end the simulation (RaiseError) is not made: programs *)
(* truncate files that are there, use descriptors for what they were       *)
(* opened for, and close none that a fiber waits on.  A file is a member   *)
(* of Inode, in use as long as a path or a descriptor leads to it, as      *)
(* std::shared_ptr counts.                                                 *)
(***************************************************************************)
EXTENDS File, FiniteSets

CONSTANTS
  Fiber, Path, Inode,
  Chunk, Length, Absent,        \* as in FileStore
  BufferSize,                   \* of reads
  Nothing,                      \* a fiber that does not wait
  MaxFd, MaxSize                \* bounds: opens in a life, bytes in a file

\* The bytes of files.
Byte == {Zero} \cup UNION {{chunk[i] : i \in DOMAIN chunk} : chunk \in Chunk}

ASSUME FileSystemAssumption ==
  /\ Chunk \subseteq Seq(Byte)
  /\ Length \subseteq Nat /\ BufferSize \subseteq Nat \ {0}
  /\ MaxFd \in Nat /\ MaxSize \in Nat
  /\ Absent \notin Inode /\ Absent \notin Seq(Byte)

VARIABLES
  files,      \* files_
  data,       \* File::data_
  opened,     \* opened_files_, with the bytes each reader has been given
  next_fd,    \* next_fd_
  waits       \* the calls that wait for the disk

vars == <<files, data, opened, next_fd, waits>>

\* got and cut are history: what the reads of the descriptor have returned, and
\* whether its file was made shorter than what it had read.
OpenedFile(fd, mode, file, offset) ==
  [fd |-> fd, mode |-> mode, file |-> file, offset |-> offset, got |-> <<>>, cut |-> FALSE]

Init ==
  /\ files = [p \in Path |-> Absent]
  /\ data = [i \in Inode |-> <<>>]
  /\ opened = {}
  /\ next_fd = 0
  /\ waits = [f \in Fiber |-> Nothing]

InUse(dir, descriptors) ==
  {i \in Inode : \/ \E p \in Path : dir[p] = i
                 \/ \E of \in descriptors : of.file = i}

\* The last reference to a file goes, and its bytes with it.
Collected(dir, descriptors) ==
  [i \in Inode |-> IF i \in InUse(dir, descriptors) THEN data[i] ELSE <<>>]
-----------------------------------------------------------------------------
(* Metadata *)

CreateFile(p) ==
  \E i \in Inode \ InUse(files, opened) : files' = [files EXCEPT ![p] = i]

Create(p) ==
  /\ files[p] = Absent
  /\ CreateFile(p)
  /\ UNCHANGED <<data, opened, next_fd, waits>>

Truncate(p, n) ==
  /\ files[p] # Absent
  /\ data' = [data EXCEPT ![files[p]] = Resized(@, n)]
  /\ opened' = {[of EXCEPT !.cut = @ \/ (of.file = files[p] /\ n < of.offset)] : of \in opened}
  /\ UNCHANGED <<files, next_fd, waits>>

Unlink(p) ==
  /\ files' = [files EXCEPT ![p] = Absent]
  /\ data' = Collected(files', opened)
  /\ UNCHANGED <<opened, next_fd, waits>>
-----------------------------------------------------------------------------
(* Descriptors *)

\* FindOrCreateFile, InitOffset
OpenAs(p, mode, fd) ==
  /\ IF files[p] = Absent
       THEN mode = "Append" /\ CreateFile(p)
       ELSE UNCHANGED files
  /\ next_fd' = fd
  /\ LET offset == IF mode = "Append" THEN Len(data[files'[p]]) ELSE 0
     IN  opened' = opened \cup {OpenedFile(fd, mode, files'[p], offset)}
  /\ UNCHANGED <<data, waits>>

Open(p, mode) == next_fd < MaxFd /\ OpenAs(p, mode, next_fd + 1)

Close(of) ==
  /\ \A f \in Fiber : waits[f] # Nothing => waits[f].fd # of.fd
  /\ opened' = opened \ {of}
  /\ data' = Collected(files, opened')
  /\ UNCHANGED <<files, next_fd, waits>>

\* FS::Read and FS::Append wait for the disk.  The file the descriptor leads to
\* at the time of the call is history.
Wait(f, call) ==
  /\ waits[f] = Nothing
  /\ waits' = [waits EXCEPT ![f] = call]
  /\ UNCHANGED <<files, data, opened, next_fd>>

BeginRead(f, of) ==
  /\ of.mode = "Read"
  /\ \E n \in BufferSize :
       Wait(f, [fd |-> of.fd, mode |-> "Read", size |-> n, file |-> of.file])

BeginAppend(f, of) ==
  /\ of.mode = "Append"
  /\ Len(data[of.file]) < MaxSize
  /\ \E chunk \in Chunk :
       Wait(f, [fd |-> of.fd, mode |-> "Append", chunk |-> chunk, file |-> of.file])

\* GetOpenedFile and CheckMode, after the wait.
Woken(f, mode) ==
  {of \in opened : /\ waits[f] # Nothing /\ waits[f].mode = mode
                   /\ of.fd = waits[f].fd /\ of.mode = mode}

Returned(f) == waits' = [waits EXCEPT ![f] = Nothing]

\* Slip: the offset goes on by what was asked for.
FinishReadSkipping(f) ==
  \E of \in Woken(f, "Read") :
    LET bytes == PRead(data[of.file], of.offset, waits[f].size)
    IN  /\ opened' = (opened \ {of}) \cup
                       {[of EXCEPT !.offset = @ + waits[f].size, !.got = @ \o bytes]}
        /\ Returned(f)
        /\ UNCHANGED <<files, data, next_fd>>

\* It reads from the offset the descriptor has after the wait.
FinishRead(f) ==
  \E of \in Woken(f, "Read") :
    LET bytes == PRead(data[of.file], of.offset, waits[f].size)
    IN  /\ opened' = (opened \ {of}) \cup
                       {[of EXCEPT !.offset = @ + Len(bytes), !.got = @ \o bytes]}
        /\ Returned(f)
        /\ UNCHANGED <<files, data, next_fd>>

FinishAppend(f) ==
  \E of \in Woken(f, "Append") :
    /\ data' = [data EXCEPT ![of.file] = @ \o waits[f].chunk]
    /\ Returned(f)
    /\ UNCHANGED <<files, opened, next_fd>>
-----------------------------------------------------------------------------
(* Crash: descriptors and fibers go, files stay *)

\* Slip: what waits for the disk is not dropped.
CrashKeepingCalls ==
  /\ opened' = {}
  /\ next_fd' = 0
  /\ data' = Collected(files, {})
  /\ UNCHANGED <<files, waits>>

\* Slip: a file that is open for appends goes with its descriptor.
CrashLosingOpened ==
  LET lost == {of.file : of \in {o \in opened : o.mode = "Append"}}
  IN  /\ opened' = {}
      /\ next_fd' = 0
      /\ files' = [p \in Path |-> IF files[p] \in lost THEN Absent ELSE files[p]]
      /\ data' = Collected(files', {})
      /\ waits' = [f \in Fiber |-> Nothing]

Crash ==
  /\ opened' = {}
  /\ next_fd' = 0
  /\ data' = Collected(files, {})
  /\ waits' = [f \in Fiber |-> Nothing]
  /\ UNCHANGED files

Next ==
  \/ \E p \in Path : Create(p) \/ Unlink(p)
  \/ \E p \in Path, n \in Length : Truncate(p, n)
  \/ \E p \in Path, mode \in {"Read", "Append"} : Open(p, mode)
  \/ \E of \in opened : Close(of)
  \/ \E f \in Fiber, of \in opened : BeginRead(f, of) \/ BeginAppend(f, of)
  \/ \E f \in Fiber : FinishRead(f) \/ FinishAppend(f)
  \/ Crash

Spec == Init /\ [][Next]_vars
-----------------------------------------------------------------------------
(* Properties *)

Descriptor ==
  [fd : 1 .. MaxFd, mode : {"Read", "Append"}, file : Inode, offset : Nat,
   got : Seq(Byte), cut : BOOLEAN]

Call ==
  [fd : 1 .. MaxFd, mode : {"Read"}, size : BufferSize, file : Inode]
    \cup [fd : 1 .. MaxFd, mode : {"Append"}, chunk : Chunk, file : Inode]

ASSUME CallAssumption == \A call \in Call : call # Nothing

TypeOK ==
  /\ files \in [Path -> Inode \cup {Absent}]
  /\ data \in [Inode -> Seq(Byte)]
  /\ opened \subseteq Descriptor
  /\ next_fd \in 0 .. MaxFd
  /\ waits \in [Fiber -> Call \cup {Nothing}]
  /\ \A p, q \in Path : files[p] = files[q] => p = q \/ files[p] = Absent
  /\ \A a, b \in opened : a.fd = b.fd => a = b
  /\ \A of \in opened : of.fd <= next_fd

\* A call that comes back from the disk finds the descriptor it was made with,
\* leading to the same file, however many were opened and closed, unlinked and
\* lost in crashes meanwhile: GetOpenedFile and CheckMode (fs/fs.cpp:191-210)
\* cannot fail and no byte goes to another file.
CallsKeepTheirFile ==
  \A f \in Fiber : waits[f] # Nothing =>
    \E of \in opened :
      of.fd = waits[f].fd /\ of.mode = waits[f].mode /\ of.file = waits[f].file

\* A reader is given the bytes of one file from its beginning, none twice and
\* none left out, while fibers share the descriptor, others append, and the
\* path is unlinked and made again (FileSystem::Read); unless the file is cut.
ReadsOneFile ==
  \A of \in opened : of.mode = "Read" /\ ~ of.cut =>
    /\ of.offset <= Len(data[of.file])
    /\ of.got = SubSeq(data[of.file], 1, of.offset)

\* A file nothing leads to holds nothing.
FreshFiles == \A i \in Inode \ InUse(files, opened) : data[i] = <<>>

\* The inductive invariant.
FileInv == TypeOK /\ CallsKeepTheirFile /\ ReadsOneFile /\ FreshFiles

-----------------------------------------------------------------------------
(* What the calls do to the directory *)

Names(i) == {p \in Path : files[p] = i}

Contents == [p \in Path |-> IF files[p] = Absent THEN Absent ELSE data[files[p]]]

HandleOf(of) == [fd |-> of.fd, mode |-> of.mode, names |-> Names(of.file)]

Handles == {HandleOf(of) : of \in opened}

Appending == {f \in Fiber : waits[f] # Nothing /\ waits[f].mode = "Append"}

\* For the file the descriptor led to when the call was made.
AppendOf(f) ==
  [fiber |-> f, names |-> Names(waits[f].file), chunk |-> waits[f].chunk]

Appends == {AppendOf(f) : f \in Appending}

Store == INSTANCE FileStore
  WITH contents <- Contents, handles <- Handles, appends <- Appends, Fd <- 1 .. MaxFd

\* What each call and a crash may do to the directory, and do nothing else.
EachCall ==
  /\ \A p \in Path :
       /\ Create(p) => Store!Create(p)
       /\ Unlink(p) => Store!Unlink(p)
       /\ \A n \in Length : Truncate(p, n) => Store!Truncate(p, n)
       /\ \A mode \in {"Read", "Append"} :
            Open(p, mode) => Store!Open(p, mode, next_fd')
  /\ \A of \in opened : Close(of) => Store!Close(of.fd)
  /\ \A f \in Fiber, of \in opened :
       /\ BeginAppend(f, of) => Store!BeginAppend(f, of.fd, waits'[f].chunk)
       /\ BeginRead(f, of) => UNCHANGED Store!storeVars
  /\ \A f \in Fiber :
       /\ FinishAppend(f) => Store!FinishAppend(f)
       /\ FinishRead(f) => UNCHANGED Store!storeVars
  /\ Crash => Store!Crash

\* What paths lead to is a directory of byte strings.  Each call changes the file
\* at its own path, or the one its descriptor was opened for, and no other: an
\* append that waits while the path is unlinked and made again touches neither
\* the new file nor any other; and a crash changes none (fs/fs.cpp:39-116, 216).
ImplementsFileStore == Store!Spec /\ [][EachCall]_vars
=============================================================================
