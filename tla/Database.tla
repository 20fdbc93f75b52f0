------------------------------ MODULE Database ------------------------------
(***************************************************************************)
(* db/database.cpp and db/wal.hpp over fs/fs.cpp: the database of a        *)
(* server.  A write is appended to the write-ahead log on the disk and     *)
(* then applied to the table in memory; opening the database replays the   *)
(* log, cuts off a record a crash has left unfinished and goes on behind   *)
(* it.                                                                     *)
(*                                                                         *)
(* Fibers take turns only where the code waits: for the disk, for the      *)
(* write mutex.  FileSystem's latency comes before its effect              *)
(* (runtime/filesystem.hpp), so a crash during a wait finds the data not   *)
(* yet written.                                                            *)
(*                                                                         *)
(* The log file is kept as the sequence of its records and how much of     *)
(* each is there.  LogWriter and LogReader belong to an external library:  *)
(* a record is taken to reach the file in RecordParts appends, and reading *)
(* stops at the first one that is not complete.                            *)
(***************************************************************************)
EXTENDS MemTable

CONSTANTS
  Fiber,          \* the fibers that call the database
  Batch,          \* the batches they write
  RecordParts,    \* the appends of one record
  Nobody          \* write_mutex_, when it is free

CONSTANTS         \* bounds of a check
  MaxRecords,     \* records in the log file
  MaxSnapshots    \* snapshots of one process

ASSUME DatabaseAssumption ==
  /\ NoValue \notin Value
  /\ Batch \subseteq Seq(Mutation) \ {<<>>}
  /\ RecordParts \in Nat \ {0}
  /\ Nobody \notin Fiber
  /\ MaxRecords \in Nat /\ MaxSnapshots \in Nat

VARIABLES
  wal,            \* the records of the log file
  has_sstable,    \* the file of the sstable exists
  phase,          \* how far Open has come
  offset,         \* the records WALReader has read, WriterOffset
  mem_table,      \* Database::mem_table_
  version,        \* Database::version_
  write_mutex,    \* the fiber inside DoWrite, or Nobody
  calls,          \* what each fiber is doing
  result,         \* what the last TryGet of each fiber returned
  snapshots,      \* the Snapshots of the process
  history         \* the maps so far: one for each record completed, and the first

vars == <<wal, has_sstable, phase, offset, mem_table, version, write_mutex,
          calls, result, snapshots, history>>

disk == <<wal, has_sstable>>

Record == [batch : Batch, parts : 1 .. RecordParts]

IsWhole(r) == r.parts = RecordParts

HasTornRecord == wal # <<>> /\ ~IsWhole(Last(wal))

NoCall == [op |-> "None"]

\* parts of a Write: how much of its record it has put into the file.
Call ==
  {NoCall} \cup [op : {"Read"}, key : Key] \cup
  [op : {"Write"}, batch : Batch, parts : 0 .. RecordParts - 1]

Snapshot == [entries : Entries, version : Nat]

\* The types of all but the maps.
ShapeOK ==
  /\ wal \in Seq(Record)
  /\ has_sstable \in BOOLEAN
  /\ phase \in {"Closed", "Replaying", "Preparing", "Open"}
  /\ offset \in Nat
  /\ version \in Nat
  /\ write_mutex \in Fiber \cup {Nobody}
  /\ calls \in [Fiber -> Call]
  /\ \A s \in snapshots : s.version \in Nat
  /\ history \in Seq(Range(history))

TypeOK ==
  /\ ShapeOK
  /\ mem_table \in Entries
  /\ result \in [Fiber -> Value \cup {NoValue}]
  /\ snapshots \subseteq Snapshot
  /\ history \in Seq(Entries)

Init ==
  /\ wal = <<>>
  /\ has_sstable = FALSE
  /\ phase = "Closed"
  /\ offset = 0
  /\ mem_table = NoEntries
  /\ version = 0
  /\ write_mutex = Nobody
  /\ calls = [f \in Fiber |-> NoCall]
  /\ result = [f \in Fiber |-> NoValue]
  /\ snapshots = {}
  /\ history = <<NoEntries>>

----------------------------------------------------------------------------
(* Database::Open, called by the main function of a program before it      *)
(* lets anything else use the database                                     *)

Open ==
  /\ phase = "Closed"
  /\ phase' = "Replaying"
  /\ mem_table' = NoEntries
  /\ version' = 0
  /\ offset' = 0
  /\ UNCHANGED <<disk, write_mutex, calls, result, snapshots, history>>

HasNextRecord == offset < Len(wal) /\ IsWhole(wal[offset + 1])

ReplayRecord ==
  /\ phase = "Replaying"
  /\ HasNextRecord
  /\ mem_table' = Apply(mem_table, wal[offset + 1].batch)
  /\ version' = version + 1
  /\ offset' = offset + 1
  /\ UNCHANGED <<disk, phase, write_mutex, calls, result, snapshots, history>>

\* Slip: the writer goes on at the end of the file.
FinishReplayAtEnd ==
  /\ phase = "Replaying"
  /\ ~HasNextRecord
  /\ has_sstable' = TRUE
  /\ phase' = IF has_sstable THEN "Open" ELSE "Preparing"
  /\ UNCHANGED <<wal, offset, mem_table, version, write_mutex, calls, result,
                 snapshots, history>>

\* The writer is opened at the offset the reader has come to, and cuts the
\* file there; PrepareSSTable creates its file when it is not there yet.
FinishReplay ==
  /\ phase = "Replaying"
  /\ ~HasNextRecord
  /\ wal' = SubSeq(wal, 1, offset)
  /\ has_sstable' = TRUE
  /\ phase' = IF has_sstable THEN "Open" ELSE "Preparing"
  /\ UNCHANGED <<offset, mem_table, version, write_mutex, calls, result,
                 snapshots, history>>

\* The data of a new sstable is written.
FinishPrepare ==
  /\ phase = "Preparing"
  /\ phase' = "Open"
  /\ UNCHANGED <<disk, offset, mem_table, version, write_mutex, calls, result,
                 snapshots, history>>

----------------------------------------------------------------------------
(* Put, Delete and Write: a batch, through DoWrite *)

Writers == {f \in Fiber : calls[f].op = "Write"}

BeginWrite(f) ==
  /\ phase = "Open"
  /\ calls[f] = NoCall
  /\ Len(wal) + Cardinality(Writers) < MaxRecords
  /\ \E b \in Batch :
       calls' = [calls EXCEPT ![f] = [op |-> "Write", batch |-> b, parts |-> 0]]
  /\ UNCHANGED <<disk, phase, offset, mem_table, version, write_mutex, result,
                 snapshots, history>>

\* Slips: the fiber does not wait for its turn, or changes the table before the
\* record is on the disk.
LockAnyway(f) ==
  /\ calls[f].op = "Write"
  /\ write_mutex' = f
  /\ UNCHANGED <<disk, phase, offset, mem_table, version, calls, result,
                 snapshots, history>>

LockAndApply(f) ==
  /\ calls[f].op = "Write"
  /\ write_mutex = Nobody
  /\ write_mutex' = f
  /\ mem_table' = Apply(mem_table, calls[f].batch)
  /\ UNCHANGED <<disk, phase, offset, version, calls, result, snapshots, history>>

Lock(f) ==
  /\ calls[f].op = "Write"
  /\ write_mutex = Nobody
  /\ write_mutex' = f
  /\ UNCHANGED <<disk, phase, offset, mem_table, version, calls, result,
                 snapshots, history>>

\* FileSystem::Append of the next part of f's record, at the end of the file.
Extended(f) ==
  IF calls[f].parts = 0
  THEN Append(wal, [batch |-> calls[f].batch, parts |-> 1])
  ELSE [wal EXCEPT ![Len(wal)].parts = @ + 1]

\* f is inside DoWrite.
IsWriting(f) == write_mutex = f /\ calls[f].op = "Write"

AppendPart(f) ==
  /\ IsWriting(f)
  /\ calls[f].parts + 1 < RecordParts
  /\ wal' = Extended(f)
  /\ calls' = [calls EXCEPT ![f].parts = @ + 1]
  /\ UNCHANGED <<has_sstable, phase, offset, mem_table, version, write_mutex,
                 result, snapshots, history>>

\* Slip: the mutex is still held when DoWrite returns.
FinishLocked(f) ==
  /\ IsWriting(f)
  /\ calls[f].parts + 1 = RecordParts
  /\ wal' = Extended(f)
  /\ mem_table' = Apply(mem_table, calls[f].batch)
  /\ version' = version + 1
  /\ calls' = [calls EXCEPT ![f] = NoCall]
  /\ history' = Append(history, Apply(Last(history), calls[f].batch))
  /\ UNCHANGED <<has_sstable, phase, offset, write_mutex, result, snapshots>>

\* The last part is in the file: apply, count, unlock and return, all at once.
FinishWrite(f) ==
  /\ IsWriting(f)
  /\ calls[f].parts + 1 = RecordParts
  /\ wal' = Extended(f)
  /\ mem_table' = Apply(mem_table, calls[f].batch)
  /\ version' = version + 1
  /\ write_mutex' = Nobody
  /\ calls' = [calls EXCEPT ![f] = NoCall]
  /\ history' = Append(history, Apply(Last(history), calls[f].batch))
  /\ UNCHANGED <<has_sstable, phase, offset, result, snapshots>>

----------------------------------------------------------------------------
(* TryGet and MakeSnapshot *)

\* The key is in the cache: no wait.
Get(f) ==
  /\ phase = "Open"
  /\ calls[f] = NoCall
  /\ \E k \in Key : result' = [result EXCEPT ![f] = Lookup(mem_table, k)]
  /\ UNCHANGED <<disk, phase, offset, mem_table, version, write_mutex, calls,
                 snapshots, history>>

\* A cache miss: the sstable is read, for its latency only.
MissCache(f) ==
  /\ phase = "Open"
  /\ calls[f] = NoCall
  /\ has_sstable
  /\ \E k \in Key : calls' = [calls EXCEPT ![f] = [op |-> "Read", key |-> k]]
  /\ UNCHANGED <<disk, phase, offset, mem_table, version, write_mutex, result,
                 snapshots, history>>

GetAfterMiss(f) ==
  /\ calls[f].op = "Read"
  /\ result' = [result EXCEPT ![f] = Lookup(mem_table, calls[f].key)]
  /\ calls' = [calls EXCEPT ![f] = NoCall]
  /\ UNCHANGED <<disk, phase, offset, mem_table, version, write_mutex,
                 snapshots, history>>

MakeSnapshot ==
  /\ phase = "Open"
  /\ Cardinality(snapshots) < MaxSnapshots
  /\ snapshots' = snapshots \cup {[entries |-> mem_table, version |-> version]}
  /\ UNCHANGED <<disk, phase, offset, mem_table, version, write_mutex, calls,
                 result, history>>

----------------------------------------------------------------------------
\* Server::Crash: the process is gone and FileSystem::Reset keeps the files; the
\* next process constructs a Database that is not yet opened.
Crash ==
  /\ phase' = "Closed"
  /\ offset' = 0
  /\ mem_table' = NoEntries
  /\ version' = 0
  /\ write_mutex' = Nobody
  /\ calls' = [f \in Fiber |-> NoCall]
  /\ result' = [f \in Fiber |-> NoValue]
  /\ snapshots' = {}
  /\ UNCHANGED <<disk, history>>

Serve(f) ==
  \/ BeginWrite(f) \/ Lock(f) \/ AppendPart(f) \/ FinishWrite(f)
  \/ Get(f) \/ MissCache(f) \/ GetAfterMiss(f)

Next ==
  \/ Open \/ ReplayRecord \/ FinishReplay \/ FinishPrepare
  \/ \E f \in Fiber : Serve(f)
  \/ MakeSnapshot
  \/ Crash

Spec == Init /\ [][Next]_vars

\* Disk waits end, and the mutex is passed on in turn.
Fairness ==
  \A f \in Fiber :
    SF_vars(Lock(f)) /\ WF_vars(AppendPart(f)) /\ WF_vars(FinishWrite(f))

FairSpec == Spec /\ Fairness

----------------------------------------------------------------------------
(* Properties *)

\* After every crash and at any moment of use, the table holds just the writes
\* that have returned, all of them and in their order, and version_ is their
\* number (database.cpp:86-92, 109-130).
Recovered ==
  phase \in {"Preparing", "Open"} =>
    mem_table = Last(history) /\ version = Len(history) - 1

\* A snapshot is the database as it was after version_ writes, whatever has
\* been written since and whoever was amid a write (database.cpp:74-78).
SnapshotIsPast ==
  \A s \in snapshots :
    s.version < Len(history) /\ s.entries = history[s.version + 1]

\* Only the last record of the log file is ever incomplete; those before it are
\* the ones that replay will find, one for each write that has returned
\* (wal.hpp:44-49, database.cpp:31, 129).
TornRecordIsLast ==
  /\ \A i \in 1 .. Len(wal) - 1 : IsWhole(wal[i])
  /\ Len(history) - 1 = IF HasTornRecord THEN Len(wal) - 1 ELSE Len(wal)

\* The log file tells how each map came of the one before: a key has the value
\* of the last mutation of its batch, and is gone if that is a delete
\* (database.cpp:94-107, mem_table.hpp:17-32).
LogTellsHistory ==
  \A i \in 1 .. Len(history) - 1, k \in Key :
    LET batch == wal[i].batch
        mine == {j \in 1 .. Len(batch) : batch[j].key = k}
    IN Lookup(history[i + 1], k) =
         IF mine = {} THEN Lookup(history[i], k) ELSE batch[Max(mine)].value

\* The database is a durable map (module DurableMap).
Implemented == INSTANCE DurableMap WITH
  map <- Last(history),
  pending <- [f \in Fiber |-> IF calls[f].op = "Write" THEN calls[f].batch ELSE <<>>],
  snapshots <- {s.entries : s \in snapshots}

ImplementsDurableMap == Implemented!Spec

\* A write comes to its end, however many fibers want the mutex at once, unless
\* the process crashes (database.cpp:86-92).
WriteEnds == \A f \in Fiber : calls[f].op = "Write" ~> calls[f].op # "Write"

----------------------------------------------------------------------------
(* The inductive invariant behind Recovered, SnapshotIsPast and            *)
(* TornRecordIsLast                                                        *)

\* The maps are those that the records of the log file make.
Chained ==
  /\ history # <<>>
  /\ history[1] = NoEntries
  /\ \A i \in 1 .. Len(history) - 1 : history[i + 1] = Apply(history[i], wal[i].batch)

\* Replay has come to the map after the first offset records.
Replayed ==
  phase = "Replaying" =>
    /\ offset < Len(history)
    /\ version = offset
    /\ mem_table = history[offset + 1]

\* A fiber is inside DoWrite only while it writes, and the file ends with the
\* parts of its record; a record without a writer is left of a crash.
OneWriter ==
  /\ write_mutex # Nobody => calls[write_mutex].op = "Write"
  /\ \A f \in Fiber :
       calls[f].op = "Write" /\ calls[f].parts > 0 =>
         write_mutex = f /\ HasTornRecord /\ Last(wal) = [batch |-> calls[f].batch,
                                                          parts |-> calls[f].parts]
  /\ HasTornRecord /\ phase \in {"Preparing", "Open"} =>
       write_mutex # Nobody /\ calls[write_mutex].parts > 0

\* Nobody calls a database that is not open.
Quiet ==
  phase # "Open" =>
    /\ \A f \in Fiber : calls[f] = NoCall
    /\ write_mutex = Nobody
    /\ snapshots = {}

DatabaseInv ==
  /\ ShapeOK
  /\ Recovered
  /\ SnapshotIsPast
  /\ TornRecordIsLast
  /\ Chained
  /\ Replayed
  /\ OneWriter
  /\ Quiet
=============================================================================
