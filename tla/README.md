# A TLA+ model of whirl-matrix

whirl-matrix is a deterministic simulator for distributed systems. A test builds a
*world*: servers in pools, clients, adversaries, a network between them and a model
of time. Everything runs in one thread. The world repeatedly picks the actor whose
next step is earliest, moves the virtual clock to it and lets it take that step.
Programs under test are unmodified node programs with fibers, RPC, files and a
database. Faults are calls adversaries make: links and servers are paused and
resumed, servers crash and reboot, and time models choose delays and clock drift.
A history of the clients' calls is checked for linearizability at the end.

A bug in the simulator costs more than one in a program: a test passes or fails for
reasons that are not in the program under test. This directory states what the
simulator promises its programs and checks the code against it. Paths below are
relative to `src/matrix/` unless they start with `src/`.

## 1. Inventory

| part | source | state | operations | works with |
|---|---|---|---|---|
| World | `world/world.cpp`, `helpers/priority_queue.hpp`, `time/` | list of actors, virtual clock, step number | `Start`, `Step` (`FindNextStep`), `MakeSteps`, `RunFor`, `RestartServer`, `Stop` | calls `NextStep`/`Step` of every actor |
| Server and scheduler | `server/server.cpp`, `process/scheduler.hpp` | life cycle state, priority queue of tasks | `Start`, `Launch`, `Step`, `Pause`, `Resume`, `Crash`, `FastReboot`, `Shutdown`, `AdjustWallClock`, `ListFiles` | an actor of the world; owns transport, disk, heap, clocks |
| Network and links | `network/network.cpp`, `network/link.cpp` | per link: frames, paused flag; one queue of link events | `Start`, `Step`, `PauseLink`, `ResumeLink`, `Split`, `Heal`; `Link::Add` | an actor of the world; hands packets to servers |
| Transport and sockets | `network/transport.cpp`, `network/socket.cpp`, `server/runtime/net_transport.hpp` | endpoints with time stamps, next free port, socket handles | `ConnectTo`, `Serve`, `HandlePacket`, `RemoveEndpoint`, `Reset`; `Send`, `Reply`, `Close` | adds packets to links, schedules callbacks |
| Fault injection | `fault/` | none of its own | `Crash`, `FastReboot`, `Pause`, `Resume`, `PauseLink`, `Split`, `Heal`, ... | called in an adversary's step |
| Database | `db/` | log file; in memory: table, version, write mutex, snapshots | `Open`, `Put`, `Delete`, `Write`, `TryGet`, `MakeSnapshot`, iterators | file system, fibers |
| File system | `fs/`, `server/runtime/filesystem.hpp` | files by path, descriptors with offsets | `Create`, `Unlink`, `Open`, `Read`, `Append`, `Truncate`, `Close`, `Reset`, ... | survives crashes; disk latency from the time model |
| Memory | `memory/`, `new/`, `process/memory.hpp` | arena, bump pointer, zero-filled prefix, free lists by size | `Allocate`, `Free`, `Reset` | `operator new` while the process runs |
| Clocks, time models | `clocks/`, `time_model/`, `server/runtime/time.hpp`, `true_time.hpp` | drift, start and last reset of a monotonic clock, offset of a wall clock | `Now`, `Reset`, `SleepOrTimeout`, `AdjustOffset`, `TrueTimeService::Now`, `FlightTime`, ... | scheduler timers, links, disks |
| History | `history/`, `client/rpc.cpp` | running and completed calls | `CallStarted`, `CallCompleted`, `CallLost`, `RemoveCall`, `Finalize` | wraps the RPC channels of clients |
| Linearizability checker | `semantics/` | a permutation of the calls | `Check` | reads the history |
| Key-value store | `src/examples/kv/` | one database per replica | `Set`, `Get`, `LocalWrite`, `LocalRead` | RPC, database, wall clock, faults |
| Key-value simulation | `src/examples/kv/main.cpp`, `fault/net/star.cpp`, `fault/util.cpp` | limits, crash budget, node to thaw | `RunSimulation`; clients, `NetAdversary`, `NodeAdversary`, `NodeReaper` | builds, runs and judges one world |
| Facade, test runner | `facade/`, `test/`, `world/global/` | pools, actors, global variables; loop counter, exit code | `MakePool`, `AddClients`, `AddAdversary`; `TestDeterminism`, `RunSimulations`, `RunSingleSimulation` | runs simulations one after another |
| Logs, traces, fibers | `log/`, `trace/`, `process/` | output | print, switch stacks | everything |

What makes the code hard:

* **Interleaving and order.** Steps of actors interleave at the granularity of a
  scheduler task; equal times are ordered by the actor's position in the world, in a
  queue by the order of insertion. Two queues, a link's and the network's, must agree
  about what comes next, though pauses consume entries of one and not of the other.
* **Crash and reboot.** A crash drops tasks, endpoints, heap and descriptors and keeps
  the disk, at every point a fiber can wait: inside an append, inside the replay of
  the log, with packets of the dead process still on their way.
* **Time.** A pause leaves timers behind the clock; a resume must bring them back
  without turning the clock back, losing a task or reordering tasks.
* **Identity.** A port, a server name and a service address are used again by another
  incarnation while messages of the earlier one are in flight; only a time stamp tells
  them apart.
* **Several hands on one state.** Three adversaries pause, resume, crash and restart the
  same nodes and links and sleep in between; a fault one of them has to undo may meet
  another, and the simulation fails on an illegal one.
* **Liveness.** At equal times the actor added first goes first, and work may be added at
  the present time: who can starve whom, and that nobody else is starved; a disconnect must
  be noticed by a client that sends nothing, the write mutex is held across disk waits.

What makes each part correct:

* World: the next step never lies in the past; every due task gets its turn, unless hosts added
  earlier submit work at that moment for ever.
* Server: tasks belong to the process that made them; a pause only delays.
* Network: no frame is lost or stranded by pauses, resumes and partitions, and the
  assertion "Broken net" cannot fail.
* Transport: no message or reset reaches another incarnation of its addressee; every
  disconnect is noticed.
* Database: a write that returned is there after any crash, batches are atomic,
  snapshots consistent, a scan meets one moment of the past whatever is written during it.
* File system: descriptors read and append to the file they were opened for; a call takes
  effect on one file, whole, and crashes change none.
* Memory: live blocks do not overlap and are zero when handed out.
* Clocks: monotonic while a process lives; a sleep lasts as long by the sleeper's clock as
  was asked for; TrueTime intervals never contradict each other.
* Simulation: its faults are legal, are undone, and leave a majority; a call that met one
  goes on. The runner passes only what has passed.
* History and checker: every possible outcome of a call is covered; the search accepts
  exactly the linearizable histories.
* Key-value store: what a majority acknowledged is not lost to anything with an older stamp.

`PROJECT.json` lists the components with their files and, as "hazards", the places in
the code where this can go wrong, with the properties that cover them.

## 2. Modules

```
PriorityQueue  Time  Cluster          helpers of the world
      \         |      /
   Network              Server        links and their queues;  life cycle and tasks
          \            /
              World                   the event loop: composes both
           /         \
      MCWorld      WorldProof

   Transport ---- MCTransport, TransportProof     connections across incarnations

   MemTable ---- Database ---- DatabaseIterator      the map;  log, table, mutex, crashes;
                  |     \            |                scans of a snapshot
                  |      \       MCDatabase
                  |  INSTANCE DurableMap              what a database promises
             DatabaseProof

   File ------ FileSystem            byte strings;  paths, descriptors, disk waits
      \           |     \  INSTANCE
       `--- FileStore                 what a disk promises
           MCFileSystem, FileSystemProof

   TimeModels ---- Clocks ---- MCClocks          what programs read and sleep by
                         \
                     RuntimeProof
                         /
                   Memory ---- MCMemory          the heap of a process

   Semantics                          calls, the key-value model, linearizability
     |     \
   History  LinChecker                the recorder;  the search
        \   /
      Judgement ---- MCJudgement, JudgementProof      the one feeds the other

   KVStore ---- MCKVStore, KVStoreProof   quorums, wall-clock stamps

   WorldSetup ---- Simulation ---- TestRunner      building a world;  one simulation;
                                    |      \       all that a command line asks for
                              MCSimulation  SimulationProof
```

### PriorityQueue, Time, Cluster

`PriorityQueue` is `helpers/priority_queue.hpp`: a set of entries `[time, tie_braker,
item]`; `IsSmallest` is what `Extract` takes. One counter `inserts` serves all queues:
ties are compared inside one queue only, so a common counter orders each queue like
its own would. `Time` is the clock, and `FastForwardTo` has no guard: that it is never
called with an earlier time is the property `NoTimeTravel`. `Cluster` says who lives
in a world and in which order they were added.

### Network, Server

Both modules hold operators that a step of the world or a fault is composed of, one
for each method of the code. `frames[l]`, `paused[l]` and `events` are `Link::frames_`,
`Link::paused_` and `Network::events_`. `ResumeLinks` is `Link::Resume` for a set of
links: frames with `time < now` are put back for `now + 1`, in their order, each with
an event. `state`, `tasks`, `bound` and `life` are the server's life cycle, its
scheduler queue, "has an endpoint", and the number of launches, which names the
process a task belongs to. `Postponed` is `Scheduler::Resume`.

### World

A step of a server runs program code, that is, any sequence of calls of the runtime.
The model therefore has `TakeNext(s)` (up to `Server::Step` calling the task), then any
of `Schedule`, `Bind`, `Unbind`, `Send` and, for an adversary, `NetFault` and
`ServerFault`, then `EndStep`; while `active = s` nothing else moves, as in the
single-threaded code. A step of the network is one action, `NetworkStep`: it drops the
event of a paused link or takes the frame and calls `HandlePacket` of the receiver.
`TaskIsNext` and `EventIsNext` are `FindNextStep`: the earliest, then the actor added
first; the network is the last actor. A program may submit work at the present time as often
as it likes (`Schedule` with a delay of 0, which is `ThreadPool::Submit`), for ever too: the clock then
stands still, and by the order of actors those added later starve. The bound on insertions does
not hide that: ties are only compared inside a queue, so `NextInsert` counts on only past a number
that is in use there. What `HandlePacket` answers is left open here
(any of the outcomes transport.cpp has); which one happens when is Transport's subject.
Guards such as `state[s] = "Crashed"` in `Launch` stand for assertions of the code whose
failure ends the simulation.

### Transport

Endpoints, packets and the callbacks waiting in schedulers, for all machines. Packets
wait in a set and arrive in any order: that includes every order the world's flight
times can produce. An endpoint is stamped with the number of the world's step; the
model counts on only after steps that made an endpoint, for stamps are only compared
with `<`. `Dials` says who connects to whom; a machine may connect to itself, as the store's
coordinators do (`WithMe`, `src/examples/kv/node/main.cpp:108`). The fields `id` and `conn` and the numbers behind them are history for the
properties. Ports wrap around (`% PortCount`) like the `uint16_t` does; `tried` counts the ports
that `ConnectTo` has tried in this step, and they stay below `PortCount`: a program that opened and
closed 65536 sockets in one step could be given a port twice under one time stamp, and what is on
its way for the first would be taken for the second's. No program does, and the model leaves it out. For the same reason a program that connects to a
port of its own does not serve there anew in the same step (`Serve`): after `Serve`, `ConnectTo`, `Send`,
`Close` and `Serve` in one step both services would have one stamp, and the request for the first would
be handed to the second. Programs here serve once, at their start; with the guard left out,
`MCTransport` finds that history. `Deliver`
requires that running machines have no callback waiting: the network is the last actor
of its moment and a callback is due at once. A paused machine collects them.

### MemTable, DurableMap, Database

`MemTable` is the map and what a batch does to it. `Database` is the code: `Open` in
its steps (`ReplayRecord`, `FinishReplay` with the truncation of the log,
`FinishPrepare`), a write (`BeginWrite`, `Lock`, `AppendPart`, `FinishWrite`), reads that
hit the cache (`Get`) or wait for the sstable first (`MissCache`, `GetAfterMiss`),
`MakeSnapshot` and `Crash`. Fibers switch only where the code waits: at the mutex and
for the disk; the steps in between are one action. A log record is kept as its batch
and how many of its `RecordParts` appends have reached the file: the record format
belongs to an external library (persist), and what the model takes from it is that a
record is written by several appends and that a reader stops at an incomplete one.
`history` is a ghost variable, the sequence of maps so far; no action reads it except to
extend it. `DurableMap` is the abstract specification: a batch takes effect whole, in
one instant between call and return; crashes leave the map as it is.

### DatabaseIterator

`db/iterator.cpp` over the database, used as in `src/examples/db`: from the first key or a
key sought upwards, or from the last key downwards, by a fiber of its own, while the write. A place is the number of a key in `KeyOrder`, the order of the map; 0 is none. A move sets the place and `valid` at once and then may wait for the sstable
(`MoveTo`, `FinishMove`). `seen`, `low` and `down` of a scan are history for the property.

### File, FileStore, FileSystem

`File` is `fs/file.cpp`: resizing and reading from an offset. `FileSystem` is `fs/fs.cpp`
behind `server/runtime/filesystem.hpp`. `files`, `opened` and `next_fd` are the fields of the
class, `data` the bytes of the files the shared pointers lead to; a file without a path or a
descriptor is gone (`Collected`). `Open` makes a missing file for appending
(`FindOrCreateFile`). Only reads and appends wait for the disk: `BeginRead` and `BeginAppend`
are the call up to the wait, `FinishRead` and `FinishAppend` what comes after it, where the
descriptor is looked up and the offset read; `waits` are the calls in between. `Crash` is
`FileSystem::Reset` together with the end of the fibers. `Truncate` of a missing file, a
descriptor of the wrong mode, and closing one that another fiber waits on end the simulation
(`RaiseError`): programs do not do it, and the model leaves it out. The fields `file` of a
call, `got` and `cut` are history for the properties. `FileStore` is the abstract
specification: a directory of byte strings with one action for each call and one for the crash, and
without files, offsets or memory. A handle there knows the paths that lead to its file (`names`), and
unlinking takes its path from the handles and the appends under way. `ImplementsFileStore` says more than
that every step is *some* step of the store: `EachCall` ties each call to the store's action for it, with the
same path, descriptor, length or chunk, reads to none, and `Crash` to the store's, which leaves
`contents` alone. `Database` does not
build on this module: its log is one file, appended by the holder of a mutex, and it models the
records in it.

### TimeModels, Clocks

`TimeModels` has the answers of the two models (`time_model/catalog`): the crazy one, with
`GlobalRandomNumber(lo, hi)` leaving out `hi` as the code does, and the one for hosts whose name begins
with "Adversary". `Clocks` has the world's time and per host the fields of `MonotonicClock` and
`WallClock`; `AfterJiffies` computes the world time of a timer from the host's drift, `Resume` runs late
timers now, `Launch` resets the monotonic clock, `AdjustWallClock` draws an offset anew. `Tick` lets time
pass by one and never passes by a timer of a running host, which is `World::FindNextStep`. `reading` and
`held` of a timer and `at` of an interval are history for the properties.

### Memory

`Memory` is `memory/allocator.cpp` on one arena, in units of 16 bytes (`kRequiredAlignment`); a
header takes one. `Allocate` is a new block off the bump pointer, preceded by the zero fill in
pages (`AllocateNewBlock`), or a block from the list of its size, cleared again (`ReuseBlock`).
`Free` pushes a block on its list, or leaks it when its size has none. `Reset` is what a crash does:
it moves the pointers back and leaves the contents. `Init` allows any contents, for an arena may have
served another server. `Write` is the program, which writes to its own blocks and frees each once.
`live`, `written` and `freed` are history for the properties.

### Semantics, LinChecker, History, Judgement

`Semantics` has calls, the sequential model of `semantics/models/kv.hpp` and, next to it, the
definition of linearizability: some of the lost calls are added to the completed ones, and all put in
an order that keeps real time and gives the results. `LinChecker` is `Search` and `StepInto` of
`semantics/checker/brute.hpp` as a machine: the recursion is `stack`, the place in the code `pc`, and
the array, its count and the placed calls are the fields of the class. `History` is the recorder and
the channel that feeds it: a call ends with a result (`Succeed`), with an error that leaves open whether
it was executed (`Fail`), or refused (`Refuse`); a request of a failed call stays on its way and may
be executed later. `MakeRpcChannel` by default puts the retries *above* the history, so that a retry is
another `Start`. The service is taken to execute each request in an instant. `Judgement` composes the
two as the simulation does: the recorder's history, once the world is stopped, goes through
`LinCheck`. The checker may also be given any history of `Histories`, right or wrong.

### KVStore

`KVStore` is `src/examples/kv/node/main.cpp` for one key. `BeginSet`/`FinishSet` and
`BeginGet`/`FinishGet` are the two halves of the coordinator's handlers around their `Await`;
`TakeWrite`/`FinishWrite` the two halves of `LocalWrite` around the waits for the disk; the
guard `busy[n] = {}` is the mutex. Requests are sent `AtLeastOnce`: `TakeWrite(c, n)` can
happen at any time after the Set has begun, also after its coordinator has crashed, and again
as long as the answer has not arrived; a crash may lose answers on their way (`Crash`,
`unheard`). That includes a few deliveries the transport prevents, to a replica that was
restarted since, and leaves out repeats after the answer, which find their own stamp or a newer
one; the properties do not depend on either. Every wall clock starts with an offset of its own
and may be adjusted at any time, so stamps of two calls are in no order: `ChooseWriteTimestamp`
takes any element of `WallTime`. A `Put` takes effect in an instant between call and return and
survives, which is what `DurableMap` says of the database.

### WorldSetup, Simulation, TestRunner

`WorldSetup` is `world/world.hpp` behind its facade: pools, the names of hosts, the order of actors, the
global dictionary. `Simulation` is `RunSimulation` of `src/examples/kv/main.cpp`: `pc` is the place in that
function, `fiber` what each client and adversary waits for, and a step of one of them goes from one
sleep to the next, as programs here do. All sleeps are random and any may be the next to end; of the
elapsed time only the two limits the program looks at are kept (`era`). Whether a call gets through is
decided by `Serves`: its coordinator runs and can talk to a majority of running nodes; otherwise the
call is `stuck` until frames go on (`Waking`), fails when its coordinator crashes (`Disconnected`), and is
retried elsewhere (`Retry`). `victim` is the local variable of `NodeAdversary` across its pause, `crashes`
what `NodeReaper` has left. `panicked` is a failed check of the simulator (a link paused twice, a dead
server crashed). `Judge` leaves the checker's answer open. `TestRunner` is `test/main.cpp` and
`test/runner.cpp` around it: `stage` is the place there. Whether two digests agree is left open.
Both are about builds without Address Sanitizer. With it `World::Stop` ends the process with success
before anything is judged (`world/world.cpp:136-139`), and `--det` and `--sims` end it with a failure
(`test/runner.cpp:28-31`, `63-66`): `VerdictIsEarned` is not claimed of such a build, whose runner can
report success for a simulation nobody has judged.

Operators whose comment begins with "Slip" are not used by any specification. Each is
the form a plausible mistake in that piece of code would have, and serves to show that a
property notices it (`PROJECT.json`, "mutants").

## 3. What is checked

All runs are exhaustive on their instance. `MCWorld` has two servers of a pool and one
adversary; one direction of one link carries messages.

| cfg | shows | bounds and why they suffice |
|---|---|---|
| `MCWorldServer` | `OwnTasks`, `NoTimeTravel`, `NoBrokenNet`, `PauseIsADelay`, `NoFrameLost` under pause, resume, crash, launch, reboot and `RestartServer`; `FrameArrives`: a frame arrives unless its link stays paused or programs submit work at one moment for ever; `TaskGetsItsTurn`: a due task has its turn, unless hosts added before its own submit work at that moment for ever, and its time comes, unless someone does at an earlier one | faults of a link and of a server together; 3 insertions, not counting those into a queue that has none of the last number (`NextInsert`): two late tasks, or a frame, its re-insertion and two steps of the adversary. Endless submits (timers of 0) are behaviours of the instance, not cut off by this bound; timers of 2 are late after a pause; two lives: callbacks of the first meet the second; three hosts, so that the middle one has somebody before and behind it. Liveness is checked of the first four tasks and frames by number |
| `MCWorldBrokenNet` | a *violation* of `NoBrokenNet`, see section 5 | an adversary that answers messages; flight 1 or 2, programs plan up to time 3 |
| `MCTransport` | `OwnMail`, `NoStaleRequests`, `NoFalseAlarm` with crashes and pauses of both machines, a client and a server that connects to itself as well | 2 ports a machine, so that the third connection of the client has the port of the first; 4 endpoints and messages; several callbacks wait on a paused machine |
| `MCTransportNotice` | `CrashIsNoticed` | 3 endpoints and messages: service, connection, and the next service |
| `MCDatabase` | `Recovered`, `SnapshotIsPast`, `TornRecordIsLast`, `LogTellsHistory`, `ScanIsOfThePast`, `ImplementsDurableMap` (the refinement), `WriteEnds` | two fibers that want the mutex and one that scans, two keys, a batch of each kind (one put, two keys, a put and its deletion), records of 2 parts (whole or torn), 3 records: a torn record between two whole ones would show, and a scan meets a write between its two keys; crashes any number of times |
| `MCFileSystem` | `CallsKeepTheirFile`, `ReadsOneFile`, `ImplementsFileStore` (the refinement) | two fibers on two descriptors, two paths and three files: one may be unlinked, open, and made again; chunks of two bytes, read one at a time, files cut to one byte: readers stand in the middle of a chunk; a file of four bytes comes of two appends that wait together; two opens in a life, any number of crashes |
| `MCClocks` | `SleepIsAsLongAsAsked`, `IntervalsTellTheOrder`, `MonotonicGrows` | one host with the slowest, a slow, a fast and the fastest drift of the crazy model, one of an adversary; sleeps of 0 to 2, time up to 10: the slowest clock needs 8 for a sleep of 2, and rounding happens at every drift; two lives, one timer a host, one interval to compare with |
| `MCMemory` | `BlocksAreApart`, `BlocksAreKept`, `HeadersAreKept`, `ListsAreStacks` | 3 pages of 4 units; sizes 1 and 2 are reused, 4 is not: blocks straddle pages, fill the arena to the last unit, lists hold several blocks. Nothing but the arena bounds the run |
| `MCJudgement` | `RightIsFoundRight`, `RefusedIsNotLinearizable`, `AcceptedIsLinearizable`, `PlacedInOrder` | recorded histories of 2 clients, 3 calls, times 0 and 1: a lost call that takes effect between two others; and given ones, all of up to 3 calls (a Set of one value, a compare-and-set that replaces it, Gets; times 1 to 3, completed or lost), completed calls in the order of their ends as the recorder writes them: three is what it takes for a swap that is not undone to matter. The limit of 8 searches cuts the longest off |
| `MCKVStore` | `AckedIsKept`, `ReadsAreFresh`, `StampsGrow` | 3 replicas, one of which (coordinator or replica) crashes any number of times, 2 Sets with stamps 1 or 2, a Get: an older Set may come after a newer one, and every quorum may be read |
| `MCKVStoreBack` | a *violation* of the linearizability the example asserts, section 5 | a Set and two Gets, no crash |
| `MCSimulation` | `FaultsAreUndone`, `NobodyPanics`, `VerdictIsEarned`, `CallGoesOn`, `CompletesWhenCalm` | 3 replicas, 2 clients, every set of adversaries, a reaper with 0 or 1 crashes, one request to wait for; command lines for one seed, for the determinism test with a simulation after it, and for nothing at all. At three replicas the budget is at most one crash; `SimulationProof` covers three to five |

The runs of World switch the deadlock check off: a simulation may come to its end (no
actor has a step, or `Stop`), and the bound on time cuts others off; so do `MCClocks`, which ends at its bound on
time, `MCJudgement`, which ends with the judgement, and `MCSimulation`, whose process exits. All other runs
check for deadlock. Types are proved (section 4); no run spends its time on them.

The bounds `MaxTime`, `MaxInserts`, `MaxLife`, `MaxIds`, `MaxRecords`, `MaxSnapshots`,
`Breakable`, `Victim`, `Crashable` and `Pausable` are guards of the actions that consume them,
never of those that deliver what is already there; so are `MaxCalls` and `MaxTime` of History,
`MaxFd` and `MaxSize` of FileSystem and `MaxTime`, `MaxLife`, `MaxTimers` and `MaxIntervals` of Clocks.
`Threshold` of Simulation is a constant of the program. Symmetry is used for clients, values, calls of a
kind and the replicas that do not crash in `MCJudgement` and the runs of KVStore, and for fibers, paths
and files in `MCFileSystem`, none of which checks liveness: nothing in these modules tells them
apart. Hosts of a world and machines of the transport differ in their order.

**Fairness.** World: weak fairness of server steps, of the return of a task and of network
steps. `MakeSteps`/`RunFor` call `Step` again and again, `FindNextStep` always returns the
earliest step, and a task is code that returns; nothing is assumed about *which* server
steps, which is what `TaskGetsItsTurn` has to show. No fairness on faults. That programs do not submit
work at one moment for ever is *not* assumed: `FrameArrives` and `TaskGetsItsTurn` say where it matters
(`Hogged`). Transport:
strong fairness of the delivery of each packet and of callbacks, which is what World's
`FrameArrives` and `TaskGetsItsTurn` give when links do not stay paused and programs let time pass. Database: weak
fairness of disk waits, which end after a finite latency, strong fairness of the mutex,
which `await::fibers::Mutex` passes on in the order of arrival. A crash excuses a write.
Simulation: weak fairness of each client, of the ends of a star and of a freeze, since every sleep is bounded
and every frame is delivered some time, and of the first time limit; nothing makes adversaries inject
faults. A retry draws its node at random, so fairness is of
"a retry that finds a node alive" (`RetryWorks`). That the time limit ends a simulation is *not* assumed, or
`CallGoesOn` would say nothing; it is stated of the first client, whose program is that of all. The other modules assume no fairness.

## 4. What is proved

The proof modules are about the specifications above for all values of the constants
that satisfy the named assumptions; the bounds are arbitrary numbers there.

**WorldProof** (assumptions `ClusterAssumption`, `FlightAssumption`, `ProgramAssumption`,
`ActiveAssumption`):

* `TypeCorrect`, `TasksStayHome` (`OwnTasks`), `ClockGoesForward` (`NoTimeTravel`) for any
  world, and `NetIsNeverBroken` (`NoBrokenNet`) for every world whose adversaries open no
  endpoint (`TimedAdversaries`). The condition is needed: section 5.
* `NoTimeTravel` is not inductive. What is: nothing queued lies before the clock, except
  tasks of paused servers and frames on paused links (`Ahead`), and only a running server is
  active. `NoBrokenNet` needs far more: each event has its frame with the same time and
  tie (`Paired`), a frame without an event is overdue on a paused link, ties are unique and
  below the counter (`GoodTies`), and, for the one moment where `Link::Resume` leaves a frame
  alone, no adversary has a step left once the network has passed over an event of this
  moment (`AdversariesAreDone`), which rests on adversaries not being woken by packets
  (`AdversariesAreAlone`). The proof is in three layers, each using the one below: types
  and finiteness, times, pairs; each has one lemma per action.
* A frame is lost and a task overtaken only where the properties say so: `FramesAreNeverLost`
  (`NoFrameLost`) and `PausesAreDelays` (`PauseIsADelay`), action properties of every step. The second
  says of each task the exact time it waits for after a resume: now if it was late, and what it was
  otherwise (`Waits`). It needs that a task is never early (`NeverEarly`) and that what `Scheduler::Resume` puts back keeps its
  order: re-inserted entries get ties by their rank among the late ones, and ranks in a finite order
  are distinct and grow with it (`RankIsInjective`).

**TransportProof** (assumption `TransportAssumption`), for any machines, services, ports, faults and
order of delivery, and for connections of a machine to itself. Two things a program does not do are
guards of `ConnectTo` and `Serve` (section 2): it does not try all 65536 ports in one step, and does not serve
anew at a port of its own that it has connected to in the same step:

* `TypeCorrect` (`TypeOK`), `ClientsGetTheirOwn` (`OwnMail`), `ServicesStartAfresh`
  (`NoStaleRequests`), `ResetsAreTrue` (`NoFalseAlarm`); `TransportIsSound` is the invariant they are
  parts of.
* The code compares one time stamp and looks at no identity. Why that is enough: take the client
  endpoint that a packet was made for, or that the packet it answers was made for (`Origins`). Whoever
  has that client's port afterwards, or that of its peer, has a greater stamp (`SuccessorsAreNewer`),
  so `IsOutdated` tells the two apart. Within one step stamps are equal; there the
  search for a port does not come back to one it has tried (`WasTried`), and no client has the
  port of a service, for a program serves before it connects (`HasServed`).

**DatabaseProof** (assumption `DatabaseAssumption`), for any fibers, keys, batches, records and parts:

* `NothingIsLost` (`Recovered`), `SnapshotsAreConsistent` (`SnapshotIsPast`), `LogStaysReadable`
  (`TornRecordIsLast`) and `DatabaseIsDurable` (`ImplementsDurableMap`, the refinement).
* The inductive invariant is `DatabaseInv`. Beyond the three properties it says that the maps
  in `history` are those the records of the log make (`Chained`), that replay has come to the map after
  `offset` records (`Replayed`), that a torn record belongs to the holder of the mutex or is
  left of a crash (`OneWriter`), and that nobody uses a database that is not open (`Quiet`).
* For the refinement, `FinishWrite` is the abstract `Commit`; `Lock`, `AppendPart`, the whole of
  `Open` and the wait of a read are stutters; reads read `Last(history)`, which `Recovered`
  says is the table.
* `TypeCorrect` (`TypeOK`, the table is a map whatever batches were applied), `LogIsTrue`
  (`LogTellsHistory`: the last batch that names a key decides what it holds) and `ScansAreOfThePast`
  (`ScanIsOfThePast`: what a scan has met, and what it has passed by, is one moment of the database).
  What a batch does is a fold, and what a scan has passed by is a stretch of keys. The provers have no
  induction over either, but the library has the fact behind it: a set of numbers that is not empty
  has a least element (`LeastElement`). A claim about the first i operations of a batch fails at a
  least i or at none, and one step of the fold refutes the least.

**FileSystemProof** (assumptions `FileSystemAssumption`, `CallAssumption`), for any fibers, paths, files and chunks:

* `TypeCorrect` (`TypeOK`), `DescriptorsAreStable` (`CallsKeepTheirFile`), `ReadersGetTheFile`
  (`ReadsOneFile`) and `DiskIsAStore` (`ImplementsFileStore`, the refinement).
* The inductive invariant `FileInv` adds that a file nothing leads to is empty (`FreshFiles`):
  that is why a new file starts empty. `ReadsOneFile` rests on three lemmas about byte strings:
  resizing keeps the beginning (`ResizedFact`), a read goes on where the bytes before it end
  (`PReadFact`), and strings that agree up to a position begin alike (`SameBeginning`).
* The refinement has a lemma for each call: it takes the store's step of that name and no other
  (`CreateStep`, `TruncateStep`, `UnlinkStep`, `OpenStep`, `CloseStep`, `BeginStep`, `FinishAppendStep`), reads
  are stutters (`BeginStep`, `FinishReadStep`), and a crash is the store's crash (`CrashStep`). They rest on
  `TypeOK` (no two paths share a file), on `FreshFiles` (what a new file holds) and on
  `CallsKeepTheirFile` (whose paths an append is for).

**RuntimeProof, memory** (assumption `MemoryAssumption`), for every arena, page and set of sizes:

* `BlocksNeverOverlap` (`BlocksAreApart`: blocks are disjoint, and the bump pointer stays behind the zero
  fill, which stays in the arena), `ProcessesStartClean` (`BlocksAreKept`), `CanaryIsIntact`
  (`HeadersAreKept`), `FreeListsAreSound` (`ListsAreStacks`).
* The inductive invariant `MemoryInv` is these four and two more: freed blocks are apart from each
  other and from live ones and lie in the used part (`FreedAreApart`), and between the bump pointer and
  the end of the filled pages there is nothing but zeroes (`ZeroAhead`). The ghost `freed` gives each
  list as a sequence, so that "the links form a stack" needs no recursion.

**KVStoreProof** (assumption `KVAssumption`), for every pool, set of calls, clocks and crashes:

* `QuorumsKeepAnswers` (`ReadsAreFresh`), `AcknowledgedIsDurable` (`AckedIsKept`), `ReplicasGoForward`
  (`StampsGrow`).
* The invariant `KVInv`: an answered Set was acknowledged by a quorum (`Answered`), who has acknowledged
  holds its stamp or a greater one (`AckedIsKept`), and a replica that acknowledged a Set before a Get
  began replies to the Get accordingly (`RepliesAreFresh`). `Decided` is the mutex: what a fiber has
  read is still there when it writes. `FinishGet` then needs that two quorums meet (`QuorumsMeet`).

**RuntimeProof, clocks** (assumption `ClockAssumption`), for every drift, start, offset and uncertainty of the crazy
time model, for all its hosts, sleeps and moments:

* `TrueTimeIsTrue` (`IntervalsTellTheOrder`), `MonotonicClocksGrow` (`MonotonicGrows`), `SleepsAreTrue`
  (`SleepIsAsLongAsAsked`).
* An interval given contains its moment (`IntervalsContainTheirMoment`), so two of them cannot be in the
  wrong order. A timer that was never held up is due where its host's clock put it, and was set in the
  present life of its process (`TimersArePlanned`): a launch resets the clock, and a crash drops the
  timers. The rest is what rounding down loses (`Quotient`, `SleepBounds`, `Slept`).

**JudgementProof** (assumptions `HistoryAssumption`, `CheckerAssumption`, and
`HistoriesAssumption`: what is given to the checker are sequences of calls, of which none ends before
it begins), for any clients, keys, values, limits and histories of any length:

* `RefusalsAreRight` (`RefusedIsNotLinearizable`), `AcceptancesAreRight` (`AcceptedIsLinearizable`),
  `PlacesKeepRealTime` (`PlacedInOrder`), `RightServicesPass` (`RightIsFoundRight`);
  `JudgementIsSound` is the invariant, `JudgementInv`.
* The search. `brute.hpp` permutes one array in place and undoes each swap on the way back; the proof
  carries, for each call of `Search` under way, the array as it was when that call began (`Arrays`,
  `Link`). At a level the calls behind the first n are placed: they have an order that takes the
  store to the state of the level (`Reached`). The others may be `Possible` to place from there on. If they
  are, then so they are beginning with a call that no other one precedes and whose answer fits
  (`FirstStep`), and the first such call is a candidate. When all candidates have been tried in vain
  (`Dead`) nothing is possible, and a refusal at the first level refutes every order of the history
  (`LinearizableIsPossible`). Calls that `Cleanup` drops change nothing and fit anywhere
  (`LostGetsDoNothing`, `CleanupKeeps`).
* The recorder. A ghost is not needed: the invariant says that there *are* executions, one for
  each request the service has done, in their order in time, which give every completed call its
  answer within its time (`RightSoFar`). At the end they are an order that explains the history
  (`ExecutionsLinearize`), lost calls that were never executed being left out.
* Two things the proof shows of the code. A lost call is first ignored and then executed
  (`brute.hpp:70-85`): no refusal rests on the first branch, for a lost call precedes no other, so one
  that nobody needs may as well be executed last; the branch costs time and changes no verdict. And a candidate is also compared with itself
  (`brute.hpp:57-64`), which is harmless only since no call ends before it begins.

**SimulationProof** (assumptions `SimulationAssumption`, `NowhereAssumption`, `ArgsAssumption`), for three to
five replicas, any number of requests and any command line:

* `VerdictHolds` (`VerdictIsEarned`), `AdversariesAreLegal` (`NobodyPanics`), `StoreRecovers`
  (`FaultsAreUndone`).
* `SimInv` says what ties the adversaries' programs to the state of the world: links are paused only while
  `NetAdversary` waits to heal them (`StarOnly`), so a star never meets another; a node is paused only if it
  is the one `NodeAdversary` comes back for (`VictimOnly`, `Running`); crashes so far and crashes to come
  are within the bound drawn at the start (`Running`), since a try on a dead node costs as well. With no star
  and no freeze, what does not run has crashed, and of n nodes n minus the bound are a majority
  (`NodesFact`). That there are n different nodes rests on their names (`Named`).
* `RunnerInv` says at each stage of the runner how many simulations have passed.

**Only model-checked.** Liveness (`FrameArrives`, `TaskGetsItsTurn`, `CrashIsNoticed`, `WriteEnds`,
`CallGoesOn`, `CompletesWhenCalm`): fairness and ENABLED are not in the prover's reach. Every invariant
and every action property that a passing run checks is a theorem. Facts about folds, recursive functions and
searches are proved by their least counterexample, never by an assumption.

## 5. Findings

`world_broken_net`: `Link::Resume` (`network/link.cpp:59`) puts back frames with `time < now`.
A frame with `time = now` is left to its event; but when the network has already skipped
that event while the link was paused (`network/network.cpp:68-70`), the frame has none, and the
next event on this link finds a frame with another time: the assertion
`WHEELS_VERIFY(link->NextFrameTime() == event.time, "Broken net")` (`network/network.cpp:73`)
fails. As the network is the last actor of a moment, this takes an adversary that runs once more at
the same time *after* the network: one that is woken by a message. Adversaries on timers
cannot do it, which is `NetIsNeverBroken`.

`kv_no_write_back`: the example store is not linearizable, though its own test fails a run whose history
is not (`src/examples/kv/main.cpp:291`). A Get does not write back what it has read
(`node/main.cpp:152`): two Gets during a Set can see the new value and then the old one, whatever the
clocks show. What remains true is `ReadsAreFresh`, in terms of stamps.

Noticed while reading, with no model behind them: `Server::ListFiles` (`server/server.cpp:130`) tests its
iterator without advancing it; a `NetTransportSocket` callback keeps a raw pointer to a handler that
an earlier callback of the same pause may have destroyed (`network/transport.cpp:199`), the lifetime
being up to the RPC library outside this repository; a Set of the example store that begins after another
was answered can get the smaller stamp, be dropped by `LocalWrite` and acknowledged, which the comment at
`src/examples/kv/node/main.cpp:158` warns of; a frame left as above is delivered only when its
link is resumed again later. An outdated reset is answered by a reset (`network/transport.cpp:169`), so two
endpoints newer than it send it to and fro while both live; a client socket may be given the port the
program serves at next, and `Serve` panics (`network/transport.cpp:74`): the model takes programs
to serve before they connect. The comment on the crazy model's drift (`time_model/catalog/crazy.cpp:13`)
says `[-75, +75]`, while one clock in three gets 200 to 299; `GlobalRandomNumber(lo, hi)` never gives `hi`, and
panics when both are equal. `PauseIncomingLinks` pauses both directions, and `MakeStar` pauses the links of
the leaves to themselves too (`fault/net/star.cpp:14`). With `--seed` the runner ignores `--det` and `--sims`
(`test/main.cpp:51`).

## 6. Not modelled

* Logs, traces, printers, digests, configuration, identifiers: output and look-up without interleaving. The
  determinism test compares digests; that they agree is what Memory shows of the heap, and is left
  open in `TestRunner`.
* Switching of fiber stacks, RPC, serialization and the log format: libraries outside the repository, taken by
  what the code uses of them.
* `Isolate` and `RandomSplit` of `fault/net`: sequences of the modelled faults that no program here uses.
* The other examples: they run on the modelled components, print, and keep nothing of their own.
* The choice of the heap (`process/memory.hpp`, `new/`) as control passes between the world and its servers: a
  stack discipline of constructors and destructors.
* Hazards with no property: the three of `network/transport.cpp` named in section 5 (lines 74, 169, 199). The
  first two need programs that do not follow the conventions of the RPC library; the third is about the life
  of its objects.

`PROJECT.json` has one entry for each part, with the reason.

## 7. Plan

In the order of importance, each with its hazards in `PROJECT.json`:

1. *Done:* World, Network, Server; Transport; Database; their runs and the proofs above.
2. *Done:* Memory; KVStore; Semantics, LinChecker, History and their composition; FileSystem; the proofs
   for Memory, KVStore and FileSystem.
3. *Done:* Clocks and time models; iterators over snapshots; the simulation with its adversaries and the
   runner; the proofs for Clocks and Simulation.
4. *Done:* the proofs for Transport, for scans and the log, for frames and pauses, and for the recorder and
   the linearizability checker.
5. The choice of the heap as control passes between the world and its servers.
