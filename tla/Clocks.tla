------------------------------- MODULE Clocks -------------------------------
(***************************************************************************)
(* clocks/, server/runtime/time.hpp and true_time.hpp: how programs tell   *)
(* the time.  The world has one time; a host has a monotonic clock that    *)
(* drifts and starts anew with every process, a wall clock that is off and *)
(* that an adversary may adjust, and TrueTime.  Sleeps and timeouts run on *)
(* the monotonic clock and are turned into world time when they are set.   *)
(***************************************************************************)
EXTENDS TimeModels, FiniteSets

CONSTANTS
  Host,
  Adversary,    \* the hosts whose names begin with "Adversary"
  StartTime,    \* GlobalStartTime of the time model
  Drifts,       \* what the time model of the other hosts may answer
  Starts,
  Offsets,
  Uncertainties,
  Delay         \* how long programs sleep

CONSTANTS       \* bounds of a check
  MaxTime,
  MaxLife,
  MaxTimers,    \* timers a host may have at a time
  MaxIntervals  \* calls of TrueTime

ASSUME ClockAssumption ==
  /\ Adversary \subseteq Host
  /\ StartTime \in CrazyStartTime
  /\ Drifts \subseteq CrazyClockDrift
  /\ Starts \subseteq CrazyMonotonicStart
  /\ Offsets \subseteq CrazyWallClockOffset
  /\ Uncertainties \subseteq CrazyUncertainty
  /\ Delay \subseteq Nat
  /\ MaxTime \in Nat /\ MaxLife \in Nat /\ MaxTimers \in Nat /\ MaxIntervals \in Nat

VARIABLES
  now,          \* GlobalNow
  state,        \* Server::state_
  life,         \* launches of a host
  drift,        \* MonotonicClock::drift_
  init,         \* MonotonicClock::init_
  last_reset,   \* MonotonicClock::last_reset_
  offset,       \* WallClock::offset_
  timers,       \* the tasks that end a sleep
  intervals     \* the intervals TrueTime has given

clockVars == <<now, state, life, drift, init, last_reset, offset, timers, intervals>>
-----------------------------------------------------------------------------
(* World::MakeServerTimeModel *)

ClockDrift(h) == IF h \in Adversary THEN AdversaryClockDrift ELSE Drifts

MonotonicStart(h) == IF h \in Adversary THEN AdversaryMonotonicStart ELSE Starts

WallClockOffset(h) == IF h \in Adversary THEN AdversaryWallClockOffset ELSE Offsets

Uncertainty(h) == IF h \in Adversary THEN AdversaryUncertainty ELSE Uncertainties

-----------------------------------------------------------------------------
(* Drift: world time to the host's time and back *)

Elapsed(d, real) == (real * (100 + d)) \div 100

\* Slip: the two rates are mixed up.
SleepAtWorldRate(d, user) ==
  IF user = 0 THEN 0 ELSE LET real == (user * (100 + d)) \div 100
                          IN  IF real < 1 THEN 1 ELSE real

\* A sleep that is not empty lasts for a tick of the world at least.
SleepOrTimeout(d, user) ==
  IF user = 0 THEN 0 ELSE LET real == (user * 100) \div (100 + d)
                          IN  IF real < 1 THEN 1 ELSE real

\* MonotonicClock::Now, if it were read at time t
MonotonicAt(h, t) == Elapsed(drift[h], t - last_reset[h]) + init[h]

MonotonicNow(h) == MonotonicAt(h, now)

\* WallClock::Now
WallNow(h) == now + offset[h]

\* Slip: unsigned numbers wrap around, here at 2^10.
IntervalWrapped(t, u) == [at |-> t, earliest |-> (t - u) % 1024, latest |-> t + u]

\* TrueTimeService::Now at time t under uncertainty u
Interval(t, u) ==
  [at |-> t, earliest |-> IF t > u THEN t - u ELSE 0, latest |-> t + u]
-----------------------------------------------------------------------------

\* Server::Start of every host
ClockInit ==
  /\ now = StartTime
  /\ state = [h \in Host |-> "Running"]
  /\ life = [h \in Host |-> 1]
  /\ drift \in {f \in [Host -> Drifts \cup AdversaryClockDrift] :
                  \A h \in Host : f[h] \in ClockDrift(h)}
  /\ init \in {f \in [Host -> Starts \cup AdversaryMonotonicStart] :
                 \A h \in Host : f[h] \in MonotonicStart(h)}
  /\ last_reset = [h \in Host |-> now]
  /\ offset \in {f \in [Host -> Offsets \cup AdversaryWallClockOffset] :
                   \A h \in Host : f[h] \in WallClockOffset(h)}
  /\ timers = {}
  /\ intervals = {}

Of(h) == {x \in timers : x.host = h}

\* The event loop turns to a task before it lets time pass it by.
Tick ==
  /\ now < MaxTime
  /\ \A x \in timers : state[x.host] = "Running" => now < x.due
  /\ now' = now + 1
  /\ UNCHANGED <<state, life, drift, init, last_reset, offset, timers, intervals>>

\* TimeService::AfterJiffies.  The reading is that of the host's clock; held
\* tells whether the task has been overtaken by a pause.
AfterJiffies(h, d) ==
  /\ state[h] = "Running"
  /\ Cardinality(Of(h)) < MaxTimers
  /\ timers' = timers \cup
       {[host |-> h, delay |-> d, reading |-> MonotonicNow(h),
         due |-> now + SleepOrTimeout(drift[h], d), held |-> FALSE]}
  /\ UNCHANGED <<now, state, life, drift, init, last_reset, offset, intervals>>

\* The callback of AfterJiffies: the promise is set, the sleeper goes on.
WakeUp(x) ==
  /\ state[x.host] = "Running"
  /\ x.due = now
  /\ timers' = timers \ {x}
  /\ UNCHANGED <<now, state, life, drift, init, last_reset, offset, intervals>>

TrueTimeNow(h) ==
  /\ state[h] = "Running"
  /\ Cardinality(intervals) < MaxIntervals
  /\ \E u \in Uncertainty(h) : intervals' = intervals \cup {Interval(now, u)}
  /\ UNCHANGED <<now, state, life, drift, init, last_reset, offset, timers>>

Pause(h) ==
  /\ state[h] = "Running"
  /\ state' = [state EXCEPT ![h] = "Paused"]
  /\ UNCHANGED <<now, life, drift, init, last_reset, offset, timers, intervals>>

\* Slip: the clock starts anew with the process that goes on.
ResumeResetting(h) ==
  /\ state[h] = "Paused"
  /\ state' = [state EXCEPT ![h] = "Running"]
  /\ timers' = {IF x.host = h /\ x.due < now THEN [x EXCEPT !.due = now, !.held = TRUE]
                                             ELSE x : x \in timers}
  /\ \E t \in MonotonicStart(h) : init' = [init EXCEPT ![h] = t]
  /\ last_reset' = [last_reset EXCEPT ![h] = now]
  /\ UNCHANGED <<now, life, drift, offset, intervals>>

\* Server::Resume, with Scheduler::Resume for the tasks that are late
Resume(h) ==
  /\ state[h] = "Paused"
  /\ state' = [state EXCEPT ![h] = "Running"]
  /\ timers' = {IF x.host = h /\ x.due < now THEN [x EXCEPT !.due = now, !.held = TRUE]
                                             ELSE x : x \in timers}
  /\ UNCHANGED <<now, life, drift, init, last_reset, offset, intervals>>

Crash(h) ==
  /\ state[h] # "Crashed"
  /\ state' = [state EXCEPT ![h] = "Crashed"]
  /\ timers' = timers \ Of(h)
  /\ UNCHANGED <<now, life, drift, init, last_reset, offset, intervals>>

\* Server::Launch resets the monotonic clock; its drift is the machine's.
Launch(h) ==
  /\ state[h] = "Crashed"
  /\ life[h] < MaxLife
  /\ state' = [state EXCEPT ![h] = "Running"]
  /\ life' = [life EXCEPT ![h] = @ + 1]
  /\ \E t \in MonotonicStart(h) : init' = [init EXCEPT ![h] = t]
  /\ last_reset' = [last_reset EXCEPT ![h] = now]
  /\ UNCHANGED <<now, drift, offset, timers, intervals>>

\* Server::AdjustWallClock, of a server in whatever state
AdjustWallClock(h) ==
  /\ \E o \in WallClockOffset(h) : offset' = [offset EXCEPT ![h] = o]
  /\ UNCHANGED <<now, state, life, drift, init, last_reset, timers, intervals>>

ClockNext ==
  \/ Tick
  \/ \E h \in Host, d \in Delay : AfterJiffies(h, d)
  \/ \E x \in timers : WakeUp(x)
  \/ \E h \in Host : TrueTimeNow(h)
  \/ \E h \in Host \ Adversary :
       Pause(h) \/ Resume(h) \/ Crash(h) \/ Launch(h) \/ AdjustWallClock(h)

ClockSpec == ClockInit /\ [][ClockNext]_clockVars
-----------------------------------------------------------------------------
(* Properties *)

Timer == [host : Host, delay : Nat, reading : Nat, due : Nat, held : BOOLEAN]

ClockTypeOK ==
  /\ now \in Nat
  /\ state \in [Host -> {"Running", "Paused", "Crashed"}]
  /\ life \in [Host -> Nat]
  /\ drift \in [Host -> CrazyClockDrift \cup AdversaryClockDrift]
  /\ init \in [Host -> Nat]
  /\ last_reset \in [Host -> Nat]
  /\ \A h \in Host : last_reset[h] <= now
  /\ offset \in [Host -> Nat]
  /\ timers \subseteq Timer
  /\ intervals \subseteq [at : 0 .. now, earliest : Nat, latest : Nat]

\* A sleep that no pause delays ends by the sleeper's own clock no more than
\* one tick of the world too early, and too late only if one tick of the world
\* is longer than the sleep (Drift::SleepOrTimeout).
SleepIsAsLongAsAsked ==
  \A x \in timers : now = x.due /\ ~ x.held /\ state[x.host] = "Running" =>
    LET slept == MonotonicNow(x.host) - x.reading
        rate == 100 + drift[x.host]
    IN  /\ 100 * (x.delay - slept) < rate + 100
        /\ slept > x.delay => 100 * slept < rate + 100

\* As long as a process lives its monotonic clock does not go back, whatever
\* pauses it and whoever adjusts the wall clock (MonotonicClock, WallClock).
MonotonicGrows ==
  [][\A h \in Host : life'[h] = life[h] => MonotonicNow(h)' >= MonotonicNow(h)]_clockVars

\* Whatever TrueTime answers next, to any host and under any uncertainty, does
\* not contradict an interval given before: it never puts this moment before
\* that one, and behind it only if time has passed (TrueTimeService::Now).
IntervalsTellTheOrder ==
  \A i \in intervals, h \in Host : \A u \in Uncertainty(h) :
    LET j == Interval(now, u)
    IN  /\ j.latest >= i.earliest
        /\ j.earliest > i.latest => now > i.at
=============================================================================
