---------------------------- MODULE RuntimeProof ----------------------------
(***************************************************************************)
(* Proofs about what a process is given to run on: the clocks of its       *)
(* machine (module Clocks) and its memory (module Memory).                 *)
(*                                                                         *)
(* Clocks: TrueTime tells the order of any two moments, a monotonic clock  *)
(* never goes back and a sleep is as long as was asked, for all drifts,    *)
(* offsets and delays the time models can answer.                          *)
(*                                                                         *)
(* Memory: the invariants hold for arenas, pages and block sizes of any    *)
(* measure; one lemma for each action shows that it keeps MemoryInv.       *)
(***************************************************************************)
EXTENDS Clocks, Memory, SequenceTheorems, TLAPS

(* Clocks *)

(* What dividing leaves: the only facts about \div the proofs rest on. *)
LEMMA Quotient ==
  ASSUME NEW n \in Nat, NEW r \in Nat, r > 0
  PROVE  /\ n \div r \in Nat
         /\ r * (n \div r) <= n
         /\ n < r * (n \div r) + r
BY Z3

\* Products grow with their factors.
LEMMA ProductGrows ==
  ASSUME NEW a \in Nat, NEW b \in Nat, NEW r \in Nat, a <= b
  PROVE  a * r <= b * r /\ a * r \in Nat
BY Z3

\* No clock stands still or goes backwards (CrazyTimeModel::ClockDrift).
LEMMA RateIsPositive ==
  ASSUME NEW d \in CrazyClockDrift \cup AdversaryClockDrift
  PROVE  d \in Int /\ 100 + d \in Nat /\ 100 + d > 0
BY DEF CrazyClockDrift, AdversaryClockDrift

\* A host that has let more time pass reads no less (Drift::Elapsed).
LEMMA ElapsedGrows ==
  ASSUME NEW d \in CrazyClockDrift \cup AdversaryClockDrift,
         NEW a \in Nat, NEW b \in Nat, a <= b
  PROVE  Elapsed(d, a) \in Nat /\ Elapsed(d, b) \in Nat /\ Elapsed(d, a) <= Elapsed(d, b)
<1> DEFINE x == a * (100 + d)  y == b * (100 + d)
<1>1. x \in Nat /\ y \in Nat /\ x <= y
  BY ProductGrows, RateIsPositive
<1> HIDE DEF x, y
<1>2. x \div 100 \in Nat /\ y \div 100 \in Nat /\ x \div 100 <= y \div 100
  BY <1>1, Quotient
<1> QED
  BY <1>2 DEF Elapsed, x, y

\* A sleep in world time: as long as the host's clock takes, rounded down, or
\* a single tick.
LEMMA SleepBounds ==
  ASSUME NEW d \in CrazyClockDrift \cup AdversaryClockDrift, NEW u \in Nat
  PROVE  /\ SleepOrTimeout(d, u) \in Nat
         /\ 100 * u < SleepOrTimeout(d, u) * (100 + d) + (100 + d)
         /\ \/ SleepOrTimeout(d, u) * (100 + d) <= 100 * u
            \/ SleepOrTimeout(d, u) = 1
<1> DEFINE r == 100 + d  q == (u * 100) \div r
<1>1. r \in Nat /\ r > 0
  BY RateIsPositive
<1> HIDE DEF r
<1>a. u * 100 \in Nat
  OBVIOUS
<1>2. q \in Nat /\ r * q <= u * 100 /\ u * 100 < r * q + r
  BY <1>1, <1>a, Quotient
<1> HIDE DEF q
<1>3. q * r = r * q /\ 100 * u = u * 100 /\ 1 * r = r /\ 0 * r = 0
  BY <1>1, <1>2, Z3
<1>4. CASE u = 0
  <2>1. SleepOrTimeout(d, u) = 0
    BY <1>4 DEF SleepOrTimeout
  <2> QED
    BY <2>1, <1>1, <1>3, <1>4 DEF r
<1>5. CASE u # 0 /\ q < 1
  <2>1. SleepOrTimeout(d, u) = 1
    BY <1>5 DEF SleepOrTimeout, q, r
  <2>2. q = 0
    BY <1>2, <1>5
  <2>3. r * q = 0
    BY <1>1, <2>2, Z3
  <2> QED
    BY <2>1, <2>3, <1>1, <1>2, <1>3 DEF r
<1>6. CASE u # 0 /\ ~ (q < 1)
  <2>1. SleepOrTimeout(d, u) = q
    BY <1>6 DEF SleepOrTimeout, q, r
  <2> QED
    BY <2>1, <1>1, <1>2, <1>3 DEF r
<1> QED
  BY <1>4, <1>5, <1>6

-----------------------------------------------------------------------------
(* Types *)

\* What a clock reads after its reset is a number (MonotonicClock::Now).
LEMMA ReadingIsNat ==
  ASSUME ClockTypeOK, NEW h \in Host, NEW t \in Nat, last_reset[h] <= t
  PROVE  MonotonicAt(h, t) \in Nat
<1>1. t - last_reset[h] \in Nat /\ drift[h] \in CrazyClockDrift \cup AdversaryClockDrift
  BY DEF ClockTypeOK
<1> QED
  BY <1>1, ElapsedGrows DEF MonotonicAt, ClockTypeOK

\* Types, and clocks are reset in the past (Server::Launch).
LEMMA TypeHolds == ClockSpec => []ClockTypeOK
<1> USE ClockAssumption
<1>1. ClockInit => ClockTypeOK
  <2> SUFFICES ASSUME ClockInit PROVE ClockTypeOK
    OBVIOUS
  <2>1. now \in Nat /\ last_reset \in [Host -> Nat] /\ \A h \in Host : last_reset[h] <= now
    BY DEF ClockInit, CrazyStartTime
  <2>2. drift \in [Host -> CrazyClockDrift \cup AdversaryClockDrift]
    BY DEF ClockInit
  <2>3. init \in [Host -> Nat]
    <3>1. Starts \cup AdversaryMonotonicStart \subseteq Nat
      BY DEF CrazyMonotonicStart, AdversaryMonotonicStart
    <3> QED
      BY <3>1 DEF ClockInit
  <2>4. offset \in [Host -> Nat]
    <3>1. Offsets \cup AdversaryWallClockOffset \subseteq Nat
      BY DEF CrazyWallClockOffset, AdversaryWallClockOffset
    <3> QED
      BY <3>1 DEF ClockInit
  <2> QED
    BY <2>1, <2>2, <2>3, <2>4 DEF ClockInit, ClockTypeOK
<1>2. ClockTypeOK /\ [ClockNext]_clockVars => ClockTypeOK'
  <2> SUFFICES ASSUME ClockTypeOK, [ClockNext]_clockVars PROVE ClockTypeOK'
    OBVIOUS
  <2> USE DEF ClockTypeOK
  <2>1. CASE Tick
    BY <2>1 DEF Tick
  <2>2. ASSUME NEW h \in Host, NEW d \in Delay, AfterJiffies(h, d) PROVE ClockTypeOK'
    <3>1. MonotonicNow(h) \in Nat
      BY ReadingIsNat DEF MonotonicNow
    <3>2. SleepOrTimeout(drift[h], d) \in Nat
      BY SleepBounds
    <3>3. [host |-> h, delay |-> d, reading |-> MonotonicNow(h),
           due |-> now + SleepOrTimeout(drift[h], d), held |-> FALSE] \in Timer
      BY <3>1, <3>2 DEF Timer
    <3> QED
      BY <3>3, <2>2 DEF AfterJiffies
  <2>3. ASSUME NEW x \in timers, WakeUp(x) PROVE ClockTypeOK'
    BY <2>3 DEF WakeUp
  <2>4. ASSUME NEW h \in Host, TrueTimeNow(h) PROVE ClockTypeOK'
    <3>1. Uncertainty(h) \subseteq Nat
      BY DEF Uncertainty, CrazyUncertainty, AdversaryUncertainty
    <3>2. \A u \in Nat : Interval(now, u) \in [at : 0 .. now, earliest : Nat, latest : Nat]
      BY DEF Interval
    <3> QED
      BY <3>1, <3>2, <2>4 DEF TrueTimeNow
  <2>5. ASSUME NEW h \in Host, Pause(h) PROVE ClockTypeOK'
    BY <2>5 DEF Pause
  <2>6. ASSUME NEW h \in Host, Resume(h) PROVE ClockTypeOK'
    <3>1. \A x \in timers : [x EXCEPT !.due = now, !.held = TRUE] \in Timer
      BY DEF Timer
    <3> QED
      BY <3>1, <2>6 DEF Resume
  <2>7. ASSUME NEW h \in Host, Crash(h) PROVE ClockTypeOK'
    BY <2>7 DEF Crash
  <2>8. ASSUME NEW h \in Host, Launch(h) PROVE ClockTypeOK'
    <3>1. MonotonicStart(h) \subseteq Nat
      BY DEF MonotonicStart, CrazyMonotonicStart, AdversaryMonotonicStart
    <3> QED
      BY <3>1, <2>8 DEF Launch
  <2>9. ASSUME NEW h \in Host, AdjustWallClock(h) PROVE ClockTypeOK'
    <3>1. WallClockOffset(h) \subseteq Nat
      BY DEF WallClockOffset, CrazyWallClockOffset, AdversaryWallClockOffset
    <3> QED
      BY <3>1, <2>9 DEF AdjustWallClock
  <2>10. CASE UNCHANGED clockVars
    BY <2>10 DEF clockVars
  <2> QED
    BY <2>1, <2>2, <2>3, <2>4, <2>5, <2>6, <2>7, <2>8, <2>9, <2>10 DEF ClockNext
<1> QED
  BY <1>1, <1>2, PTL DEF ClockSpec

-----------------------------------------------------------------------------
(* TrueTime *)

\* Every interval contains the moment of its call.
IntervalsContainTheirMoment ==
  \A i \in intervals : i.at <= now /\ i.earliest <= i.at /\ i.at <= i.latest

\* So it stays while the world goes on (TrueTimeService::Now).
LEMMA MomentsContained == ClockSpec => []IntervalsContainTheirMoment
<1>1. ClockInit => IntervalsContainTheirMoment
  BY DEF ClockInit, IntervalsContainTheirMoment
<1>2. ClockTypeOK /\ IntervalsContainTheirMoment /\ [ClockNext]_clockVars => IntervalsContainTheirMoment'
  <2> SUFFICES ASSUME ClockTypeOK, IntervalsContainTheirMoment, [ClockNext]_clockVars
               PROVE  IntervalsContainTheirMoment'
    OBVIOUS
  <2> USE DEF IntervalsContainTheirMoment
  <2>1. CASE Tick
    BY <2>1 DEF Tick, ClockTypeOK
  <2>2. ASSUME NEW h \in Host, TrueTimeNow(h) PROVE IntervalsContainTheirMoment'
    <3>1. Uncertainty(h) \subseteq Nat
      BY ClockAssumption DEF Uncertainty, CrazyUncertainty, AdversaryUncertainty
    <3>2. PICK u \in Nat : intervals' = intervals \cup {Interval(now, u)}
      BY <2>2, <3>1 DEF TrueTimeNow
    <3> QED
      BY <2>2, <3>2 DEF TrueTimeNow, Interval, ClockTypeOK
  <2>3. CASE UNCHANGED <<now, intervals>>
    BY <2>3
  <2> QED
    BY <2>1, <2>2, <2>3 DEF ClockNext, clockVars, AfterJiffies, WakeUp, Pause, Resume, Crash,
                            Launch, AdjustWallClock
<1> QED
  BY <1>1, <1>2, TypeHolds, PTL DEF ClockSpec

\* Intervals given to any hosts under any uncertainty never tell the wrong
\* order of two calls (TrueTimeService::Now).
THEOREM TrueTimeIsTrue == ClockSpec => []IntervalsTellTheOrder
<1>1. ClockTypeOK /\ IntervalsContainTheirMoment => IntervalsTellTheOrder
  <2> SUFFICES ASSUME ClockTypeOK, IntervalsContainTheirMoment,
                      NEW i \in intervals, NEW h \in Host, NEW u \in Uncertainty(h)
               PROVE  /\ Interval(now, u).latest >= i.earliest
                      /\ Interval(now, u).earliest > i.latest => now > i.at
    BY DEF IntervalsTellTheOrder
  <2>1. u \in Nat
    BY ClockAssumption DEF Uncertainty, CrazyUncertainty, AdversaryUncertainty
  <2>2. /\ i.at \in Nat /\ i.earliest \in Nat /\ i.latest \in Nat /\ now \in Nat
        /\ i.at <= now /\ i.earliest <= i.at /\ i.at <= i.latest
    BY DEF ClockTypeOK, IntervalsContainTheirMoment
  <2>3. Interval(now, u).latest = now + u /\ Interval(now, u).earliest <= now
    BY <2>1, <2>2 DEF Interval
  <2>4. Interval(now, u).earliest \in Nat
    BY <2>1, <2>2 DEF Interval
  <2> QED
    BY <2>1, <2>2, <2>3, <2>4
<1> QED
  BY <1>1, TypeHolds, MomentsContained, PTL

-----------------------------------------------------------------------------
(* The monotonic clock *)

\* The clock of a process never goes back while it lives, whatever its drift,
\* its pauses and the adjustments of the wall clock (MonotonicClock::Now).
THEOREM MonotonicClocksGrow == ClockSpec => MonotonicGrows
<1>1. ClockTypeOK /\ [ClockNext]_clockVars =>
        [\A h \in Host : life'[h] = life[h] => MonotonicNow(h)' >= MonotonicNow(h)]_clockVars
  <2> SUFFICES ASSUME ClockTypeOK, [ClockNext]_clockVars, NEW h \in Host, life'[h] = life[h]
               PROVE  MonotonicNow(h)' >= MonotonicNow(h)
    OBVIOUS
  <2>1. MonotonicNow(h) \in Nat
    BY ReadingIsNat DEF MonotonicNow, ClockTypeOK
  <2>2. CASE Tick
    <3> DEFINE past == now - last_reset[h]
    <3>1. past \in Nat /\ now' - last_reset'[h] = past + 1 /\ init[h] \in Nat
      BY <2>2 DEF Tick, ClockTypeOK
    <3>2. /\ Elapsed(drift[h], past) \in Nat /\ Elapsed(drift[h], past + 1) \in Nat
          /\ Elapsed(drift[h], past) <= Elapsed(drift[h], past + 1)
      <4> HIDE DEF past
      <4> QED
        BY <3>1, ElapsedGrows DEF ClockTypeOK
    <3>3. MonotonicNow(h) = Elapsed(drift[h], past) + init[h]
      BY DEF MonotonicNow, MonotonicAt
    <3>4. MonotonicNow(h)' = Elapsed(drift[h], past + 1) + init[h]
      BY <2>2, <3>1 DEF Tick, MonotonicNow, MonotonicAt
    <3> HIDE DEF past
    <3> QED
      BY <3>1, <3>2, <3>3, <3>4
  <2>3. CASE /\ UNCHANGED <<now, drift>>
             /\ init'[h] = init[h] /\ last_reset'[h] = last_reset[h]
    BY <2>1, <2>3 DEF MonotonicNow, MonotonicAt
  <2>4. ASSUME NEW g \in Host, Launch(g)
        PROVE  /\ UNCHANGED <<now, drift>>
               /\ init'[h] = init[h] /\ last_reset'[h] = last_reset[h]
    <3>1. g # h
      BY <2>4 DEF Launch, ClockTypeOK
    <3> QED
      BY <2>4, <3>1 DEF Launch, ClockTypeOK
  <2> QED
    BY <2>2, <2>3, <2>4 DEF ClockNext, clockVars, AfterJiffies, WakeUp, TrueTimeNow, Pause, Resume,
                            Crash, AdjustWallClock
<1> QED
  BY <1>1, TypeHolds, PTL DEF ClockSpec, MonotonicGrows

-----------------------------------------------------------------------------
(* Sleeps *)

\* What a clock of rate r goes in n ticks of the world, after a of them.
LEMMA Slept ==
  ASSUME NEW d \in CrazyClockDrift \cup AdversaryClockDrift,
         NEW a \in Nat, NEW n \in Nat
  PROVE  LET slept == Elapsed(d, a + n) - Elapsed(d, a)
         IN  /\ slept \in Int
             /\ n * (100 + d) < 100 * slept + 100
             /\ 100 * slept < n * (100 + d) + 100
<1> DEFINE r == 100 + d  x == a * r  y == n * r
<1>1. r \in Nat
  BY RateIsPositive
<1> HIDE DEF r
<1>2. x \in Nat /\ y \in Nat
  BY <1>1, ProductGrows
<1>3. (a + n) * r = x + y
  BY <1>1, Z3
<1> HIDE DEF x, y
<1>4. /\ x \div 100 \in Nat /\ 100 * (x \div 100) <= x /\ x < 100 * (x \div 100) + 100
      /\ (x + y) \div 100 \in Nat /\ 100 * ((x + y) \div 100) <= x + y
      /\ x + y < 100 * ((x + y) \div 100) + 100
  BY <1>2, Quotient
<1>5. /\ Elapsed(d, a) = x \div 100
      /\ Elapsed(d, a + n) = (x + y) \div 100
  BY <1>3 DEF Elapsed, x, r
<1> QED
  BY <1>2, <1>4, <1>5 DEF y, r

\* The task of a sleep that was never held up by a pause is where the clock
\* put it, and its process lives.
TimersArePlanned ==
  \A x \in timers :
    /\ state[x.host] # "Crashed"
    /\ ~ x.held =>
         \E s \in Nat : /\ last_reset[x.host] <= s
                        /\ x.reading = MonotonicAt(x.host, s)
                        /\ x.due = s + SleepOrTimeout(drift[x.host], x.delay)

\* That holds from AfterJiffies to WakeUp.
LEMMA Planned == ClockSpec => []TimersArePlanned
<1>1. ClockInit => TimersArePlanned
  BY DEF ClockInit, TimersArePlanned
<1>2. ClockTypeOK /\ TimersArePlanned /\ [ClockNext]_clockVars => TimersArePlanned'
  <2> SUFFICES ASSUME ClockTypeOK, TimersArePlanned, [ClockNext]_clockVars PROVE TimersArePlanned'
    OBVIOUS
  <2>1. \A x \in timers : x.host \in Host /\ x.held \in BOOLEAN
    BY DEF ClockTypeOK, Timer
  <2>2. CASE UNCHANGED <<state, drift, init, last_reset>> /\ timers' \subseteq timers
    BY <2>2 DEF TimersArePlanned, MonotonicAt
  <2>3. ASSUME NEW h \in Host, NEW d \in Delay, AfterJiffies(h, d)
        PROVE  TimersArePlanned'
    <3> DEFINE new == [host |-> h, delay |-> d, reading |-> MonotonicNow(h),
                       due |-> now + SleepOrTimeout(drift[h], d), held |-> FALSE]
    <3>1. timers' = timers \cup {new} /\ UNCHANGED <<state, drift, init, last_reset>>
      BY <2>3 DEF AfterJiffies
    <3>2. /\ state[h] # "Crashed" /\ now \in Nat /\ last_reset[h] <= now
          /\ new.reading = MonotonicAt(h, now)
          /\ new.due = now + SleepOrTimeout(drift[h], new.delay)
      BY <2>3 DEF AfterJiffies, ClockTypeOK, MonotonicNow
    <3>3. new.host = h
      OBVIOUS
    <3> HIDE DEF new
    <3> QED
      BY <3>1, <3>2, <3>3 DEF TimersArePlanned, MonotonicAt
  <2>4. ASSUME NEW h \in Host, Pause(h) PROVE TimersArePlanned'
    BY <2>4, <2>1 DEF Pause, TimersArePlanned, MonotonicAt, ClockTypeOK
  <2>5. ASSUME NEW h \in Host, Resume(h) PROVE TimersArePlanned'
    <3>1. UNCHANGED <<drift, init, last_reset>>
      BY <2>5 DEF Resume
    <3>2. \A g \in Host : state[g] # "Crashed" => state'[g] # "Crashed"
      BY <2>5 DEF Resume, ClockTypeOK
    <3>3. \A y \in timers' : y \in timers \/ (\E x \in timers : y.host = x.host /\ y.held)
      <4>1. \A x \in timers :
              LET y == [x EXCEPT !.due = now, !.held = TRUE] IN y.host = x.host /\ y.held
        BY DEF ClockTypeOK, Timer
      <4> QED
        BY <4>1, <2>5 DEF Resume
    <3> QED
      BY <3>1, <3>2, <3>3, <2>1 DEF TimersArePlanned, MonotonicAt
  <2>6. ASSUME NEW h \in Host, Crash(h) PROVE TimersArePlanned'
    BY <2>6, <2>1 DEF Crash, Of, TimersArePlanned, MonotonicAt, ClockTypeOK
  <2>7. ASSUME NEW h \in Host, Launch(h) PROVE TimersArePlanned'
    <3>1. \A x \in timers : x.host # h
      BY <2>7 DEF Launch, TimersArePlanned
    <3>2. \A g \in Host \ {h} : /\ state'[g] = state[g] /\ init'[g] = init[g]
                                /\ last_reset'[g] = last_reset[g]
      BY <2>7 DEF Launch, ClockTypeOK
    <3> QED
      BY <2>7, <3>1, <3>2, <2>1 DEF Launch, TimersArePlanned, MonotonicAt
  <2> QED
    BY <2>2, <2>3, <2>4, <2>5, <2>6, <2>7
       DEF ClockNext, clockVars, Tick, WakeUp, TrueTimeNow, AdjustWallClock
<1> QED
  BY <1>1, <1>2, TypeHolds, PTL DEF ClockSpec

\* For every drift, every sleep and every moment: a sleep is short by less than
\* one tick of the world on the sleeper's clock, rounding included, and long by
\* less than that (Drift::SleepOrTimeout, TimeService::AfterJiffies).
THEOREM SleepsAreTrue == ClockSpec => []SleepIsAsLongAsAsked
<1>1. ClockTypeOK /\ TimersArePlanned => SleepIsAsLongAsAsked
  <2> SUFFICES ASSUME ClockTypeOK, TimersArePlanned, NEW x \in timers, now = x.due, ~ x.held
               PROVE  LET slept == MonotonicNow(x.host) - x.reading
                          rate == 100 + drift[x.host]
                      IN  /\ 100 * (x.delay - slept) < rate + 100
                          /\ slept > x.delay => 100 * slept < rate + 100
    BY DEF SleepIsAsLongAsAsked
  <2> DEFINE h == x.host  u == x.delay  r == 100 + drift[h]  n == SleepOrTimeout(drift[h], u)
             slept == MonotonicNow(h) - x.reading
  <2>1. h \in Host /\ u \in Nat
    BY DEF ClockTypeOK, Timer
  <2>2. drift[h] \in CrazyClockDrift \cup AdversaryClockDrift /\ init[h] \in Nat
        /\ last_reset[h] \in Nat /\ now \in Nat
    BY <2>1 DEF ClockTypeOK
  <2>3. r \in Nat /\ r > 0
    BY <2>2, RateIsPositive
  <2>4. /\ n \in Nat
        /\ 100 * u < n * r + r
        /\ n * r <= 100 * u \/ n = 1
    <3> HIDE DEF h, u
    <3> QED
      BY <2>1, <2>2, SleepBounds
  <2>5. PICK s \in Nat : last_reset[h] <= s /\ x.reading = MonotonicAt(h, s) /\ x.due = s + n
    BY DEF TimersArePlanned
  <2> DEFINE a == s - last_reset[h]
  <2>6. a \in Nat /\ now - last_reset[h] = a + n
    BY <2>2, <2>4, <2>5
  <2>7. slept = (Elapsed(drift[h], a + n) + init[h]) - (Elapsed(drift[h], a) + init[h])
    BY <2>5, <2>6 DEF MonotonicNow, MonotonicAt
  <2> HIDE DEF a
  <2>8. Elapsed(drift[h], a + n) \in Nat /\ Elapsed(drift[h], a) \in Nat
    <3> HIDE DEF n, h
    <3> QED
      BY <2>2, <2>4, <2>6, ElapsedGrows
  <2>9. /\ slept \in Int
        /\ n * r < 100 * slept + 100
        /\ 100 * slept < n * r + 100
    <3>1. slept = Elapsed(drift[h], a + n) - Elapsed(drift[h], a)
      <4> HIDE DEF slept, n, h
      <4> QED
        BY <2>2, <2>7, <2>8
    <3> HIDE DEF slept, n, h
    <3> QED
      BY <3>1, <2>2, <2>4, <2>6, Slept, ZenonT(40)
  <2>10. 1 * r = r
    BY <2>3
  <2> HIDE DEF slept, n, h, u, r
  <2>11. n * r \in Nat
    BY <2>3, <2>4, ProductGrows
  <2>12. 100 * (u - slept) < r + 100 /\ (slept > u => 100 * slept < r + 100)
    BY <2>1, <2>3, <2>4, <2>9, <2>10, <2>11
  <2> QED
    BY <2>12 DEF slept, h, u, r
<1> QED
  BY <1>1, TypeHolds, Planned, PTL

-----------------------------------------------------------------------------
(* Memory *)

USE MemoryAssumption

\* The units of the arena, as numbers (memory/allocator.cpp:101-105).
LEMMA UnitFact ==
  /\ ArenaEnd \in PageEnd
  /\ ArenaEnd \in Int
  /\ PageEnd \subseteq Int
  /\ \A u : u \in Unit <=> u \in Int /\ 0 <= u /\ u < ArenaEnd
<1>1. Pages \in 0 .. Pages + 1
  OBVIOUS
<1>2. ArenaEnd \in PageEnd
  BY <1>1 DEF ArenaEnd, PageEnd
<1>3. \A k \in 0 .. Pages + 1 : k * Page \in Int
  OBVIOUS
<1>4. PageEnd \subseteq Int
  BY <1>3 DEF PageEnd
<1>5. ArenaEnd \in Int
  BY <1>2, <1>4
<1>. QED
  BY <1>2, <1>4, <1>5 DEF Unit

\* Two blocks of one place are not apart, so a block is apart from all but itself.
LEMMA BlockFact ==
  /\ \A b \in Block : /\ b.at \in Unit /\ b.size \in Size
                      /\ b.at \in Int /\ b.size \in Int /\ 0 < b.size
                      /\ b = [at |-> b.at, size |-> b.size]
  /\ \A b, c \in Block : Apart(b, c) => Apart(c, b) /\ b.at # c.at
  /\ \A b, c \in Block : \A u : Apart(b, c) /\ u \in Span(b) => u \notin Span(c) /\ u # c.at
  /\ \A b \in Block : b.at \notin Span(b)
<1>1. Size \subseteq Nat \ {0}
  OBVIOUS
<1>2. \A b \in Block : /\ b.at \in Unit /\ b.size \in Size
                       /\ b.at \in Int /\ b.size \in Int /\ 0 < b.size
                       /\ b = [at |-> b.at, size |-> b.size]
  <2>. SUFFICES ASSUME NEW b \in Block
                PROVE  /\ b.at \in Unit /\ b.size \in Size
                       /\ b.at \in Int /\ b.size \in Int /\ 0 < b.size
                       /\ b = [at |-> b.at, size |-> b.size]
    OBVIOUS
  <2>1. b.at \in Unit /\ b.size \in Size /\ b = [at |-> b.at, size |-> b.size]
    BY DEF Block
  <2>. QED
    BY <1>1, <2>1, UnitFact
<1>. QED
  BY <1>2 DEF Apart, Span

\* What lies below the bump pointer lies in the arena.
LEMMA SpanFact ==
  ASSUME MemoryInv, NEW b \in Block, b.at + b.size < next
  PROVE  \A u \in Span(b) : u \in Unit /\ b.at < u /\ u < next
<1>1. b.at \in Int /\ b.size \in Int /\ 0 <= b.at
  BY BlockFact, UnitFact
<1>2. next \in Int /\ zfilled \in Int /\ next <= zfilled /\ zfilled <= ArenaEnd
  BY UnitFact DEF MemoryInv, TypeOK
<1>. QED
  BY <1>1, <1>2, UnitFact DEF Span

\* A heap, new or used before, satisfies the invariant (HeapsAllocator).
LEMMA InitInv == Init => MemoryInv
<1>. SUFFICES ASSUME Init PROVE MemoryInv
  OBVIOUS
<1>1. TypeOK
  BY UnitFact, EmptySeq DEF Init, AcquireHeap, TypeOK, PageEnd
<1>. QED
  BY <1>1 DEF Init, AcquireHeap, MemoryInv, Disjoint, BlocksAreKept, HeadersAreKept,
     ListsAreStacks, FreedAreApart, ZeroAhead

----------------------------------------------------------------------------
(* One lemma per action *)

\* What the free lists hold are blocks.
LEMMA FreedFact ==
  ASSUME MemoryInv, NEW s \in SizeClass, NEW i \in 1 .. Len(freed[s])
  PROVE  /\ freed[s] \in Seq(Unit) /\ Len(freed[s]) \in Nat
         /\ freed[s][i] \in Unit /\ freed[s][i] \in Int
         /\ FreedBlock(s, i) \in Block
         /\ FreedBlock(s, i).at = freed[s][i] /\ FreedBlock(s, i).size = s
<1>1. freed[s] \in Seq(Unit)
  BY DEF MemoryInv, TypeOK
<1>2. Len(freed[s]) \in Nat /\ freed[s][i] \in Unit
  BY <1>1, LenProperties, ElementOfSeq
<1>. QED
  BY <1>1, <1>2, UnitFact DEF FreedBlock, Block, Size

\* A block off the bump pointer keeps the invariant of the heap (AllocateNewBlock).
LEMMA NewBlockInv ==
  ASSUME MemoryInv, NEW s \in Size, AllocateNewBlock(s)
  PROVE  MemoryInv'
<1>. DEFINE b == [at |-> next, size |-> s]
<1>1. PICK z \in PageEnd :
        /\ ZeroFilledTo(next + 1 + s, z)
        /\ mem' = [u \in DOMAIN mem \cup zfilled .. z - 1 |->
                     IF u = next THEN [size |-> s, next |-> Null]
                     ELSE IF u >= zfilled /\ u < z THEN Zero ELSE mem[u]]
        /\ zfilled' = z
  BY DEF AllocateNewBlock
<1>2. /\ s \in Int /\ 0 < s
      /\ next \in Int /\ 0 <= next /\ next <= zfilled
      /\ zfilled \in Int /\ zfilled <= ArenaEnd
      /\ z \in Int
  <2>1. Size \subseteq Nat \ {0}
    OBVIOUS
  <2>2. next \in Nat /\ next <= zfilled /\ zfilled \in 0 .. ArenaEnd
    BY DEF MemoryInv, TypeOK
  <2>. QED
    BY <2>1, <2>2, UnitFact
<1>3. next + 1 + s < ArenaEnd
  BY <1>2, UnitFact DEF AllocateNewBlock, Overflow
<1>4. /\ next + 1 + s < z /\ zfilled <= z /\ z <= ArenaEnd
  BY <1>1, <1>2, <1>3, UnitFact DEF ZeroFilledTo
<1>5. DOMAIN mem = Unit /\ zfilled .. z - 1 \subseteq Unit
  BY <1>2, <1>4, UnitFact DEF MemoryInv, TypeOK
<1>6. mem' = [u \in Unit |-> IF u = next THEN [size |-> s, next |-> Null]
                             ELSE IF u >= zfilled /\ u < z THEN Zero ELSE mem[u]]
  BY <1>1, <1>5
<1>7. b \in Block /\ b.at = next /\ b.size = s
  BY <1>2, <1>3, UnitFact DEF Block
<1>8. /\ next' = next + 1 + s
      /\ live' = live \cup {b}
      /\ UNCHANGED <<head, written, freed>>
  BY DEF AllocateNewBlock
<1>9. \A u \in Unit : u < next => mem'[u] = mem[u]
  BY <1>2, <1>6, UnitFact
<1>10. \A u \in Unit : next < u /\ u < z => mem'[u] = Zero
  BY <1>2, <1>6, UnitFact DEF MemoryInv, ZeroAhead
<1>11. \A c \in live : c \in Block /\ c.at + c.size < next /\ Apart(b, c) /\ Apart(c, b)
  BY <1>2, <1>7, BlockFact DEF MemoryInv, TypeOK, Disjoint, Apart
<1>12. b \notin live
  BY <1>7, <1>11, BlockFact
<1>13. TypeOK'
  <2>1. [size |-> s, next |-> Null] \in Header
    BY DEF Header
  <2>2. mem' \in [Unit -> {Zero, Dirty} \cup Header]
    BY <1>6, <2>1 DEF MemoryInv, TypeOK
  <2>3. next' \in Nat /\ next' <= zfilled' /\ zfilled' \in 0 .. ArenaEnd
    BY <1>1, <1>2, <1>4, <1>8, UnitFact
  <2>. QED
    BY <2>2, <2>3, <1>7, <1>8 DEF MemoryInv, TypeOK
<1>14. Disjoint'
  BY <1>2, <1>7, <1>8, <1>11, BlockFact DEF MemoryInv, Disjoint, Apart
<1>15. BlocksAreKept'
  <2>1. \A c \in live : \A u \in Span(c) : u \in Unit /\ u < next /\ u # next
    BY <1>2, <1>3, <1>11, BlockFact, UnitFact DEF Span
  <2>2. \A u \in Span(b) : u \in Unit /\ next < u /\ u < z
    BY <1>2, <1>3, <1>4, <1>7, UnitFact DEF Span
  <2>3. b \notin written
    BY <1>12 DEF MemoryInv, TypeOK
  <2>. QED
    BY <2>1, <2>2, <2>3, <1>8, <1>9, <1>10 DEF MemoryInv, BlocksAreKept
<1>16. HeadersAreKept'
  <2>1. mem'[next] = [size |-> s, next |-> Null] /\ mem'[next] \in Header
    BY <1>2, <1>3, <1>6, UnitFact DEF Header
  <2>2. \A c \in live : c.at \in Unit /\ c.at < next
    BY <1>2, <1>11, BlockFact, UnitFact
  <2>. QED
    BY <2>1, <2>2, <1>7, <1>8, <1>9 DEF MemoryInv, HeadersAreKept
<1>17. ListsAreStacks'
  <2>1. ASSUME NEW t \in SizeClass, NEW i \in 1 .. Len(freed[t])
        PROVE  freed[t][i] \in Unit /\ freed[t][i] < next
    BY <1>2, FreedFact, UnitFact, SMTT(30) DEF MemoryInv, FreedAreApart, Size
  <2>. QED
    BY <2>1, <1>8, <1>9 DEF MemoryInv, ListsAreStacks
<1>18. FreedAreApart'
  <2>1. ASSUME NEW t \in SizeClass, NEW i \in 1 .. Len(freed[t])
        PROVE  freed[t][i] + t < next' /\ Apart(b, FreedBlock(t, i))
    BY <1>2, <1>7, <1>8, FreedFact, SMTT(30) DEF MemoryInv, FreedAreApart, Size, Apart
  <2>. QED
    BY <2>1, <1>8 DEF MemoryInv, FreedAreApart, FreedBlock
<1>19. ZeroAhead'
  <2>1. ASSUME NEW u \in Unit, next' <= u, u < zfilled' PROVE mem'[u] = Zero
    <3>1. u < z /\ next + 1 + s <= u
      BY <1>1, <1>8, <2>1
    <3>2. next < u
      BY <1>2, <2>1, <3>1, UnitFact
    <3>. QED
      BY <1>10, <3>1, <3>2
  <2>. QED
    BY <2>1 DEF ZeroAhead
<1>. QED
  BY <1>13, <1>14, <1>15, <1>16, <1>17, <1>18, <1>19 DEF MemoryInv

\* A program that writes to its own blocks keeps the invariant of the heap.
LEMMA WriteInv ==
  ASSUME MemoryInv, NEW b \in live, Write(b)
  PROVE  MemoryInv'
<1>1. /\ mem' = [u \in Unit |-> IF u \in Span(b) THEN Dirty ELSE mem[u]]
      /\ written' = written \cup {b}
      /\ UNCHANGED <<next, zfilled, head, live, freed>>
  BY DEF Write
<1>2. b \in Block /\ live \subseteq Block /\ next \in Int /\ b.at + b.size < next
  BY DEF MemoryInv, TypeOK, Disjoint
<1>3. \A c \in live : /\ c # b => \A u \in Span(c) : u \notin Span(b)
                      /\ c.at \in Unit /\ c.at \notin Span(b)
                      /\ \A u \in Span(c) : u \in Unit
  <2>1. \A c \in live : \A u \in Span(c) : u \in Unit
    BY <1>2, SpanFact DEF MemoryInv, Disjoint
  <2>. QED
    BY <2>1, <1>2, BlockFact DEF MemoryInv, Disjoint
<1>4. ASSUME NEW s \in SizeClass, NEW i \in 1 .. Len(freed[s])
      PROVE  freed[s][i] \in Unit /\ mem'[freed[s][i]] = mem[freed[s][i]]
  <2>1. Apart(b, FreedBlock(s, i))
    BY DEF MemoryInv, FreedAreApart
  <2>. QED
    BY <2>1, <1>1, <1>2, FreedFact, BlockFact
<1>5. TypeOK'
  BY <1>1 DEF MemoryInv, TypeOK
<1>6. Disjoint'
  BY <1>1 DEF MemoryInv, Disjoint
<1>7. BlocksAreKept'
  BY <1>1, <1>3 DEF MemoryInv, BlocksAreKept
<1>8. HeadersAreKept'
  BY <1>1, <1>3 DEF MemoryInv, HeadersAreKept
<1>9. ListsAreStacks'
  BY <1>1, <1>4 DEF MemoryInv, ListsAreStacks
<1>10. FreedAreApart'
  BY <1>1 DEF MemoryInv, FreedAreApart, FreedBlock
<1>11. ZeroAhead'
  BY <1>1, <1>2, BlockFact, UnitFact DEF MemoryInv, ZeroAhead, Span
<1>. QED
  BY <1>5, <1>6, <1>7, <1>8, <1>9, <1>10, <1>11 DEF MemoryInv

\* A list is empty when it has no elements.
LEMMA NoneLeft ==
  ASSUME NEW S, NEW q \in Seq(S)
  PROVE  q = <<>> <=> Len(q) = 0
  BY EmptySeq

\* How a list changes when a block is put on it or taken off.
LEMMA PushPop ==
  ASSUME NEW S, NEW q \in Seq(S), NEW x \in S
  PROVE  /\ <<x>> \o q \in Seq(S)
         /\ Len(<<x>> \o q) = Len(q) + 1 /\ Len(q) \in Nat
         /\ (<<x>> \o q)[1] = x
         /\ \A i \in 2 .. Len(q) + 1 : i - 1 \in 1 .. Len(q) /\ (<<x>> \o q)[i] = q[i - 1]
         /\ q # <<>> => /\ Tail(q) \in Seq(S)
                        /\ Len(Tail(q)) = Len(q) - 1 /\ 1 \in 1 .. Len(q)
                        /\ \A i \in 1 .. Len(Tail(q)) :
                             i + 1 \in 1 .. Len(q) /\ Tail(q)[i] = q[i + 1]
<1>1. <<x>> \in Seq(S) /\ Len(<<x>>) = 1 /\ <<x>>[1] = x
  OBVIOUS
<1>2. Len(q) \in Nat
  BY LenProperties
<1>3. /\ <<x>> \o q \in Seq(S)
      /\ Len(<<x>> \o q) = 1 + Len(q)
      /\ \A i \in 1 .. 1 + Len(q) :
           (<<x>> \o q)[i] = IF i <= 1 THEN <<x>>[i] ELSE q[i - 1]
  BY <1>1, ConcatProperties
<1>4. ASSUME q # <<>>
      PROVE  /\ Tail(q) \in Seq(S)
             /\ Len(Tail(q)) = Len(q) - 1 /\ 1 \in 1 .. Len(q)
             /\ \A i \in 1 .. Len(Tail(q)) :
                  i + 1 \in 1 .. Len(q) /\ Tail(q)[i] = q[i + 1]
  BY <1>2, <1>4, HeadTailProperties, EmptySeq
<1>. QED
  BY <1>1, <1>2, <1>3, <1>4

\* So does a block from a list (MemoryAllocator::DoAllocate).
LEMMA ReuseBlockInv ==
  ASSUME MemoryInv, NEW s \in SizeClass, head[s] # Null, ReuseBlock(s)
  PROVE  MemoryInv'
<1>. DEFINE a == head[s]
            b == [at |-> a, size |-> s]
            old(t, i) == IF t = s THEN i + 1 ELSE i
<1>1. /\ \A t \in SizeClass : freed[t] \in Seq(Unit)
      /\ freed[s] # <<>> /\ a = freed[s][1]
  BY DEF MemoryInv, TypeOK, ListsAreStacks
<1>2. 1 \in 1 .. Len(freed[s]) /\ b = FreedBlock(s, 1) /\ a \in Unit
  BY <1>1, EmptySeq, ElementOfSeq, LenProperties DEF FreedBlock
<1>3. b \in Block /\ b.at = a /\ b.size = s /\ a + s < next /\ a \in Int /\ s \in Int
  BY <1>2, FreedFact, BlockFact DEF MemoryInv, FreedAreApart
<1>4. mem[a] \in Header /\ mem[a].size = s
      /\ mem[a].next = IF 1 = Len(freed[s]) THEN Null ELSE freed[s][1 + 1]
  <2>1. /\ mem[freed[s][1]] \in Header
        /\ mem[freed[s][1]].size = s
        /\ mem[freed[s][1]].next = IF 1 = Len(freed[s]) THEN Null ELSE freed[s][1 + 1]
    BY <1>2 DEF MemoryInv, ListsAreStacks
  <2>. QED
    BY <1>1, <2>1
<1>5. /\ head' = [head EXCEPT ![s] = mem[a].next]
      /\ mem' = [u \in Unit |-> IF u \in Span(b) THEN Zero ELSE mem[u]]
      /\ live' = live \cup {b}
      /\ freed' = [freed EXCEPT ![s] = Tail(@)]
      /\ UNCHANGED <<next, zfilled, written>>
  BY <1>3, <1>4 DEF ReuseBlock, Span
<1>6. \A c \in live : c \in Block /\ Apart(b, c) /\ Apart(c, b)
  BY <1>2, <1>3, BlockFact DEF MemoryInv, TypeOK, FreedAreApart
<1>7. b \notin live /\ b \notin written
  BY <1>3, <1>6, BlockFact DEF MemoryInv, TypeOK
<1>8. ASSUME NEW t \in SizeClass, NEW i \in 1 .. Len(freed'[t])
      PROVE  /\ old(t, i) \in 1 .. Len(freed[t])
             /\ freed'[t][i] = freed[t][old(t, i)]
             /\ FreedBlock(t, i)' = FreedBlock(t, old(t, i))
             /\ t = s => old(t, i) # 1
             /\ i = Len(freed'[t]) <=> old(t, i) = Len(freed[t])
             /\ i # Len(freed'[t]) => freed'[t][i + 1] = freed[t][old(t, i) + 1]
  <2>1. freed'[t] = IF t = s THEN Tail(freed[s]) ELSE freed[t]
    BY <1>5 DEF MemoryInv, TypeOK
  <2>2. Len(freed[t]) \in Nat /\ Len(freed'[t]) \in Nat
    BY <1>1, <2>1, PushPop
  <2>. QED
    BY <1>1, <1>2, <2>1, <2>2, PushPop DEF FreedBlock
<1>9. \A t \in SizeClass : freed'[t] \in Seq(Unit)
  BY <1>1, <1>2, <1>5, PushPop DEF MemoryInv, TypeOK
<1>10. ASSUME NEW t \in SizeClass, NEW i \in 1 .. Len(freed'[t])
       PROVE  Apart(b, FreedBlock(t, i)') /\ Apart(FreedBlock(t, i)', b)
  <2>1. FreedBlock(t, old(t, i)) \in Block
    BY <1>8, FreedFact
  <2>2. Apart(b, FreedBlock(t, old(t, i)))
    <3>1. PICK j \in 1 .. Len(freed[t]) : j = old(t, i) /\ (s # t \/ 1 # j)
      BY <1>8
    <3>2. Apart(FreedBlock(s, 1), FreedBlock(t, j))
      BY <1>2, <3>1 DEF MemoryInv, FreedAreApart
    <3>. QED
      BY <1>2, <3>1, <3>2
  <2>3. FreedBlock(t, i)' = FreedBlock(t, old(t, i))
    BY <1>8
  <2>4. Apart(FreedBlock(t, old(t, i)), b)
    BY <1>3, <2>1, <2>2, BlockFact
  <2>. QED
    BY <2>2, <2>3, <2>4
<1>11. ASSUME NEW t \in SizeClass, NEW i \in 1 .. Len(freed'[t])
       PROVE  mem'[freed'[t][i]] = mem[freed[t][old(t, i)]]
  <2>1. FreedBlock(t, old(t, i)) \in Block /\ FreedBlock(t, old(t, i)).at = freed[t][old(t, i)]
        /\ freed[t][old(t, i)] \in Unit
    BY <1>8, FreedFact
  <2>2. freed[t][old(t, i)] \notin Span(b)
    BY <1>3, <1>8, <1>10, <2>1, BlockFact, SMTT(30)
  <2>. QED
    BY <1>5, <1>8, <2>1, <2>2
<1>12. TypeOK'
  <2>1. mem[a].next \in Unit \cup {Null}
    BY <1>4 DEF Header
  <2>2. freed' \in [SizeClass -> Seq(Unit)]
    BY <1>5, <1>9 DEF MemoryInv, TypeOK
  <2>. QED
    BY <1>3, <1>5, <2>1, <2>2 DEF MemoryInv, TypeOK
<1>13. Disjoint'
  BY <1>3, <1>5, <1>6 DEF MemoryInv, Disjoint
<1>14. BlocksAreKept'
  <2>1. \A c \in live : \A u \in Span(c) : u \in Unit /\ u \notin Span(b)
    BY <1>3, <1>6, SpanFact, BlockFact DEF MemoryInv, Disjoint
  <2>2. \A u \in Span(b) : u \in Unit
    BY <1>3, SpanFact
  <2>. QED
    BY <1>5, <1>7, <2>1, <2>2 DEF MemoryInv, BlocksAreKept
<1>15. HeadersAreKept'
  <2>1. a \notin Span(b)
    BY <1>3, BlockFact
  <2>2. \A c \in live : c.at \in Unit /\ c.at \notin Span(b)
    BY <1>3, <1>6, BlockFact
  <2>. QED
    BY <1>2, <1>3, <1>4, <1>5, <2>1, <2>2 DEF MemoryInv, HeadersAreKept
<1>16. ListsAreStacks'
  <2>1. ASSUME NEW t \in SizeClass
        PROVE  head'[t] = IF freed'[t] = <<>> THEN Null ELSE freed'[t][1]
    <3>1. CASE t # s
      BY <1>5, <3>1 DEF MemoryInv, TypeOK, ListsAreStacks
    <3>2. CASE t = s
      <4>1. head'[s] = mem[a].next /\ freed'[s] = Tail(freed[s])
        BY <1>5 DEF MemoryInv, TypeOK
      <4>2. Len(freed[s]) \in Nat /\ Len(Tail(freed[s])) = Len(freed[s]) - 1
            /\ Tail(freed[s]) \in Seq(Unit)
        BY <1>1, <1>2, PushPop
      <4>3. 1 # Len(freed[s]) => Tail(freed[s])[1] = freed[s][1 + 1]
        <5>. SUFFICES ASSUME 1 # Len(freed[s]) PROVE Tail(freed[s])[1] = freed[s][1 + 1]
          OBVIOUS
        <5>1. 1 \in 1 .. Len(Tail(freed[s]))
          <6>1. \A n \in Nat : 1 \in 1 .. n /\ 1 # n => 1 \in 1 .. n - 1
            OBVIOUS
          <6>. QED
            BY <1>2, <4>2, <6>1
        <5>. QED
          BY <1>1, <1>2, <5>1, PushPop
      <4>4. Tail(freed[s]) = <<>> <=> 1 = Len(freed[s])
        <5>1. \A n \in Nat : n - 1 = 0 <=> 1 = n
          OBVIOUS
        <5>2. Tail(freed[s]) = <<>> <=> Len(freed[s]) - 1 = 0
          BY <4>2, NoneLeft
        <5>. QED
          BY <4>2, <5>1, <5>2
      <4>. QED
        BY <1>4, <3>2, <4>1, <4>3, <4>4
    <3>. QED
      BY <3>1, <3>2
  <2>2. ASSUME NEW t \in SizeClass, NEW i \in 1 .. Len(freed'[t])
        PROVE  /\ mem'[freed'[t][i]] \in Header
               /\ mem'[freed'[t][i]].size = t
               /\ mem'[freed'[t][i]].next =
                    IF i = Len(freed'[t]) THEN Null ELSE freed'[t][i + 1]
    <3>. DEFINE j == old(t, i)
    <3>1. /\ mem[freed[t][j]] \in Header
          /\ mem[freed[t][j]].size = t
          /\ mem[freed[t][j]].next = IF j = Len(freed[t]) THEN Null ELSE freed[t][j + 1]
      BY <1>8 DEF MemoryInv, ListsAreStacks
    <3>2. /\ i = Len(freed'[t]) <=> j = Len(freed[t])
          /\ i # Len(freed'[t]) => freed'[t][i + 1] = freed[t][j + 1]
          /\ mem'[freed'[t][i]] = mem[freed[t][j]]
      BY <1>8, <1>11
    <3>. HIDE DEF j
    <3>. QED
      BY <3>1, <3>2
  <2>. QED
    BY <2>1, <2>2 DEF ListsAreStacks
<1>17. FreedAreApart'
  <2>1. ASSUME NEW t \in SizeClass, NEW i \in 1 .. Len(freed'[t])
        PROVE  /\ freed'[t][i] + t < next'
               /\ \A c \in live' : Apart(c, FreedBlock(t, i)')
    <3>1. freed[t][old(t, i)] + t < next /\ \A c \in live : Apart(c, FreedBlock(t, old(t, i)))
      BY <1>8 DEF MemoryInv, FreedAreApart
    <3>. QED
      BY <1>5, <1>8, <1>10, <3>1
  <2>2. ASSUME NEW t \in SizeClass, NEW i \in 1 .. Len(freed'[t]),
               NEW v \in SizeClass, NEW j \in 1 .. Len(freed'[v]), t # v \/ i # j
        PROVE  Apart(FreedBlock(t, i)', FreedBlock(v, j)')
    BY <1>8, <2>2 DEF MemoryInv, FreedAreApart
  <2>. QED
    BY <2>1, <2>2 DEF FreedAreApart
<1>18. ZeroAhead'
  BY <1>5 DEF MemoryInv, ZeroAhead
<1>. QED
  BY <1>12, <1>13, <1>14, <1>15, <1>16, <1>17, <1>18 DEF MemoryInv

\* So does a block that goes to the list of its size (MemoryAllocator::Free).
LEMMA PushInv ==
  ASSUME MemoryInv, NEW b \in live, mem[b.at].size \in SizeClass, Free(b)
  PROVE  MemoryInv'
<1>. DEFINE s == b.size
            old(t, i) == IF t = s THEN i - 1 ELSE i
            IsNew(t, i) == t = s /\ i = 1
<1>1. /\ b \in Block /\ b.at \in Unit /\ b.at \in Int /\ s \in Int /\ b.at + s < next
      /\ b = [at |-> b.at, size |-> s]
      /\ mem[b.at] \in Header /\ mem[b.at].size = s /\ s \in SizeClass
  BY BlockFact DEF MemoryInv, TypeOK, HeadersAreKept, Disjoint
<1>2. s \notin LargeSize
  BY <1>1
<1>3. /\ mem' = [mem EXCEPT ![b.at] = [@ EXCEPT !.next = head[s]]]
      /\ head' = [head EXCEPT ![s] = b.at]
      /\ freed' = [freed EXCEPT ![s] = <<b.at>> \o @]
      /\ live' = live \ {b} /\ written' = written \ {b}
      /\ UNCHANGED <<next, zfilled>>
  BY <1>1, <1>2 DEF Free, Release, Push
<1>4. /\ head[s] \in Unit \cup {Null}
      /\ mem'[b.at] \in Header /\ mem'[b.at].size = s /\ mem'[b.at].next = head[s]
      /\ \A u \in Unit : u # b.at => mem'[u] = mem[u]
  BY <1>1, <1>3 DEF MemoryInv, TypeOK, Header
<1>5. \A c \in live : c # b => c \in Block /\ Apart(b, c) /\ Apart(c, b)
  BY DEF MemoryInv, TypeOK, Disjoint
<1>6. \A t \in SizeClass : freed[t] \in Seq(Unit)
  BY DEF MemoryInv, TypeOK
<1>7. ASSUME NEW t \in SizeClass
      PROVE  /\ freed'[t] = IF t = s THEN <<b.at>> \o freed[s] ELSE freed[t]
             /\ freed'[t] \in Seq(Unit)
             /\ Len(freed[t]) \in Nat
             /\ Len(freed'[t]) = IF t = s THEN Len(freed[t]) + 1 ELSE Len(freed[t])
  BY <1>1, <1>3, <1>6, PushPop DEF MemoryInv, TypeOK
<1>8. freed'[s][1] = b.at /\ 1 \in 1 .. Len(freed'[s]) /\ FreedBlock(s, 1)' = b
  <2>1. freed[s] \in Seq(Unit) /\ freed'[s] = <<b.at>> \o freed[s]
    BY <1>1, <1>6, <1>7
  <2>2. freed'[s][1] = b.at
    BY <1>1, <2>1, PushPop
  <2>3. Len(freed'[s]) = Len(freed[s]) + 1 /\ Len(freed[s]) \in Nat
    BY <1>1, <1>7
  <2>. QED
    BY <1>1, <2>2, <2>3 DEF FreedBlock
<1>9. ASSUME NEW t \in SizeClass, NEW i \in 1 .. Len(freed'[t]), ~IsNew(t, i)
      PROVE  /\ old(t, i) \in 1 .. Len(freed[t])
             /\ freed'[t][i] = freed[t][old(t, i)]
             /\ FreedBlock(t, i)' = FreedBlock(t, old(t, i))
             /\ i = Len(freed'[t]) <=> old(t, i) = Len(freed[t])
             /\ i # Len(freed'[t]) => freed'[t][i + 1] = freed[t][old(t, i) + 1]
  <2>1. CASE t # s
    BY <1>7, <1>9, <2>1 DEF FreedBlock
  <2>2. CASE t = s
    <3>1. /\ freed[s] \in Seq(Unit) /\ freed'[s] = <<b.at>> \o freed[s]
          /\ Len(freed'[s]) = Len(freed[s]) + 1 /\ Len(freed[s]) \in Nat
      BY <1>1, <1>6, <1>7
    <3>2. \A k \in 2 .. Len(freed[s]) + 1 :
            k - 1 \in 1 .. Len(freed[s]) /\ freed'[s][k] = freed[s][k - 1]
      BY <1>1, <3>1, PushPop, SMTT(30)
    <3>3. i \in 2 .. Len(freed[s]) + 1 /\ old(t, i) = i - 1
      BY <1>9, <2>2, <3>1
    <3>4. i # Len(freed'[s]) => i + 1 \in 2 .. Len(freed[s]) + 1 /\ (i + 1) - 1 = (i - 1) + 1
      BY <3>1, <3>3
    <3>5. i # Len(freed'[s]) => freed'[s][i + 1] = freed[s][(i - 1) + 1]
      BY <3>2, <3>4
    <3>. QED
      BY <2>2, <3>1, <3>2, <3>3, <3>5 DEF FreedBlock
  <2>. QED
    BY <2>1, <2>2
<1>10. ASSUME NEW t \in SizeClass, NEW i \in 1 .. Len(freed'[t]), ~IsNew(t, i)
       PROVE  /\ Apart(b, FreedBlock(t, i)') /\ Apart(FreedBlock(t, i)', b)
              /\ mem'[freed'[t][i]] = mem[freed[t][old(t, i)]]
  <2>1. /\ FreedBlock(t, old(t, i)) \in Block
        /\ FreedBlock(t, old(t, i)).at = freed[t][old(t, i)]
        /\ freed[t][old(t, i)] \in Unit
    BY <1>9, <1>10, FreedFact
  <2>2. Apart(b, FreedBlock(t, old(t, i)))
    BY <1>9, <1>10 DEF MemoryInv, FreedAreApart
  <2>3. freed[t][old(t, i)] # b.at
    BY <1>1, <2>1, <2>2, BlockFact
  <2>4. mem'[freed'[t][i]] = mem[freed[t][old(t, i)]]
    BY <1>4, <1>9, <1>10, <2>1, <2>3
  <2>5. Apart(FreedBlock(t, old(t, i)), b)
    BY <1>1, <2>1, <2>2, BlockFact
  <2>6. FreedBlock(t, i)' = FreedBlock(t, old(t, i))
    BY <1>9, <1>10
  <2>. QED
    BY <2>2, <2>4, <2>5, <2>6
<1>11. TypeOK'
  <2>1. mem' \in [Unit -> {Zero, Dirty} \cup Header]
    BY <1>1, <1>3, <1>4 DEF MemoryInv, TypeOK
  <2>2. freed' \in [SizeClass -> Seq(Unit)]
    BY <1>3, <1>7 DEF MemoryInv, TypeOK
  <2>. QED
    BY <1>1, <1>3, <2>1, <2>2 DEF MemoryInv, TypeOK
<1>12. Disjoint'
  BY <1>3 DEF MemoryInv, Disjoint
<1>13. BlocksAreKept'
  <2>1. \A c \in live : c # b => \A u \in Span(c) : u \in Unit /\ u # b.at
    BY <1>1, <1>5, BlockFact, UnitFact DEF Span, MemoryInv, TypeOK, Disjoint
  <2>. QED
    BY <1>3, <1>4, <2>1 DEF MemoryInv, BlocksAreKept
<1>14. HeadersAreKept'
  <2>1. \A c \in live : c # b => c.at \in Unit /\ c.at # b.at
    BY <1>1, <1>5, BlockFact
  <2>. QED
    BY <1>3, <1>4, <2>1 DEF MemoryInv, HeadersAreKept
<1>15. ListsAreStacks'
  <2>1. ASSUME NEW t \in SizeClass
        PROVE  head'[t] = IF freed'[t] = <<>> THEN Null ELSE freed'[t][1]
    <3>1. CASE t # s
      BY <1>3, <3>1 DEF MemoryInv, TypeOK, ListsAreStacks
    <3>2. CASE t = s
      BY <1>1, <1>3, <1>7, <1>8, <3>2, EmptySeq DEF MemoryInv, TypeOK
    <3>. QED
      BY <3>1, <3>2
  <2>2. ASSUME NEW t \in SizeClass, NEW i \in 1 .. Len(freed'[t])
        PROVE  /\ mem'[freed'[t][i]] \in Header
               /\ mem'[freed'[t][i]].size = t
               /\ mem'[freed'[t][i]].next =
                    IF i = Len(freed'[t]) THEN Null ELSE freed'[t][i + 1]
    <3>1. CASE ~IsNew(t, i)
      <4>. DEFINE j == old(t, i)
      <4>1. /\ j \in 1 .. Len(freed[t])
            /\ i = Len(freed'[t]) <=> j = Len(freed[t])
            /\ i # Len(freed'[t]) => freed'[t][i + 1] = freed[t][j + 1]
            /\ mem'[freed'[t][i]] = mem[freed[t][j]]
        BY <1>9, <1>10, <3>1, SMTT(30)
      <4>. HIDE DEF j
      <4>2. /\ mem[freed[t][j]] \in Header
            /\ mem[freed[t][j]].size = t
            /\ mem[freed[t][j]].next = IF j = Len(freed[t]) THEN Null ELSE freed[t][j + 1]
        BY <4>1 DEF MemoryInv, ListsAreStacks
      <4>. QED
        BY <4>1, <4>2
    <3>2. CASE IsNew(t, i)
      <4>1. /\ freed'[s] = <<b.at>> \o freed[s] /\ Len(freed[s]) \in Nat
            /\ Len(freed'[s]) = Len(freed[s]) + 1 /\ freed[s] \in Seq(Unit)
        BY <1>1, <1>6, <1>7
      <4>2. 1 # Len(freed'[s]) => freed[s] # <<>> /\ freed'[s][2] = freed[s][1]
        BY <1>1, <4>1, PushPop, EmptySeq
      <4>3. 1 = Len(freed'[s]) => freed[s] = <<>>
        BY <4>1, EmptySeq
      <4>4. head[s] = IF freed[s] = <<>> THEN Null ELSE freed[s][1]
        BY <1>1 DEF MemoryInv, ListsAreStacks
      <4>. QED
        BY <1>4, <1>8, <3>2, <4>2, <4>3, <4>4
    <3>. QED
      BY <3>1, <3>2
  <2>. QED
    BY <2>1, <2>2 DEF ListsAreStacks
<1>16. FreedAreApart'
  <2>1. ASSUME NEW t \in SizeClass, NEW i \in 1 .. Len(freed'[t])
        PROVE  /\ freed'[t][i] + t < next'
               /\ \A c \in live' : Apart(c, FreedBlock(t, i)')
    <3>1. CASE ~IsNew(t, i)
      BY <1>3, <1>9, <3>1 DEF MemoryInv, FreedAreApart
    <3>2. CASE IsNew(t, i)
      BY <1>1, <1>3, <1>5, <1>8, <3>2
    <3>. QED
      BY <3>1, <3>2
  <2>2. ASSUME NEW t \in SizeClass, NEW i \in 1 .. Len(freed'[t]),
               NEW v \in SizeClass, NEW j \in 1 .. Len(freed'[v]), t # v \/ i # j
        PROVE  Apart(FreedBlock(t, i)', FreedBlock(v, j)')
    <3>1. CASE ~IsNew(t, i) /\ ~IsNew(v, j)
      <4>1. t # v \/ old(t, i) # old(v, j)
        BY <1>7, <2>2
      <4>. QED
        BY <1>9, <3>1, <4>1 DEF MemoryInv, FreedAreApart
    <3>2. CASE IsNew(t, i)
      BY <1>8, <1>10, <2>2, <3>2
    <3>3. CASE IsNew(v, j)
      BY <1>8, <1>10, <2>2, <3>3
    <3>. QED
      BY <3>1, <3>2, <3>3
  <2>. QED
    BY <2>1, <2>2 DEF FreedAreApart
<1>17. ZeroAhead'
  <2>1. \A u \in Unit : next <= u => u # b.at
    BY <1>1, UnitFact, BlockFact DEF MemoryInv, TypeOK
  <2>. QED
    BY <1>3, <1>4, <2>1 DEF MemoryInv, ZeroAhead
<1>. QED
  BY <1>11, <1>12, <1>13, <1>14, <1>15, <1>16, <1>17 DEF MemoryInv

\* So does one whose size has no list.
LEMMA LeakInv ==
  ASSUME MemoryInv, NEW b \in live, mem[b.at].size \notin SizeClass, Free(b)
  PROVE  MemoryInv'
<1>1. /\ live' = live \ {b} /\ written' = written \ {b}
      /\ UNCHANGED <<next, zfilled, mem, head, freed>>
  BY DEF Free
<1>. QED
  <2>1. TypeOK' /\ Disjoint'
    BY <1>1 DEF MemoryInv, TypeOK, Disjoint
  <2>2. BlocksAreKept' /\ HeadersAreKept'
    BY <1>1 DEF MemoryInv, BlocksAreKept, HeadersAreKept
  <2>3. ListsAreStacks' /\ FreedAreApart' /\ ZeroAhead'
    BY <1>1 DEF MemoryInv, ListsAreStacks, FreedAreApart, FreedBlock, ZeroAhead
  <2>. QED
    BY <2>1, <2>2, <2>3 DEF MemoryInv

\* Reset moves the pointers back over whatever is there.
LEMMA ResetInv ==
  ASSUME MemoryInv, Reset
  PROVE  MemoryInv'
<1>1. /\ next' = 0 /\ zfilled' = 0
      /\ head' = [s \in SizeClass |-> Null]
      /\ live' = {} /\ written' = {}
      /\ freed' = [s \in SizeClass |-> <<>>]
      /\ mem' = mem
  BY DEF Reset, HardReset
<1>2. 0 \in 0 .. ArenaEnd
  BY UnitFact DEF MemoryInv, TypeOK
<1>3. TypeOK'
  BY <1>1, <1>2, EmptySeq DEF MemoryInv, TypeOK
<1>4. ListsAreStacks' /\ FreedAreApart'
  BY <1>1 DEF ListsAreStacks, FreedAreApart
<1>5. ZeroAhead'
  BY <1>1, UnitFact DEF ZeroAhead
<1>. QED
  BY <1>1, <1>3, <1>4, <1>5 DEF MemoryInv, Disjoint, BlocksAreKept, HeadersAreKept

----------------------------------------------------------------------------
\* The invariant holds in every state of every heap (memory/allocator.cpp).
THEOREM InvHolds == Spec => []MemoryInv
<1>1. Init => MemoryInv
  BY InitInv
<1>2. MemoryInv /\ [Next]_vars => MemoryInv'
  <2>. SUFFICES ASSUME MemoryInv, [Next]_vars PROVE MemoryInv'
    OBVIOUS
  <2>1. ASSUME NEW s \in Size, Allocate(s) PROVE MemoryInv'
    BY <2>1, NewBlockInv, ReuseBlockInv DEF Allocate, TryAcquire
  <2>2. ASSUME NEW b \in live, Free(b) PROVE MemoryInv'
    BY <2>2, PushInv, LeakInv
  <2>3. ASSUME NEW b \in live, Write(b) PROVE MemoryInv'
    BY <2>3, WriteInv
  <2>4. CASE Reset
    BY <2>4, ResetInv
  <2>5. CASE UNCHANGED vars
    BY <2>5 DEF vars, MemoryInv, TypeOK, Disjoint, BlocksAreKept,
       HeadersAreKept, ListsAreStacks, FreedAreApart, FreedBlock, ZeroAhead
  <2>. QED
    BY <2>1, <2>2, <2>3, <2>4, <2>5 DEF Next
<1>. QED
  BY <1>1, <1>2, PTL DEF Spec

\* No unit of the arena belongs to two blocks, and no block or zero fill leaves
\* the arena (memory/allocator.cpp:130-149, 174-200).
THEOREM BlocksNeverOverlap == Spec => []BlocksAreApart
<1>1. MemoryInv => BlocksAreApart
  BY UnitFact DEF MemoryInv, TypeOK, BlocksAreApart
<1>. QED
  BY <1>1, InvHolds, PTL

\* A block is zero until its owner writes to it, whatever the heap held before
\* (memory/allocator.cpp:140-146, 174-179).
THEOREM ProcessesStartClean == Spec => []BlocksAreKept
<1>1. MemoryInv => BlocksAreKept
  BY DEF MemoryInv
<1>. QED
  BY <1>1, InvHolds, PTL

\* The canary of a block is intact when the block is freed
\* (memory/allocator.cpp:160).
THEOREM CanaryIsIntact == Spec => []HeadersAreKept
<1>1. MemoryInv => HeadersAreKept
  BY DEF MemoryInv
<1>. QED
  BY <1>1, InvHolds, PTL

\* The lists in the headers are stacks (memory/allocator.hpp:21-38).
THEOREM FreeListsAreSound == Spec => []ListsAreStacks
<1>1. MemoryInv => ListsAreStacks
  BY DEF MemoryInv
<1>. QED
  BY <1>1, InvHolds, PTL
=============================================================================
