\* Sleeps and readings of two hosts; one is paused, crashes and is adjusted.
SPECIFICATION ClockSpec
CONSTANTS
  h1 = h1
  a1 = a1
  Host <- MCHost
  Adversary <- MCAdversary
  StartTime = 1
  Drifts <- MCDrifts
  Starts = {1}
  Offsets = {0, 9}
  Uncertainties = {5}
  Delay = {0, 1, 2}
  MaxTime = 10
  MaxLife = 2
  MaxTimers = 1
  MaxIntervals = 1
INVARIANTS SleepIsAsLongAsAsked IntervalsTellTheOrder
PROPERTY MonotonicGrows
CHECK_DEADLOCK FALSE
