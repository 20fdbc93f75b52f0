\* Faults of a server and of a link together, under fair scheduling.
SPECIFICATION FairSpec
CONSTANTS
  s1 = s1
  s2 = s2
  a1 = a1
  Idle = Idle
  Stopped = Stopped
  Pool <- MCPool
  Client = {}
  Adversary <- MCAdversary
  SystemHost <- MCSystemHost
  HostIndex <- AdversaryLast
  StartTime = 1
  FlightTime = {1}
  Listener = {s2}
  Route <- OneWay
  Delay = {0, 2}
  MaxTime = 3
  MaxInserts = 3
  MaxLife = 2
  Breakable <- OneWay
  Victim = {s2}
INVARIANTS OwnTasks NoTimeTravel NoBrokenNet
PROPERTIES PauseIsADelay NoFrameLost FrameArrives TaskGetsItsTurn
CHECK_DEADLOCK FALSE
