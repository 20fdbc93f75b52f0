\* Link faults by an adversary that also answers messages.
SPECIFICATION Spec
CONSTANTS
  s1 = s1
  s2 = s2
  a1 = a1
  Idle = Idle
  Stopped = Stopped
  Pool <- MCPool
  Client = {}
  Adversary <- MCAdversary
  SystemHost <- MCSystemHost
  HostIndex <- AdversaryLast
  StartTime = 1
  FlightTime = {1, 2}
  Listener = {a1}
  Route <- ToAdversary
  Delay = {1}
  MaxTime = 3
  MaxInserts = 4
  MaxLife = 1
  Breakable <- OneWay
  Victim = {}
INVARIANT NoBrokenNet
CHECK_DEADLOCK FALSE
