\* Crashes and pauses of both machines; ports come round on the third connection.
SPECIFICATION Spec
CONSTANTS
  c1 = c1
  s1 = s1
  Nobody = Nobody
  Machine <- MCMachine
  Service <- MCService
  Dials <- WithMe
  PortCount = 2
  HasAdversary = TRUE
  MaxIds = 4
  Crashable <- Both
  Pausable <- Both
INVARIANTS OwnMail NoStaleRequests NoFalseAlarm
