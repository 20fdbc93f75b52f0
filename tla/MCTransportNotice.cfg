\* A client learns of the crash of its peer.
SPECIFICATION FairSpec
CONSTANTS
  c1 = c1
  s1 = s1
  Nobody = Nobody
  Machine <- MCMachine
  Service <- MCService
  Dials <- WithMe
  PortCount = 2
  HasAdversary = TRUE
  MaxIds = 3
  Crashable <- Both
  Pausable = {c1}
PROPERTIES CrashIsNoticed
