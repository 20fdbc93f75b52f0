\* A violation: one Set and two Gets, nothing crashes.
SPECIFICATION Spec
CONSTANTS
  n1 = n1
  n2 = n2
  n3 = n3
  set1 = set1
  set2 = set2
  get1 = get1
  get2 = get2
  Nothing = Nothing
  None = None
  Node <- MCNode
  SetCall <- OneSet
  GetCall <- TwoGets
  WallTime <- MCWallTime
  Crashable <- NoCrashes
INVARIANT ReadsDoNotGoBack
SYMMETRY AllAlike
