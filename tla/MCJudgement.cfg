\* Sets, Gets and compare-and-sets of one key; the limit cuts the longest searches off.
SPECIFICATION Spec
CONSTANTS
  Default = Default
  Unit = Unit
  None = None
  Key = {k}
  Val <- MCVal
  Client <- MCClient
  v1 = v1
  v2 = v2
  c1 = c1
  c2 = c2
  MaxCalls = 3
  MaxTime = 1
  MaxGiven = 3
  LastMoment = 3
  TimeLimit = 8
  Histories <- MCHistories
INVARIANTS RightIsFoundRight RefusedIsNotLinearizable AcceptedIsLinearizable PlacedInOrder
\* The judgement is the end.
CHECK_DEADLOCK FALSE
SYMMETRY Alike
