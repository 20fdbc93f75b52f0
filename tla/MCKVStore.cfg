\* Two Sets and a Get; one node crashes, again and again.
SPECIFICATION Spec
CONSTANTS
  n1 = n1
  n2 = n2
  n3 = n3
  set1 = set1
  set2 = set2
  get1 = get1
  get2 = get2
  Nothing = Nothing
  None = None
  Node <- MCNode
  SetCall <- TwoSets
  GetCall <- OneGet
  WallTime <- MCWallTime
  Crashable <- Minority
INVARIANTS AckedIsKept ReadsAreFresh
PROPERTY StampsGrow
SYMMETRY Alike
