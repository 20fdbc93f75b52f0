\* Simulations of three nodes and two clients under every set of adversaries.
SPECIFICATION Spec
CONSTANTS
  Replicas = {3}
  Clients = {2}
  Keys = {1}
  Threshold = 1
  Nowhere = Nowhere
  Args <- MCArgs
INVARIANTS FaultsAreUndone NobodyPanics VerdictIsEarned
\* The process exits.
PROPERTIES CallGoesOn CompletesWhenCalm
CHECK_DEADLOCK FALSE
