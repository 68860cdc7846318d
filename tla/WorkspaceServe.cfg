SPECIFICATION Spec
CONSTANTS
  A = A
  B = B
  c1 = c1
  c2 = c2
  Agents = {A, B}
  Calls = {c1, c2}
  Owner <- MCOwner
  QueueSize = 1
  MaxServes = 2
  MaxCrashes = 1
  MaxRestarts = 1
  Kinds <- MCKinds
CHECK_DEADLOCK FALSE
INVARIANTS RunsAtMostOnce RunsInItsWorkspace TableIsTrue 
