SPECIFICATION Spec
CONSTANTS
  w1 = w1
  w2 = w2
  w3 = w3
  None = None
  Workers <- TwoWorkers
  NTasks = 1
  MAX_CLIENTS = 2
INVARIANTS
  TaskNotLost
CHECK_DEADLOCK FALSE
