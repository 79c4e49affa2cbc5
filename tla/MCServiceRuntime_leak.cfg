SPECIFICATION Spec
CONSTANTS
  q1 = q1
  Requests = {q1}
  Tasks = {1, 2}
  NoTask = NoTask
  MaxImages = 2
  Slots = 1
  Faults = {"lookup"}
CHECK_DEADLOCK FALSE
INVARIANT CallerRemovesDirectory
