SPECIFICATION FairSpec
CONSTANTS
  q1 = q1
  Requests = {q1}
  Tasks = {1, 2}
  NoTask = NoTask
  MaxImages = 2
  Slots = 1
  Faults = {"download", "lookup", "remove"}
CHECK_DEADLOCK FALSE
INVARIANT TypeOK
INVARIANT SlotsConserved
INVARIANT FilesOwned
INVARIANT NoHalfReplies
INVARIANT NothingOutlivesItsJob
INVARIANT ShutdownReachesAll
PROPERTY ExitIsNotHeldUp
PROPERTY ExecEnds
