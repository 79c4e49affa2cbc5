SPECIFICATION Spec
CONSTANTS
  p1 = p1
  p2 = p2
  p3 = p3
  c1 = c1
  c2 = c2
  Callers = {p1, p2, p3}
  Chats = {c1, c2}
  Window = 2
  Max = 1
  MaxTime = 4
SYMMETRY CallersAndChats
CHECK_DEADLOCK FALSE
INVARIANT TypeOK
INVARIANT NeverOutgrows
INVARIANT WindowBound
PROPERTY NoQuietChats
