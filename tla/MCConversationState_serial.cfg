SPECIFICATION Spec
CONSTANTS
  w1 = w1
  w2 = w2
  m1 = m1
  m2 = m2
  m3 = m3
  Workers = {w1}
  Messages = {m1, m2, m3}
  NoMessage = NoMessage
  NoSession = NoSession
  NoReply = NoReply
  MaxTurns = 2
  MinTurns = 2
  Ttl = 1
  MaxTime = 4
  MayFail = FALSE
CHECK_DEADLOCK FALSE
INVARIANT TypeOK
PROPERTY ImplementsConversation
