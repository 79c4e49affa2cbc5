SPECIFICATION Spec
CONSTANTS
  w1 = w1
  w2 = w2
  r1 = r1
  r2 = r2
  r3 = r3
  text = text
  command = command
  sticker = sticker
  album = album
  photo = photo
  Updates = {1}
  Replies = {r1}
  NoReply = NoReply
  NoRow = NoRow
  InflightTimeout = 1
  Retention = 2
  Workers = {w1}
  Messages = {text}
  NoMessage = NoMessage
  Parts <- TextParts
  Commands = {}
  Unsupported = {}
  Albums = {}
  PruneInterval = 1
  MaxTime = 1
  MayFail = TRUE
  MayCrash = FALSE
CHECK_DEADLOCK FALSE
INVARIANT RetryCanRegenerate
