SPECIFICATION Spec
CONSTANTS
  w1 = w1
  w2 = w2
  r1 = r1
  r2 = r2
  r3 = r3
  text = text
  command = command
  sticker = sticker
  album = album
  photo = photo
  Updates = {1, 2}
  Replies = {r1, r2}
  NoReply = NoReply
  NoRow = NoRow
  InflightTimeout = 1
  Retention = 1
  Workers = {w1, w2}
  Messages = {album}
  NoMessage = NoMessage
  Parts <- OneAlbum
  Commands = {}
  Unsupported = {}
  Albums = {album}
  PruneInterval = 1
  MaxTime = 3
  MayFail = TRUE
  MayCrash = TRUE
SYMMETRY TasksAndReplies
CHECK_DEADLOCK FALSE
INVARIANT TypeOK
INVARIANT ClaimExclusive
INVARIANT SentImpliesAnswered
INVARIANT NoRegeneration
PROPERTY StoredReplySurvives
PROPERTY ImplementsLedger
