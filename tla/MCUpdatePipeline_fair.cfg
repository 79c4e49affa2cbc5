SPECIFICATION FairSpec
CONSTANTS
  w1 = w1
  w2 = w2
  r1 = r1
  r2 = r2
  r3 = r3
  text = text
  command = command
  sticker = sticker
  album = album
  photo = photo
  Updates = {1, 2, 3, 4}
  Replies = {r1, r2}
  NoReply = NoReply
  NoRow = NoRow
  InflightTimeout = 1
  Retention = 2
  Workers = {w1, w2}
  Messages = {album, photo, command, sticker}
  NoMessage = NoMessage
  Parts <- MixedParts
  Commands = {command}
  Unsupported = {sticker}
  Albums = {album}
  PruneInterval = 1
  MaxTime = 1
  MayFail = FALSE
  MayCrash = FALSE
CHECK_DEADLOCK FALSE
PROPERTY AckedIsAnswered
