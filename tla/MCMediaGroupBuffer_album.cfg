SPECIFICATION FairSpec
CONSTANTS
  w1 = w1
  w2 = w2
  p1 = p1
  p2 = p2
  album = album
  Workers = {w1, w2}
  Photos = {p1, p2}
  Keys = {album}
  KeyOf <- OneAlbum
  NoPhoto = NoPhoto
  NoDeadline = NoDeadline
  Wait = 1
  MaxTime = 2
  Faults = {"enqueue", "flush", "crash"}
CHECK_DEADLOCK FALSE
INVARIANT TypeOK
INVARIANT NoOrphanPhotos
INVARIANT AlbumAttended
PROPERTY AlbumFlushed
