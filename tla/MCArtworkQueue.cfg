CONSTANTS
  album = album
  track = track
  Item = {album, track}
  Rechecked = {album}
  Albums = {album}
  cover = cover
  front = front
  Image = {cover, front}
  Finds <- Covers
  Pools <- OnePool
  Slots = 1
  MaxEvents = 2
SPECIFICATION FairSpec
INVARIANTS SettledIsCurrent ReferencedIsKept
PROPERTY EveryRowSettles
CHECK_DEADLOCK FALSE
