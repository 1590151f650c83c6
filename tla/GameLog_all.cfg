SPECIFICATION FairSpec
CONSTANTS
  Scripts <- MCScripts
  MaxStarts = 2
  MaxBuffered = 2
  Chunk = 3
  HeadSize = 3
INVARIANTS
  NothingSkipped
  OpenRowsAreFollowed
  InOrderOnce
  KnownAccountIsStamped
PROPERTIES
  ReadToTheEnd
CHECK_DEADLOCK FALSE
