SPECIFICATION FairSpec
CONSTANTS
  MaxStarts = 2
  MaxGen = 4
  MaxLate = 1
INVARIANTS TypeOK PasswordOfPeer
PROPERTIES DirectoriesOfPeer EventsNamePeer OneLateEvent FirstDirectoryRead
CHECK_DEADLOCK FALSE
