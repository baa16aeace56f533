SPECIFICATION FairSpec
CONSTANTS
  Levels <- MCLevels
  Files <- MCFiles
  MaxLevels = 2
  MaxMoves = 3
  MaxGhosts = 4
INVARIANT FilesTypeOK
PROPERTIES LevelAsWritten OrdersServed SoundLevelsPlay
CHECK_DEADLOCK FALSE
