SPECIFICATION FairSpec
CONSTANTS
  LevelTexts <- MCLevels
  EntityTexts <- MCEntities
  Junk <- MCJunk
INVARIANT BoardShows
PROPERTIES LoadedAsWritten PointsAreDots DeadNeverWins OrdersInTurn RoundsRepeat
CHECK_DEADLOCK FALSE
