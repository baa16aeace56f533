\* Typed moves or a file that may ask for backups, two ghosts, two levels.
CONSTANTS
  Ghosts = {g1, g2}
  Levels = 2
SPECIFICATION FairSpec
INVARIANTS GameTypeOK ForksAlone
PROPERTIES ThreadsKeepTheEnd QuitEnds
CHECK_DEADLOCK FALSE
