\* One level of one row with a portal on its left, a ghost that may charge.
CONSTANTS
  g1 = g1
  g2 = g2
  Width = 4
  Height = 1
  Walls = {}
  Portals = {0}
  Ghosts = {g1}
  GhostStart <- RowGhost
  PacStart = 1
  Orders = {"A", "D", "C"}
  Levels = 1
  MaxBacklog = 1
SPECIFICATION SessionFairSpec
PROPERTY VictoryFinishesLevel
CHECK_DEADLOCK FALSE
