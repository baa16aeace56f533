\* Two ghosts that charge along one column of four cells, the top one a wall.
CONSTANTS
  g1 = g1
  g2 = g2
  Width = 1
  Height = 4
  Walls = {0}
  Portals = {}
  Ghosts = {g1, g2}
  GhostStart <- ColumnGhosts
  PacStart = 1
  Orders = {"W", "S", "C"}
SPECIFICATION BoardFairSpec
INVARIANT DotsConserved
PROPERTY TurnsEnd
CHECK_DEADLOCK FALSE
