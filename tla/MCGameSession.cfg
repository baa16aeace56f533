\* Two levels of 3 x 2 cells, one of them a portal, with two ghosts.
CONSTANTS
  g1 = g1
  g2 = g2
  Width = 3
  Height = 2
  Walls = {}
  Portals = {3}
  Ghosts = {g1, g2}
  GhostStart <- TwoGhosts
  PacStart = 0
  Orders = {"W", "A"}
  Levels = 2
  MaxBacklog = 1
SPECIFICATION SessionSpec
INVARIANTS NoGhostAfterFree GhostsApart BoardTruthful LocksReleased
PROPERTIES ScoreKept DeadStaysDead
CHECK_DEADLOCK FALSE
