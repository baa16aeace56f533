CONSTANTS
  Clients = {c1, c2}
  Managers = {m1, m2}
  QueueSize = 1
  MaxUsr1 = 0
  Stale = Stale
SPECIFICATION FairSpec
PROPERTIES ManagersExit RequestsServed
CHECK_DEADLOCK FALSE
