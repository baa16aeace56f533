\* Three clients and two managers: a manager is used twice, the registry is full.
CONSTANTS
  Clients = {c1, c2, c3}
  Managers = {m1, m2}
  None = None
SPECIFICATION PoolSpec
INVARIANTS PoolTypeOK PoolServes ShutdownJoins QuietIsStill
SYMMETRY Symmetry
CHECK_DEADLOCK FALSE
