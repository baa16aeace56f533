\* Three clients and a ring of two: the third request reuses a slot.
CONSTANTS
  Clients = {c1, c2, c3}
  Managers = {m1, m2}
  QueueSize = 2
  MaxUsr1 = 2
  Stale = Stale
SPECIFICATION Spec
SYMMETRY Symmetry
INVARIANTS TypeOK TokensConserved RingConsistent NoStaleSession
           LeaderboardOwed
PROPERTY ChannelUntilOverrun
CHECK_DEADLOCK FALSE
