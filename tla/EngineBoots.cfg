SPECIFICATION Spec
CONSTANTS
  b1 = b1
  b2 = b2
  b3 = b3
  Boots = {b1, b2}
  None = None
  Policies = {TRUE, FALSE}
  MaxRetries = 2
INVARIANTS TypeOK NoStrayWorker NoLatchedFailure
CHECK_DEADLOCK FALSE
PROPERTIES OnlineIsNotMissed NobodyWaits
