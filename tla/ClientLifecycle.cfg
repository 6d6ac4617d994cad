\* Three calls on one client of either kind, a server with one handler.
CONSTANTS
  Calls = {c1, c2, c3}
  PoolSize = 1
SPECIFICATION FairSpec
INVARIANTS LateCallsRefused AsyncEscapesOnlyCut
PROPERTIES SubscriberServed
CHECK_DEADLOCK FALSE
