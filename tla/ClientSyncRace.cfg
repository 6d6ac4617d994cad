\* close() between a thread's check of _closed and its use of the channel.
CONSTANTS
  Calls = {c1, c2}
  PoolSize = 1
SPECIFICATION Spec
INVARIANTS NeverOnClosedChannel
CHECK_DEADLOCK FALSE
