SPECIFICATION MCSpec
CONSTANTS
  Limits = {10}
  Lifted = 1000
  Caps = {0}
  NoCap = NoCap
  Unread = Unread
  Scoped = TRUE
  MaxSteps = 1
CHECK_DEADLOCK FALSE
INVARIANTS
  ExitIsTrue
  PutBack
  LeftoverReported
