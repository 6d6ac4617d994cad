\* Two orders, and a caller that calls again after an error.
CONSTANTS
  Orders = {o1, o2}
  MaxCalls = 2
  AccountWide = AccountWide
  RefusalCodes = {"PERMISSION_DENIED"}
SPECIFICATION Spec
INVARIANTS SweepTypeOK SweepHonest NoneOverlooked
CHECK_DEADLOCK FALSE
