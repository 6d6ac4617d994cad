\* The pass with every trouble around it.
CONSTANTS
  Calls = {"probe", "reuse", "cancel"}
  Keys = {k1, k2}
  RefusalCodes = {"FAILED_PRECONDITION"}
  GiveUpCodes = {"DEADLINE_EXCEEDED"}
  NoCall = NoCall
  MaxRev = 0
  MaxRestarts = 1
  Coid = k1
  Troubles = {"read", "late", "receipt", "rebuild", "restart"}
SPECIFICATION FairPassSpec
INVARIANTS AbsentIsFinal ReuseNeverAccepted ProbeAccounted
PROPERTIES PassEnds
CHECK_DEADLOCK FALSE
