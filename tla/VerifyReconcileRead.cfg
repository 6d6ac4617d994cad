\* A get_order that fails while the submit is still on its way.
CONSTANTS
  Calls = {"probe", "reuse", "cancel"}
  Keys = {k1, k2}
  RefusalCodes = {"FAILED_PRECONDITION"}
  GiveUpCodes = {"DEADLINE_EXCEEDED"}
  NoCall = NoCall
  MaxRev = 0
  MaxRestarts = 0
  Coid = k1
  Troubles = {"read"}
SPECIFICATION PassSpec
INVARIANTS ProbeAlwaysAccounted
CHECK_DEADLOCK FALSE
