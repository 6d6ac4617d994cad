\* Three order calls under one key: submit, modify and cancel race each
\* other, fills and the exchange's expiry; two calls, with a restart.
CONSTANTS
  Calls = {c1, c2, c3}
  Keys = {k1}
  RefusalCodes = {"INVALID_ARGUMENT", "UNAVAILABLE"}
  GiveUpCodes = {"DEADLINE_EXCEEDED"}
  NoCall = NoCall
  MaxRev = 1
  MaxRestarts = 1
SPECIFICATION MCSpec
SYMMETRY Symmetry
INVARIANTS CallInv HonestRejection KeyProtection NotProcessedFreesKey
PROPERTIES KeepsPromise
CHECK_DEADLOCK FALSE
