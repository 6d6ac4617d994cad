\* Every kind of stream; two recalls by the reader of one.
CONSTANTS
  Rows = {r1, r2}
  Watched = r1
  MaxRev = 2
  QueueLimit = 2
  MaxUpsets = 2
  NoPage = NoPage
  Recalls = {c1, c2}
  NoRecall = NoRecall
SPECIFICATION MCSpec
INVARIANTS ViewIsFeed CleanEndIsDone
PROPERTIES TailNeverOlder Converges RecallKeepsPromise
CHECK_DEADLOCK FALSE
