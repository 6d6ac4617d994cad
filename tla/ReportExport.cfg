\* Both clients; no timeout, none left, or three ticks; requests that wait twice on their socket.
CONSTANTS
  Timeouts = {0, 3, NoTimeout}
  NoTimeout = NoTimeout
  RequestTimeout = 2
  FirstPoll = 1
  MaxPoll = 2
  HeadWaits = 2
  FileSizes = {0, 2}
  MaxPause = 4
SPECIFICATION FairAsyncSpec
INVARIANTS AsyncTypeOK OneLateRequest WholeFileOnly TimeoutKept
PROPERTIES ExportEnds CancelReleases
CHECK_DEADLOCK FALSE
