\* Streams next to buffered requests: one worker, a ring the body wraps around.
SPECIFICATION FairSpec
CONSTANTS
  Workers = {w1}
  CAPACITY = 2
  STREAM_CAPACITY = 2
  MAX_HANDLE = 3
  Modes = {0, 1}
  Body = 3
  Fds = {1}
  MaxHops = 0
  None = None
INVARIANTS StreamInOrder BlockedCallKeepsTask
PROPERTIES ImplementsRequests CancelFreesWorker ReleaseFreesSlot
\* The program can block itself for good (see MC_AsyncNet_deadlock.cfg).
CHECK_DEADLOCK FALSE
