\* Buffered requests: two workers, two slots, handles that go round.
SPECIFICATION Spec
CONSTANTS
  Workers = {w1, w2}
  CAPACITY = 2
  STREAM_CAPACITY = 1
  MAX_HANDLE = 3
  Modes = {0}
  Body = 0
  Fds = {1, 2}
  MaxHops = 1
  None = None
SYMMETRY WorkerSymmetry
INVARIANTS SlotStable QueueExact HandlesUnique SocketsOwned CancelReachesSocket
