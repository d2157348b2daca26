\* More unread streams than workers: a read that never returns.
SPECIFICATION AnsweringSpec
CONSTANTS
  Workers = {w1}
  CAPACITY = 2
  STREAM_CAPACITY = 1
  MAX_HANDLE = 3
  Modes = {1}
  Body = 2
  Fds = {1}
  MaxHops = 0
  None = None
PROPERTY StreamReadReturns
CHECK_DEADLOCK FALSE
