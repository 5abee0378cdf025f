\* A frame longer than the stream holds, and a server that may be slow to read.
CONSTANTS
  Base = 4
  BodyLengths = {3}
  Senders = {"nonblock"}
  MaxSends = 2
  Capacity = 3
  MAX_RETRY_TIMES = 2
SPECIFICATION Spec
INVARIANTS
  ReturnsWhenDone
CHECK_DEADLOCK FALSE
