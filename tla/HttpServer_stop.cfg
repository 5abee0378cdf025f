\* Nothing stalls: what keeps stop() from returning is the server's own doing.
CONSTANTS
  Workers = {w1, w2}
  Requests = {r1}
  None = None
  Silent = {}
  Stalled = {}
  Escaping = {}
  Leaving = {}
  Pipelined = {}
SPECIFICATION FairSpec
PROPERTIES
  StopReturns
CHECK_DEADLOCK FALSE
