\* One request, for any range of a file of at most two bytes, with another
\* behind it on the same connection; off_t is 3 bits.
CONSTANTS
  c1 = c1
  c2 = c2
  r1 = r1
  r2 = r2
  Requests = {r1, r2}
  Capacity = 1
  Stalled = {}
  Conns = {c1, c2}
  Fds = {4}
  None = None
  ClientOf <- BothOnOne
  Asks <- RangeAsks
  OffMax = 3
  MaxSize = 2
  Sizes = {0, 1, 2}
  MaxChanges = 1
SPECIFICATION Spec
PROPERTIES
  RangeAsAsked
CHECK_DEADLOCK FALSE
