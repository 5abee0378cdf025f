\* Two connections and two descriptors, a request on each of them, two
\* workers, a file of at most two bytes that changes at most once; the second
\* client does not read what it is sent.
CONSTANTS
  c1 = c1
  c2 = c2
  r1 = r1
  r2 = r2
  Requests = {r1, r2}
  Capacity = 2
  Stalled = {r2}
  Conns = {c1, c2}
  Fds = {4, 5}
  None = None
  ClientOf <- EachItsOwn
  Asks <- FileAsks
  OffMax = 3
  MaxSize = 2
  Sizes = {1, 2}
  MaxChanges = 1
SPECIFICATION FairSpec
INVARIANTS
  TypeOK
  BytesOnce
  OnlyOwnAnswers
  SteadyComplete
PROPERTIES
  Responded
CHECK_DEADLOCK FALSE
