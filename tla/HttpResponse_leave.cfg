\* One request for a whole file, from a client that may leave.
CONSTANTS
  c1 = c1
  c2 = c2
  r1 = r1
  r2 = r2
  Requests = {r1}
  Capacity = 1
  Stalled = {}
  Conns = {c1, c2}
  Fds = {4}
  None = None
  ClientOf <- Sender
  Asks <- LeaveAsks
  OffMax = 3
  MaxSize = 2
  Sizes = {0, 1, 2}
  MaxChanges = 1
SPECIFICATION Spec
INVARIANTS
  SurvivesClients
CHECK_DEADLOCK FALSE
