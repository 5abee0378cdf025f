\* Three workers, and a request of each kind: answered; one whose handling throws
\* and whose client may leave before; one that keeps its worker, sent behind
\* another; and one that keeps the reactor.
CONSTANTS
  Workers = {w1, w2, w3}
  Requests = {r1, r2, r3, r4}
  None = None
  Silent = {r4}
  Stalled = {r3}
  Escaping = {r2}
  Leaving = {r2}
  Pipelined = {r3}
SPECIFICATION FairSpec
INVARIANTS
  TypeOK
  EachOnce
  NoIdleWhileQueued
  MissedOnlyInWindow
PROPERTIES
  ImplementsPool
  Answered
CHECK_DEADLOCK FALSE
