\* One descriptor for two connections: the second accept4 fails with EMFILE.
CONSTANTS
  Conns = {c1, c2}
  Fds = {4}
  listen_fd = 3
  None = None
  LISTEN_BACKLOG = 2
  MAX_EPOLL_EVENT_SIZE = 2
  WATCHES_SCARCE = FALSE
  MAX_MSGS = 1
SPECIFICATION Spec
INVARIANTS
  NoMissedEdge
CHECK_DEADLOCK FALSE
