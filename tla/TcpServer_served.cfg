\* Descriptors and watches suffice, and each batch holds one event, so that more
\* is ready than fits: what the reactor owes its clients under FairSpec.
CONSTANTS
  Conns = {c1, c2}
  Fds = {4, 5, 6}
  listen_fd = 3
  None = None
  LISTEN_BACKLOG = 2
  MAX_EPOLL_EVENT_SIZE = 1
  WATCHES_SCARCE = FALSE
  MAX_MSGS = 2
SPECIFICATION FairSpec
PROPERTIES
  AcceptedEventually
  ServedAgain
  ReleasedEventually
CHECK_DEADLOCK FALSE
