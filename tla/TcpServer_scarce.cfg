\* Descriptors and watches run out: two descriptors for three connections, one
\* of them a stdio number, which close_client refuses; epoll_ctl may fail;
\* batches of two events, a listen queue of two.
CONSTANTS
  Conns = {c1, c2, c3}
  Fds = {2, 3}
  listen_fd = 1
  None = None
  LISTEN_BACKLOG = 2
  MAX_EPOLL_EVENT_SIZE = 2
  WATCHES_SCARCE = TRUE
  MAX_MSGS = 1
SYMMETRY ConnSymmetry
SPECIFICATION Spec
INVARIANTS
  TypeOK
  BatchFresh
  OnlyHangupsClosed
  OneHome
  EdgeOrError
CHECK_DEADLOCK FALSE
