\* Two slots for the descriptors 2, which select looks at, and 3, which it does
\* not; 4 can only leak, and four connections use up all three.
\* Every recv empties its connection (MAX_UNREAD is below RECV_BUF_SIZE).
CONSTANTS
  Conns = {c1, c2, c3, c4}
  None = None
  listen_fd = 1
  LAST_FD = 4
  MAX_CLIENT_NUM = 2
  LISTEN_BACKLOG = 1
  RECV_BUF_SIZE = 2
  MAX_UNREAD = 1
SPECIFICATION FairSpec
INVARIANTS
  TypeOK
  SlotsOpen
  LeaksStayAbove
  ReadyFresh
PROPERTIES
  UnheardForEver
  ServedAgain
  Released
  AcceptedEventually
CHECK_DEADLOCK FALSE
