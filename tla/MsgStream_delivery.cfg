\* Bytes of four values, so that lengths wrap at sixteen; two messages of up to
\* three bytes, or so long that only zero or one byte is sent; a stream of
\* three bytes, shorter than most frames.
CONSTANTS
  Base = 4
  BodyLengths = {0, 1, 3, 14, 15}
  Senders = {"nonblock", "epoll"}
  MaxSends = 2
  Capacity = 3
  MAX_RETRY_TIMES = 2
SPECIFICATION FairSpec
INVARIANTS
  TypeOK
  ReceivedInOrder
  BytesInTransit
  LoggedIsBody
PROPERTIES
  ImplementsQueue
  CallsReturn
  AllReceived
CHECK_DEADLOCK FALSE
