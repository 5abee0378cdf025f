\* Two connections; the terminator has three bytes, and a header six or fewer.
CONSTANTS
  Conns = {c1, c2}
  None = None
  Streams <- ShortAndLong
  EOF_LEN = 3
  MAX_SIZE = 6
SPECIFICATION FairSpec
INVARIANTS
  TypeOK
  HeadsWhole
  ThrowsForCause
PROPERTIES
  OverrunBounded
  HeadsReturned
CHECK_DEADLOCK FALSE
