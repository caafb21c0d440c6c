SPECIFICATION FairSpec
CONSTANTS
  Conns = {c1, c2, c3}
  Pings = {c1}
  Allowed = {c1, c2}
  MAX_POLLFD = 4
  Chunks = 2
INVARIANTS NoAssertionFails TableIsRight
PROPERTIES MceProcessed Answered
