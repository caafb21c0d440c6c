SPECIFICATION Spec
CONSTANTS
  Conns = {c1, c2, c3, c4}
  Pings = {}
  Allowed = {c1, c2, c3, c4}
  MAX_POLLFD = 5
  Chunks = 1
SYMMETRY ConnSymmetry
INVARIANTS OnlyClosedClientsDropped
