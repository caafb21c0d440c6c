SPECIFICATION Spec
CONSTANTS
  Sockets = {0}
  Dimms = {1, 2}
  NoDimm = NoDimm
  AnyDimm = AnyDimm
  Ranks = {6}
  Counts = {0, 3}
  dimms <- DimmTriggers
  sockets <- SocketTriggers
  MaxLag = 1
  MaxTime = 3
  MaxRecords = 2
INVARIANTS TotalsExact TriggersReal RankIsStable
CHECK_DEADLOCK FALSE
