SPECIFICATION FairSpec
CONSTANTS
  Pids = {p1, p2, p3, p4}
  NoPid = NoPid
  children_max = 2
  PidWrap = FALSE
PROPERTIES SlotsFreed
CHECK_DEADLOCK FALSE
