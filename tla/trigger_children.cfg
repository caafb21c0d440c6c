SPECIFICATION FairSpec
CONSTANTS
  Pids = {p1, p2, p3, p4}
  NoPid = NoPid
  children_max = 3
  PidWrap = FALSE
INVARIANTS NoAbort ChildListExact LimitRespected AllCollectedAtExit
PROPERTIES WaitEnds MergedSignalsCollectAll
CHECK_DEADLOCK FALSE
