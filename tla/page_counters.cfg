SPECIFICATION Spec
CONSTANTS
  N = 2
  MaxCounters = 3
  Records <- FivePages
  PageSize = 4
  CharValues = 4
  Configs <- AllKinds
  page_trigger_conf <- OneIn1
  mp_replacement_trigger_conf <- TwoIn2
  MaxTime = 1
  MaxRecords = 6
INVARIANTS PoolConsistent CounterIsOwn AttemptsAreLimited
CHECK_DEADLOCK FALSE
