SPECIFICATION Spec
CONSTANTS
  N = 2
  MaxCounters = 3
  Records <- FivePages
  PageSize = 4
  CharValues = 256
  Configs <- AccountOnly
  page_trigger_conf <- Disabled
  mp_replacement_trigger_conf <- TwoIn2
  MaxTime = 1
  MaxRecords = 8
PROPERTIES ReplacesLeastRecent
CHECK_DEADLOCK FALSE
