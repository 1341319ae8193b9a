SPECIFICATION FairSpec
CONSTANTS
  MaxInt64 = 5
  MaxUint64 = 6
  Rules = {1, 2}
  TotalRules = {1, 2}
  Keys <- TwoKeys
  KeyOf <- KeyPerRule
  Requests = {q1, q2}
  Limits = {2}
  Periods = {1}
  Costs <- UnitCost
  Times = {0}
  BatchSize = 1
  MaxPeriodicRules = 4
  MaxWrites = 0
  MaxFaults = 1
  MaxRestarts = 1
  LogEvents = FALSE
PROPERTIES
  EventuallyPersisted
  StopTerminates
CHECK_DEADLOCK FALSE
