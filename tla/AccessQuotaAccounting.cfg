SPECIFICATION Spec
CONSTANTS
  MaxInt64 = 5
  MaxUint64 = 5
  Rules = {1, 2}
  TotalRules = {1}
  Keys <- OneKey
  KeyOf <- AllOnOneKey
  Requests = {q1, q2}
  Limits = {2}
  Periods = {1, 2}
  Costs <- CostsUp
  Times = {0, 1, 2}
  BatchSize = 2
  MaxPeriodicRules = 4
  MaxWrites = 1
  MaxFaults = 0
  MaxRestarts = 0
  LogEvents = FALSE
INVARIANTS
  LedgerExact
  AdmittedUnderOwnRules
  
PROPERTIES
  WindowsDisjoint
  UsageMonotone
SYMMETRY RequestSymmetry
CHECK_DEADLOCK FALSE
