SPECIFICATION Spec
CONSTANTS
  MaxInt64 = 3
  MaxUint64 = 3
  Rules = {1, 2}
  TotalRules = {1}
  Keys <- OneKey
  KeyOf <- AllOnOneKey
  Requests = {q1, q2, q3}
  Limits = {3}
  Periods = {1}
  Costs <- CostsFault
  Times = {0, 1}
  BatchSize = 2
  MaxPeriodicRules = 4
  MaxWrites = 0
  MaxFaults = 0
  MaxRestarts = 0
  LogEvents = FALSE
INVARIANTS
  LedgerExact
  TypeOK
SYMMETRY RequestSymmetry
CHECK_DEADLOCK FALSE
