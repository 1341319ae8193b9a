SPECIFICATION Spec
CONSTANTS
  MaxInt64 = 5
  MaxUint64 = 6
  Rules = {1}
  TotalRules = {}
  Keys <- OneKey
  KeyOf <- AllOnOneKey
  Requests = {q1, q2}
  Limits = {2}
  Periods = {1, 2}
  Costs <- UnitCost
  Times = {0, 2}
  BatchSize = 1
  MaxPeriodicRules = 4
  MaxWrites = 1
  MaxFaults = 1
  MaxRestarts = 1
  LogEvents = FALSE
INVARIANTS
  CleanMeansDurable
  RowNeverAhead
  AlwaysBootable
  
  Durability
PROPERTIES
  RowMonotone
SYMMETRY RequestSymmetry
CHECK_DEADLOCK FALSE
