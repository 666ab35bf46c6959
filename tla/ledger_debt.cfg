SPECIFICATION Spec
CONSTANTS
  Calls = {c1, c2}
  MaxRows = 1
  Amounts = {1, 2}
  Periods = {1}
  MaxTime = 0
  MaxFaults = 0
CHECK_DEADLOCK FALSE
INVARIANTS DebtIsUncovered
