SPECIFICATION FairSpec
CONSTANTS
  Calls = {c1, c2}
  MaxRows = 2
  Amounts = {1, 2, 3}
  Periods = {1, 2}
  MaxTime = 1
  MaxFaults = 1
CHECK_DEADLOCK FALSE
INVARIANTS ShownIsSpendable NeverOvercharged ChargedExactly
PROPERTIES SpendsInOrder CallsReturn
