SPECIFICATION MCSpec
CONSTANTS
  Sends = {s1, s2, s3, s4}
  Windows = {"minute", "day"}
  Minute = 1
  MinuteTTL = 1
  DayTTL = 2
  DayMax = 2
  MaxTime = 3
  MaxFaults = 1
  Never = Never
  Rates = {2, 3, 4}
  Interval = 2
  Pauses = {0, 1, 2, 3}
  Tries = 7
CHECK_DEADLOCK FALSE
SYMMETRY Symmetry
INVARIANTS CloseSendsOverlap DailyLimitHolds CountersExpire LimitIsBounded BelowLimitAdmitted
