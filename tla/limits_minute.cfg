\* One tick is ten seconds: the counter lives five of them, a minute is six.
SPECIFICATION Spec
CONSTANTS
  Sends = {s1, s2}
  Windows = {"minute", "day"}
  Minute = 6
  MinuteTTL = 5
  DayTTL = 8640
  DayMax = 5
  MaxTime = 7
  MaxFaults = 0
  Never = Never
CHECK_DEADLOCK FALSE
INVARIANTS OneAMinute
