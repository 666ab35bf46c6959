SPECIFICATION FairSpec
CONSTANTS
  Sends = {s1, s2}
  Uses = {u1, u2}
  CodeTTL = 2
  TaskAge = 1
  Workers = 10
  MaxTime = 2
  MaxFaults = 1
CHECK_DEADLOCK FALSE
INVARIANTS ArrivesUsable ReuseNeedsOverlap
PROPERTIES QueuedCodeArrives
