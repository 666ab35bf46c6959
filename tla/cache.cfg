SPECIFICATION MCSpec
CONSTANTS
  Requests = {r1, r2}
  Kinds = {"view", "update", "bind", "destroy"}
  TTL = 2
  Deadline = 1
  MaxTime = 5
  MaxFaults = 1
  None = None
  Holders = {h1, h2, h3}
  Asked <- AskedAmounts
  MaxFailures = 1
CHECK_DEADLOCK FALSE
SYMMETRY Symmetry
INVARIANTS OnlyActiveCached StalenessBounded FreshAfterBind FrozenCovered NeverStuck
