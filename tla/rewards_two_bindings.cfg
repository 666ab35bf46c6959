SPECIFICATION Spec
CONSTANTS
  Users = {u1, u2}
  Existing = {u1}
  Phones = {p1}
  Logins = {l1}
  Requests = {r1, r2}
  Kinds = {"bind"}
  NoUser = NoUser
  NoName = NoName
  MaxFaults = 0
  MaxCrashes = 0
CHECK_DEADLOCK FALSE
INVARIANTS OneInitialBinding
