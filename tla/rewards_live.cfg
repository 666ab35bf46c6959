SPECIFICATION FairSpec
CONSTANTS
  Users = {u1, u2}
  Existing = {u1}
  Phones = {p1}
  Logins = {l1}
  Requests = {r1}
  Kinds = {"email", "phone", "apple", "bind"}
  NoUser = NoUser
  NoName = NoName
  MaxFaults = 1
  MaxCrashes = 2
CHECK_DEADLOCK FALSE
INVARIANTS RowTellsTruth
PROPERTIES ImplementsOutbox QueuedGiftArrives TasksFinish
