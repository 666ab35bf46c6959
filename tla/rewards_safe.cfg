SPECIFICATION Spec
CONSTANTS
  Users = {u1, u2, u3}
  Existing = {u1}
  Phones = {p1, p2}
  Logins = {l1}
  Requests = {r1, r2}
  Kinds = {"phone", "wechat", "bind"}
  NoUser = NoUser
  NoName = NoName
  MaxFaults = 0
  MaxCrashes = 1
CHECK_DEADLOCK FALSE
SYMMETRY Symmetry
INVARIANTS GiftsBounded GiftsEarned RepeatedGiftNeedsRace
