SPECIFICATION MCSpec
CONSTANTS
  u1 = u1
  u2 = u2
  u3 = u3
  p1 = p1
  p2 = p2
  e1 = e1
  e2 = e2
  w1 = w1
  w2 = w2
  a1 = a1
  a2 = a2
  Users = {u1, u2, u3}
  Phones = {p1, p2}
  Emails = {e1, e2}
  Unions = {w1, w2}
  Apples = {a1, a2}
  Start <- TwoUsers
  Requests = {r1, r2}
  Kinds = {"code", "signup", "password", "wechat", "apple", "bind", "reset", "newpassword", "phone", "destroy", "profile", "check", "try"}
  None = None
  Nothing = Nothing
  Null = Null
  Blank = Blank
  MaxFaults = 1
  Jobs = {"clear-expired-task", "clear-expired-cache"}
  Servers = {s1, s2, s3}
  Setters = {set1, set2}
  Updaters = {k1, k2, k3}
  Task = task
  Errors = {x1, x2}
  Lease = 1
  JobLimit = 2
  Ttl = 1
  Keep = 1
  Horizon = 3
CHECK_DEADLOCK FALSE
SYMMETRY Symmetry
INVARIANTS NoSignInAfterDestroy WritesSurvive LinksMoveKnownWays AnswersAgree OnlyAppleMailIsBlank OverlapNeedsExpiry LastSetIsRead AnswersAReport
