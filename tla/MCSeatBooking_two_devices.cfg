SPECIFICATION Spec
CONSTANTS
  u1 = u1
  u2 = u2
  Users = {u1, u2}
  Seats = {s1, s2}
  NoUser = NoUser
  NoLoop = NoLoop
  Requests = {r1, r2}
  Loops = {l1}
  MaxBookable = 2
  FreeEvent = FALSE
  Second = 1
  EventEnd = 99
  SessionTTL = 3
  AuthEnds <- TwoLogins
  LastGrant = 3
  MaxTime = 6
  Faults = {}
CHECK_DEADLOCK FALSE
INVARIANTS HoldsShareLockedUntil
