SPECIFICATION Spec
CONSTANTS
  u1 = u1
  u2 = u2
  Users = {u1, u2}
  Seats = {s1}
  NoUser = NoUser
  NoLoop = NoLoop
  Requests = {r1, r2}
  Loops = {l1, l2}
  MaxBookable = 1
  FreeEvent = FALSE
  Second = 2
  EventEnd = 99
  SessionTTL = 1
  AuthEnds <- OneLogin
  LastGrant = 1
  MaxTime = 4
  Faults = {}
CHECK_DEADLOCK FALSE
PROPERTIES SoldSeatStaysSold
