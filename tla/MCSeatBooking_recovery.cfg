SPECIFICATION FairSpec
CONSTANTS
  u1 = u1
  u2 = u2
  Users = {u1, u2}
  Seats = {s1}
  NoUser = NoUser
  NoLoop = NoLoop
  Requests = {r1, r2}
  Loops = {l1}
  MaxBookable = 1
  FreeEvent = TRUE
  Second = 2
  EventEnd = 4
  SessionTTL = 1
  AuthEnds <- OneLogin
  LastGrant = 3
  MaxTime = 6
  Faults = {"crash", "dashboard"}
PROPERTIES NeverStuck
CHECK_DEADLOCK FALSE
