SPECIFICATION Spec
CONSTANTS
  u1 = u1
  u2 = u2
  Users = {u1, u2}
  Seats = {s1, s2}
  NoUser = NoUser
  NoLoop = NoLoop
  Requests = {r1, r2}
  Loops = {l1}
  MaxBookable = 2
  FreeEvent = FALSE
  Second = 3
  EventEnd = 99
  SessionTTL = 2
  AuthEnds <- EndingLogin
  LastGrant = 5
  MaxTime = 8
  Faults = {}
INVARIANTS TypeOK LiveHoldIsLocked HoldsCanBePaid HoldsAreCounted
SYMMETRY SeatSymmetry
CHECK_DEADLOCK FALSE
