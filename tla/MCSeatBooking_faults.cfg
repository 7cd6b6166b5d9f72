SPECIFICATION Spec
CONSTANTS
  u1 = u1
  u2 = u2
  Users = {u1, u2}
  Seats = {s1, s2}
  NoUser = NoUser
  NoLoop = NoLoop
  Requests = {r1, r2}
  Loops = {l1}
  MaxBookable = 1
  FreeEvent = FALSE
  Second = 2
  EventEnd = 4
  SessionTTL = 1
  AuthEnds <- TwoLogins
  LastGrant = 2
  MaxTime = 5
  Faults = {"crash", "dashboard", "slow"}
INVARIANTS SoldIffTicketed TicketsWithinLimit
PROPERTIES SoldSeatStaysSold ImplementsSale
CHECK_DEADLOCK FALSE
SYMMETRY SeatSymmetry
