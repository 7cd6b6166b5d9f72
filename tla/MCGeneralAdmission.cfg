SPECIFICATION Spec
CONSTANTS
  z1 = z1
  z2 = z2
  z3 = z3
  Users = {u1, u2}
  NoUser = NoUser
  Requests = {r1, r2}
  Loops = {l1, l2}
  NoLoop = NoLoop
  Hosts = {h1}
  Zones = {z1, z2, z3}
  Name <- ZoneName
  NoZone = NoZone
  MaxBookable = 2
  FreeEvent = FALSE
  Quantities = {1, 2}
  Capacities = {1, 3}
INVARIANTS TypeOK CapacityKept LimitKept TicketsKeepTheirZone
SYMMETRY Symmetry
CHECK_DEADLOCK FALSE
