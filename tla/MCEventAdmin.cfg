SPECIFICATION Spec
CONSTANTS
  a = a
  b = b
  c = c
  Zones = {a, b, c}
  Hosts = {h1, h2}
  Plan <- PlanOf
  Priced = {a}
  Sizes = {1}
  Wanted <- WantedOf
SYMMETRY HostSymmetry
INVARIANTS TypeOK TicketsKeepSeats WholeOrders OneTicketPerPlace NothingWithoutEvent
CHECK_DEADLOCK FALSE
