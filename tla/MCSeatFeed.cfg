SPECIFICATION Spec
CONSTANTS
  Seats = {s1, s2}
  Viewers = {c1, c2}
  Admins = {a1}
  Handlers = {h1}
  Worker = w
  MaxRoom = 2
INVARIANTS
  TypeOK
  ViewsAgree
CHECK_DEADLOCK FALSE
PROPERTY AnnouncementsEnd
