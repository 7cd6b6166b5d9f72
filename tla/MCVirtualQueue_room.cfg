SPECIFICATION Spec
CONSTANTS
  Users = {u1, u2, u3, u4}
  NoUser = NoUser
  Threads = {t1, t2}
  Worker = Worker
  Threshold = 1
  BatchSize = 1
  OneTab = FALSE
SYMMETRY Symmetry
VIEW WithoutHistory
INVARIANTS TypeOK RoomOvershootBounded
CHECK_DEADLOCK FALSE
