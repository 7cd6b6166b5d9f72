SPECIFICATION FairSpec
CONSTANTS
  Users = {u1, u2}
  NoUser = NoUser
  Threads = {t1, t2}
  Worker = Worker
  Threshold = 1
  BatchSize = 1
  OneTab = TRUE
PROPERTIES ServedInTurn QueueLeftOnlyWithAccess EventuallyServed
CHECK_DEADLOCK FALSE
