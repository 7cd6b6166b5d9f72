SPECIFICATION Spec
CONSTANTS
  ann = ann
  Ann = Ann
  bob = bob
  Emails = {ann, Ann, bob}
  Lower <- LowerOf
  Threads = {t1, t2}
  Passwords = {p, q}
  Names = {n, m}
  Codes = {c1, c2}
  MaxLogins = 1
SYMMETRY Symmetry
INVARIANTS TypeOK CodesAreUsedUp CodeForItsAccount PasswordStands
CHECK_DEADLOCK FALSE
