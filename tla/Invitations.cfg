SPECIFICATION Spec
CONSTANTS
  User = {u1, u2}
  Invitation = {t1, t2}
  Request = {r1, r2}
  PoolSize = 3
  MaxChanges = 1
  MaxFaults = 1
SYMMETRY Symmetry
INVARIANTS
  AnswersAgree
  OnePending
  ConnectionLeft
