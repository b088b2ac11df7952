SPECIFICATION Spec
CONSTANTS
  Base = 4
  Task = {t1, t2, t3}
  c1 = c1
  c2 = c2
  Column = {c1, c2}
  Config = {"a"}
  Schemas <- MCSchemas
  Editor = {d1, d2}
  Replica = {i1, i2}
  Client = {q1, q2}
  ColumnStatus <- MCColumnStatus
  NameStatus <- MCNameStatus
  User = {u1}
  Request = {r1, r2}
  OnlyBefore = FALSE
  Scenarios <- MCScenarios
SYMMETRY Symmetry
INVARIANTS
  
  
  
  TypesFollow
CHECK_DEADLOCK FALSE
