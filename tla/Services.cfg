SPECIFICATION MCSpec
CONSTANTS
  Replica = {p1, p2}
  Service = {s1}
  Pat = {a1}
  Check = {v1, v2}
  Token = {t1, t2, t3}
  Reset = {k1, k2}
  Code = {o1}
  Client = {c1}
  Uri = {"https", "loopback", "plain"}
  Verifier = {w1}
  Request = {r1, r2}
  Scenarios <- MCScenarios
  Attempts = 3
  MaxAttempts = 2
  Window = 3
  MaxDelay = 1
  Skew = 1
  MaxTime = 5
  Bearer = {j1, j2, j3}
  Use = {q1, q2}
  MaxValid = 1
  GateTTL = 1
  MaxCall = 1
  LastTick = 4
  Caller = {"document"}
  Asking = {q1, q2}
  SharedTTL = 1
  CopyTTL = 1
  UrlTTL = 1
  MaxChanges = 1
  Visitor = {b1, b2}
SYMMETRY Symmetry
INVARIANTS
  OneTokenPerSession
  PasswordsGuard
  UsedOnce
  RefreshFindsKey
  AnswersEnd
  ClosedLast
CHECK_DEADLOCK FALSE
