SPECIFICATION Spec
CONSTANTS
  t1 = t1
  c1 = c1
  u1 = u1
  w1 = w1
  Nil = Nil
  Token = {t1, t2}
  Client = {c1}
  User = {u1}
  Uri = {w1}
  Req = {q1, q2}
  CodeExp = 0
  RefreshExp = 1
  SecretExpiry = 1
PROPERTY OnlyOldDeleted
CHECK_DEADLOCK FALSE
