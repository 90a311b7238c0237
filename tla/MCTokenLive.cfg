SPECIFICATION AnyLiveSpec
CONSTANTS
  t1 = t1
  c1 = c1
  u1 = u1
  w1 = w1
  Nil = Nil
  Token = {t1, t2}
  Client = {c1, c2}
  User = {u1}
  Uri = {w1}
  Req = {q1}
  CodeExp = 0
  RefreshExp = 1
  SecretExpiry = 1
INVARIANT OwnerKept
PROPERTY LiveSecretsStay
PROPERTY SecretsGoAway
\* Every request is made once and tokens run out.
CHECK_DEADLOCK FALSE
