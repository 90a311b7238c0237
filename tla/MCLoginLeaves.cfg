SPECIFICATION Spec
CONSTANTS
  b1 = b1
  b2 = b2
  t1 = t1
  t2 = t2
  Nil = Nil
  Keep = Keep
  User = {u1}
  Browser = {b1, b2}
  Tab = {t1, t2}
  HomeOf <- OneEach
  SessionMaxAge = 2
PROPERTY LoginLeavesConfirm
