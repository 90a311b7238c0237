SPECIFICATION Spec
CONSTANTS
  u1 = u1
  pa = pa
  pb = pb
  Nil = Nil
  Malformed = Malformed
  Unset = Unset
  User = {u1}
  Password = {pa, pb}
  Weak = {}
  Op = {"login"}
  Attempt = {r1, r2, r3}
  FailTimes = 2
SYMMETRY RequestSymmetry
PROPERTY LockedAnswerMeansLimit
\* Every attempt is one request: the system stops when all are answered.
CHECK_DEADLOCK FALSE
