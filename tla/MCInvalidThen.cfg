SPECIFICATION Spec
CONSTANTS
  u1 = u1
  pa = pa
  pb = pb
  Nil = Nil
  Malformed = Malformed
  Unset = Unset
  User = {u1}
  Password = {pa, pb}
  Weak = {}
  Op = {"login", "confirm"}
  Attempt = {r1, r2}
  FailTimes = 2
SYMMETRY RequestSymmetry
INVARIANT InvalidThenStoresNothing
\* Every attempt is one request: the system stops when all are answered.
CHECK_DEADLOCK FALSE
