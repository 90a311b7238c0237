SPECIFICATION LiveSpec
CONSTANTS
  b1 = b1
  b2 = b2
  t1 = t1
  t2 = t2
  Nil = Nil
  Keep = Keep
  User = {u1}
  Browser = {b1}
  Tab = {t1, t2}
  HomeOf <- TwoTabs
  SessionMaxAge = 2
INVARIANT IInv
INVARIANT LoggedOutStays
INVARIANT CodesEarned
PROPERTY StaleCookiesGo
