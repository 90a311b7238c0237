SPECIFICATION LiveSpec
CONSTANTS
  t1 = t1
  t2 = t2
  Tab = {t1, t2}
  Word <- MCWords
  Openings <- MCOpenings
  BadUri <- Foreign
  Malformed <- Lacking
  OtherIdp <- ElsewhereIdp
  Password <- MCPasswords
  MaxTrouble = 2
  Nil = Nil
INVARIANTS
  TypeOK
  IInv
  OwnStart
  HomeExplained
  NeverTooWeak
PROPERTY
  GetsOut
CHECK_DEADLOCK FALSE
