SPECIFICATION LiveSpec
CONSTANTS
  ConfigFiles <- OneOff
  Worlds <- World
  Req = {r1}
  Missing = Missing
  NoCluster = NoCluster
  Nil = Nil
INVARIANT
  Drained
CHECK_DEADLOCK FALSE
