SPECIFICATION LiveSpec
CONSTANTS
  ConfigFiles <- OneOff
  Worlds <- World
  Req = {r1}
  Missing = Missing
  NoCluster = NoCluster
  Nil = Nil
INVARIANTS
  IInv
  ServesAsConfigured
  OneCluster
  EndsForAReason
PROPERTIES
  ServesOrEnds
  SignalEnds
CHECK_DEADLOCK FALSE
