SPECIFICATION Spec
CONSTANTS
  Threads = {t1, t2, t3}
  Handles = {h1, h2}
  Worker = w
  NoOne = none
  NoHandle = nil
  SessionKeepAlive = FALSE
  ReclaimRefusesBusy = TRUE
  FaultOps <- AllFaults
SYMMETRY Symm
INVARIANTS TypeOK RefCounts NoEarlyHandBack HandleValid
PROPERTY AbstractSpec
