SPECIFICATION Spec
CONSTANTS
  Threads = {t1, t2, t3}
  Handles = {h1, h2}
  Worker = w
  NoOne = none
  NoHandle = nil
  SessionKeepAlive = FALSE
  ReclaimRefusesBusy = FALSE
  FaultOps <- AllFaults
SYMMETRY Symm
INVARIANTS PowerConsistent HeldRegionOn
