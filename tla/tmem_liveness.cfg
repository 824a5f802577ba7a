SPECIFICATION LiveSpec
CONSTANTS
  Threads = {t1, t2}
  Handles = {h1, h2}
  Worker = w
  NoOne = none
  NoHandle = nil
  SessionKeepAlive = FALSE
  ReclaimRefusesBusy = TRUE
  FaultOps <- NoFaults
INVARIANT OffScheduled
PROPERTIES EventuallyOff CallsReturn
