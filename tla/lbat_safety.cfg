SPECIFICATION Spec
CONSTANTS
  Users = {"gauge", "throttle", "bad"}
  Params <- MCParams
  DebTimes <- BothShort
  PmSleep = TRUE
  Adc = {2080, 2178, 2275, 2341}
  None = None
INVARIANTS
  TypeOK
  CurIsFirst
  NoDoubleAdd
  EventIsReal
  Armed
