SPECIFICATION LiveSpec
CONSTANTS
  Users = {"gauge", "throttle"}
  Params <- MCParams
  DebTimes <- HighOnly
  PmSleep = FALSE
  Adc = {2080, 2178, 2275, 2341}
  None = None
INVARIANT
  ExactlyDue
PROPERTIES
  InTurn
  LowTold
  HighTold
