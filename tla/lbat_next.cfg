SPECIFICATION Spec
CONSTANTS
  Users = {"gauge"}
  Params <- MCParams
  DebTimes <- BothSides
  PmSleep = TRUE
  Adc = {2080, 2178, 2275, 2341}
  None = None
INVARIANT
  SomeThdWaits
