SPECIFICATION Spec
CONSTANTS
  Kinds = {"cmd", "check", "assert"}
  MaxTx = 1
  MaxOut = 1
  MaxDone = 1
  Events = {"assert"}
  None = None
INVARIANTS WakeLockHeld NeverStranded BtifOpen Released
