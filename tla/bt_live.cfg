SPECIFICATION LiveSpec
CONSTANTS
  Kinds = {"cmd", "acl"}
  MaxTx = 1
  MaxOut = 1
  MaxDone = 1
  Events = {"error"}
  None = None
INVARIANT TypeOK
PROPERTIES TxLeaves RxArrives SleepObeyed UserReturns
