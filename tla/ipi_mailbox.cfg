SPECIFICATION LiveSpec
CONSTANTS
  Threads = {t1}
  AckChans = {s}
  MsgChans = {r}
  IsrCb = {}
  Replying = {r}
  Modes <- ModesOf
  Polled = {}
  Waited = {s}
  Ops = {"mtk_ipi_send", "mtk_ipi_send_compl"}
  Ring = 3
  MaxBacklog = 2
  Old = Old
  None = None
INVARIANTS
  TypeOK
  NoLostWakeup
  HandledInOrder
PROPERTY
  RepliesArrive CallsReturn
