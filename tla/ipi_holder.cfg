SPECIFICATION Spec
CONSTANTS
  Threads = {t1, t2}
  AckChans = {s}
  MsgChans = {}
  IsrCb = {}
  Replying = {}
  Modes <- ModesOf
  Polled = {}
  Waited = {s}
  Ops = {"mtk_ipi_send", "mtk_ipi_send_compl"}
  Ring = 3
  MaxBacklog = 1
  Old = Old
  None = None
INVARIANT
  HolderKept
