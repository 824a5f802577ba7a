SPECIFICATION Spec
CONSTANTS
  Threads = {t1, t2}
  AckChans = {s}
  MsgChans = {q}
  IsrCb = {q}
  Replying = {}
  Modes <- ModesOf
  Polled = {s}
  Waited = {}
  Ops = {"mtk_ipi_send", "mtk_ipi_send_compl"}
  Ring = 3
  MaxBacklog = 1
  Old = Old
  None = None
INVARIANTS
  AckIsMine
  IsrOwnsPins
  NoLostWakeup
  HandledInOrder
SYMMETRY Symm
