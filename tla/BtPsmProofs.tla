---------------------------- MODULE BtPsmProofs ----------------------------
(***************************************************************************)
(* The safety properties of BtPsm for every value of its constants.        *)
(***************************************************************************)
EXTENDS BtPsm, TLAPS

-----------------------------------------------------------------------------
(* The inductive invariant.                                                *)

\* What the proofs need of the types: where the calls are, which interrupts are enabled and
\* what the firmware has sent.
TypeArrays ==
  /\ pc \in [Procs -> Pcs] /\ irq \in [{"wake", "sw"} -> BOOLEAN]
  /\ out \in Seq({"cmd", "acl", "wmt"}) /\ btif \in BOOLEAN

\* BTIF outlives everything that uses it, and until then Bluetooth is not off.  g_btif_id
\* alone says nothing: a power on that fails half way leaves it set.
InvOpen ==
  tpc # "none" \/ dpq \/ dpr \/ wake_lock \/ rxi # None \/ own = "host"
    => btif /\ bt_state # "FUNC_OFF" /\ pc["user"] # "late"

\* Where the thread is, what psm.state says and who owns the subsystem.
InvPsm ==
  /\ tpc # "none" /\ psm = "SLEEP" => own = "fw"
  /\ tpc \in {"dpoff", "clr"} => psm = "SLEEP"
  /\ tpc \in {"drain", "sent", "ps", "set", "irqon", "dpon"} => psm = "NORMAL_TR"
  /\ tpc \in {"irqon", "dpon"} => own = "fw"

\* From dpidle_ctrl(FALSE) until the subsystem is given back, the work finds is_dpidle FALSE.
InvLock ==
  (own = "host" /\ tpc # "none") \/ tpc = "clr" => wake_lock /\ ~idle /\ ~is_dpidle

\* The firmware has answered the command that switches Bluetooth on.
Answered == evt \/ rxi = "wmt" \/ \E i \in 1..Len(out) : out[i] = "wmt"

\* Asleep, the interrupt is armed or has been seen, but for the time before the first wake-up.
InvArmed ==
  /\ tpc # "none" /\ psm = "SLEEP" => irq["wake"] \/ rx_ind \/ (bt_state # "FUNC_ON" /\ ~Answered)
  /\ tpc = "dpon" => irq["wake"] \/ rx_ind

IInv == TypeArrays /\ InvOpen /\ InvPsm /\ InvArmed
-----------------------------------------------------------------------------
\* Every step keeps these types.
LEMMA ArraysStep ==
  ASSUME TypeArrays, [Next]_vars
  PROVE  TypeArrays'
  <1> USE DEF TypeArrays, Procs, Pcs, power, flags, queue, bus, chip
  <1>1. CASE FwSends
    BY <1>1 DEF FwSends
  <1>2. CASE FwAssert
    BY <1>2 DEF FwAssert, Asserted
  <1>3. CASE WakeIrq
    BY <1>3 DEF WakeIrq
  <1>4. CASE SwIrq
    BY <1>4 DEF SwIrq
  <1>5. CASE RxStart
    BY <1>5 DEF RxStart
  <1>6. CASE RxDone
    BY <1>6 DEF RxDone
  <1>7. CASE CmdTimeout
    BY <1>7 DEF CmdTimeout
  <1>8. CASE TxWake
    BY <1>8 DEF TxWake
  <1>9. CASE TxExit
    BY <1>9 DEF TxExit
  <1>10. CASE TxSwIrq
    BY <1>10 DEF TxSwIrq
  <1>11. CASE TxSlept
    BY <1>11 DEF TxSlept, Turn
  <1>12. CASE TxWakeup
    BY <1>12 DEF TxWakeup, Turn
  <1>13. CASE DpidleOff
    BY <1>13 DEF DpidleOff
  <1>14. CASE OwnClr
    BY <1>14 DEF OwnClr, Own
  <1>15. CASE OwnClrFails
    BY <1>15 DEF OwnClrFails
  <1>16. CASE TxNormal
    BY <1>16 DEF TxNormal, Turn
  <1>17. CASE TxAssertCmd
    BY <1>17 DEF TxAssertCmd
  <1>18. CASE TxCheckCmd
    BY <1>18 DEF TxCheckCmd
  <1>19. CASE TxSend
    <2>1. pc' = pc /\ irq' = irq /\ btif' = btif
      BY <1>19 DEF TxSend
    <2>2. Head(txq) \in {"cmd", "acl", "wmt"} /\ (out' = out \/ out' = Append(out, Head(txq)))
      BY <1>19 DEF TxSend, Answer
    <2>3. out' \in Seq({"cmd", "acl", "wmt"})
      BY <2>2
    <2>4. QED
      BY <2>1, <2>3
  <1>20. CASE TxSent
    BY <1>20 DEF TxSent
  <1>21. CASE TxDrained
    BY <1>21 DEF TxDrained
  <1>22. CASE TxPs
    BY <1>22 DEF TxPs
  <1>23. CASE OwnSet
    BY <1>23 DEF OwnSet, Own
  <1>24. CASE OwnSetFails
    BY <1>24 DEF OwnSetFails
  <1>25. CASE IrqOn
    BY <1>25 DEF IrqOn
  <1>26. CASE DpidleOn
    BY <1>26 DEF DpidleOn
  <1>27. CASE DpidleTimer
    BY <1>27 DEF DpidleTimer
  <1>28. CASE btmtk_btif_enter_deep_idle
    BY <1>28 DEF btmtk_btif_enter_deep_idle
  <1>29. CASE SetSleepDone
    BY <1>29 DEF SetSleepDone, Go
  <1>30. CASE SetSleepTimeout
    BY <1>30 DEF SetSleepTimeout, Go
  <1>31. CASE PowerOn
    <2>1. pc' \in [Procs -> Pcs]
      BY <1>31 DEF PowerOn, Go
    <2>2. irq' = [irq EXCEPT !["wake"] = FALSE, !["sw"] = TRUE] /\ out' = <<>> /\ btif' = TRUE
      BY <1>31, Zenon DEF PowerOn
    <2>3. irq' \in [{"wake", "sw"} -> BOOLEAN]
      BY <2>2
    <2>4. btif' \in BOOLEAN
      BY <2>2, Zenon
    <2>5. out' \in Seq({"cmd", "acl", "wmt"})
      BY <1>31 DEF PowerOn
    <2>6. QED
      BY <2>1, <2>3, <2>4, <2>5
  <1>32. CASE PowerOnFails
    BY <1>32 DEF PowerOnFails, Go
  <1>33. CASE PowerOnSkip
    BY <1>33 DEF PowerOnSkip, Go
  <1>34. CASE Write
    BY <1>34 DEF Write
  <1>35. CASE Close
    BY <1>35 DEF Close, Go
  <1>36. CASE FuncOn
    BY <1>36 DEF FuncOn, Go
  <1>37. CASE FuncOnFails
    BY <1>37 DEF FuncOnFails, Go
  <1>38. CASE PowerOnDone
    BY <1>38 DEF PowerOnDone, Go
  <1>39. CASE PowerOnUndone
    <2>1. pc' \in [Procs -> Pcs] /\ out' \in Seq({"cmd", "acl", "wmt"})
      BY <1>39 DEF PowerOnUndone, bt_hw_and_mcu_off, Go
    <2>2. irq' \in [{"wake", "sw"} -> BOOLEAN]
      BY <1>39 DEF PowerOnUndone, bt_hw_and_mcu_off, Go
    <2>3. btif' \in BOOLEAN
      BY <1>39, Zenon DEF PowerOnUndone, bt_hw_and_mcu_off, Go
    <2>4. QED
      BY <2>1, <2>2, <2>3
  <1>40. CASE PowerOnLate
    BY <1>40 DEF PowerOnLate, Go
  <1>41. CASE ResetStart
    BY <1>41 DEF ResetStart, Go
  <1>42. CASE ResetGivesUp
    BY <1>42 DEF ResetGivesUp, Go
  <1>43. CASE ResetLevel
    <2>1. pc' \in [Procs -> Pcs]
      BY <1>43 DEF ResetLevel, Go
    <2>2. irq' \in [{"wake", "sw"} -> BOOLEAN]
      BY <1>43 DEF ResetLevel, IrqRequested, Asserted, Go
    <2>3. btif' \in BOOLEAN
      BY <1>43, Zenon DEF ResetLevel, IrqRequested, Asserted, Go
    <2>4. out' = out \/ out' = <<>>
      BY <1>43 DEF ResetLevel, Asserted
    <2>5. out' \in Seq({"cmd", "acl", "wmt"})
      <3>1. <<>> \in Seq({"cmd", "acl", "wmt"})
        OBVIOUS
      <3>2. QED
        BY <2>4, <3>1, TypeArrays, Zenon DEF TypeArrays
    <2>6. QED
      BY <2>1, <2>2, <2>3, <2>5
  <1>44. CASE ResetDump
    BY <1>44 DEF ResetDump, Go
  <1>45. CASE ResetTest
    BY <1>45 DEF ResetTest, Go
  <1>46. CASE ResetSet
    BY <1>46 DEF ResetSet, Go
  <1>47. ASSUME NEW p \in Procs, PowerOffSkip(p) PROVE TypeArrays'
    BY <1>47 DEF PowerOffSkip, Go, Rest
  <1>48. ASSUME NEW p \in Procs, PowerOff(p) PROVE TypeArrays'
    BY <1>48 DEF PowerOff, Go
  <1>49. ASSUME NEW p \in Procs, PowerOffWmt(p) PROVE TypeArrays'
    BY <1>49 DEF PowerOffWmt, Go
  <1>50. ASSUME NEW p \in Procs, PowerOffDone(p) PROVE TypeArrays'
    <2>1. pc' \in [Procs -> Pcs] /\ out' \in Seq({"cmd", "acl", "wmt"})
      BY <1>50 DEF PowerOffDone, bt_hw_and_mcu_off, Go, Rest
    <2>2. irq' \in [{"wake", "sw"} -> BOOLEAN]
      BY <1>50 DEF PowerOffDone, bt_hw_and_mcu_off, Go, Rest
    <2>3. btif' \in BOOLEAN
      BY <1>50, Zenon DEF PowerOffDone, bt_hw_and_mcu_off, Go, Rest
    <2>4. QED
      BY <2>1, <2>2, <2>3
  <1>51. CASE UNCHANGED vars
    BY <1>51 DEF vars
  <1>52. CASE PowerOnNoThread
    BY <1>52 DEF PowerOnNoThread, Go
  <1>53. QED
    BY <1>1, <1>2, <1>3, <1>4, <1>5, <1>6, <1>7, <1>8, <1>9, <1>10, <1>11, <1>12, <1>13, 
       <1>14, <1>15, <1>16, <1>17, <1>18, <1>19, <1>20, <1>21, <1>22, <1>23, <1>24, <1>25, 
       <1>26, <1>27, <1>28, <1>29, <1>30, <1>31, <1>32, <1>33, <1>34, <1>35, <1>36, <1>37, 
       <1>38, <1>39, <1>40, <1>41, <1>42, <1>43, <1>44, <1>45, <1>46, <1>47, <1>48, <1>49, 
       <1>50, <1>51, <1>52 DEF Next, Tx, PowerOnCalls, PowerOffCalls, Reset

\* Nothing is left on a BTIF that a step closes.
LEMMA BusStep ==
  ASSUME TypeArrays, InvOpen, [Next]_vars
  PROVE  InvOpen'
  <1> USE DEF TypeArrays, InvOpen, Procs, power, flags, queue, bus, chip
  <1>1. CASE FwSends
    BY <1>1 DEF FwSends
  <1>2. CASE FwAssert
    BY <1>2 DEF FwAssert, Asserted
  <1>3. CASE WakeIrq
    BY <1>3 DEF WakeIrq
  <1>4. CASE SwIrq
    BY <1>4 DEF SwIrq
  <1>5. CASE RxStart
    BY <1>5 DEF RxStart
  <1>6. CASE RxDone
    BY <1>6 DEF RxDone
  <1>7. CASE CmdTimeout
    BY <1>7 DEF CmdTimeout
  <1>8. CASE TxWake
    BY <1>8 DEF TxWake
  <1>9. CASE TxExit
    BY <1>9 DEF TxExit
  <1>10. CASE TxSwIrq
    BY <1>10 DEF TxSwIrq
  <1>11. CASE TxSlept
    BY <1>11 DEF TxSlept, Turn
  <1>12. CASE TxWakeup
    BY <1>12 DEF TxWakeup, Turn
  <1>13. CASE DpidleOff
    BY <1>13 DEF DpidleOff
  <1>14. CASE OwnClr
    BY <1>14 DEF OwnClr, Own
  <1>15. CASE OwnClrFails
    BY <1>15 DEF OwnClrFails
  <1>16. CASE TxNormal
    BY <1>16 DEF TxNormal, Turn
  <1>17. CASE TxAssertCmd
    BY <1>17 DEF TxAssertCmd
  <1>18. CASE TxCheckCmd
    BY <1>18 DEF TxCheckCmd
  <1>19. CASE TxSend
    BY <1>19 DEF TxSend
  <1>20. CASE TxSent
    BY <1>20 DEF TxSent
  <1>21. CASE TxDrained
    BY <1>21 DEF TxDrained
  <1>22. CASE TxPs
    BY <1>22 DEF TxPs
  <1>23. CASE OwnSet
    BY <1>23 DEF OwnSet, Own
  <1>24. CASE OwnSetFails
    BY <1>24 DEF OwnSetFails
  <1>25. CASE IrqOn
    BY <1>25 DEF IrqOn
  <1>26. CASE DpidleOn
    BY <1>26 DEF DpidleOn
  <1>27. CASE DpidleTimer
    BY <1>27 DEF DpidleTimer
  <1>28. CASE btmtk_btif_enter_deep_idle
    BY <1>28 DEF btmtk_btif_enter_deep_idle
  <1>29. CASE SetSleepDone
    BY <1>29 DEF SetSleepDone, Go
  <1>30. CASE SetSleepTimeout
    BY <1>30 DEF SetSleepTimeout, Go
  <1>31. CASE PowerOn
    BY <1>31 DEF PowerOn, Own, Go
  <1>32. CASE PowerOnFails
    BY <1>32 DEF PowerOnFails, Go
  <1>33. CASE PowerOnSkip
    BY <1>33 DEF PowerOnSkip, Go
  <1>34. CASE Write
    BY <1>34 DEF Write
  <1>35. CASE Close
    BY <1>35 DEF Close, Go
  <1>36. CASE FuncOn
    BY <1>36 DEF FuncOn, Go
  <1>37. CASE FuncOnFails
    BY <1>37 DEF FuncOnFails, Go
  <1>38. CASE PowerOnDone
    BY <1>38 DEF PowerOnDone, Go
  <1>39. CASE PowerOnUndone
    BY <1>39 DEF PowerOnUndone, bt_hw_and_mcu_off, Own, Go
  <1>40. CASE PowerOnLate
    BY <1>40 DEF PowerOnLate, Go
  <1>41. CASE ResetStart
    BY <1>41 DEF ResetStart, Go
  <1>42. CASE ResetGivesUp
    BY <1>42 DEF ResetGivesUp, Go
  <1>43. CASE ResetLevel
    BY <1>43 DEF ResetLevel, IrqRequested, Asserted, Go
  <1>44. CASE ResetDump
    BY <1>44 DEF ResetDump, Go
  <1>45. CASE ResetTest
    BY <1>45 DEF ResetTest, Go
  <1>46. CASE ResetSet
    BY <1>46 DEF ResetSet, Go
  <1>47. ASSUME NEW p \in Procs, PowerOffSkip(p) PROVE InvOpen'
    BY <1>47 DEF PowerOffSkip, Go, Rest
  <1>48. ASSUME NEW p \in Procs, PowerOff(p) PROVE InvOpen'
    BY <1>48 DEF PowerOff, Go
  <1>49. ASSUME NEW p \in Procs, PowerOffWmt(p) PROVE InvOpen'
    BY <1>49 DEF PowerOffWmt, Go
  <1>50. ASSUME NEW p \in Procs, PowerOffDone(p) PROVE InvOpen'
    BY <1>50 DEF PowerOffDone, bt_hw_and_mcu_off, Own, Go, Rest
  <1>51. CASE UNCHANGED vars
    BY <1>51 DEF vars
  <1>52. CASE PowerOnNoThread
    BY <1>52 DEF PowerOnNoThread, Go
  <1>53. QED
    BY <1>1, <1>2, <1>3, <1>4, <1>5, <1>6, <1>7, <1>8, <1>9, <1>10, <1>11, <1>12, <1>13, 
       <1>14, <1>15, <1>16, <1>17, <1>18, <1>19, <1>20, <1>21, <1>22, <1>23, <1>24, <1>25, 
       <1>26, <1>27, <1>28, <1>29, <1>30, <1>31, <1>32, <1>33, <1>34, <1>35, <1>36, <1>37, 
       <1>38, <1>39, <1>40, <1>41, <1>42, <1>43, <1>44, <1>45, <1>46, <1>47, <1>48, <1>49, 
       <1>50, <1>51, <1>52 DEF Next, Tx, PowerOnCalls, PowerOffCalls, Reset

\* The thread, the work and the interrupt agree about sleep.
LEMMA SleepStep ==
  ASSUME TypeArrays, InvOpen, InvPsm, InvArmed, [Next]_vars
  PROVE  InvPsm' /\ InvArmed'
  <1> USE DEF TypeArrays, InvOpen, InvPsm, InvArmed, Answered, Procs, power, flags, queue, bus, chip
  <1>1. CASE FwSends
    BY <1>1 DEF FwSends
  <1>2. CASE FwAssert
    BY <1>2 DEF FwAssert, Asserted
  <1>3. CASE WakeIrq
    BY <1>3 DEF WakeIrq
  <1>4. CASE SwIrq
    BY <1>4 DEF SwIrq
  <1>5. CASE RxStart
    BY <1>5 DEF RxStart
  <1>6. CASE RxDone
    <2>1. Answered' => Answered
      BY <1>6, NoneIsNew DEF RxDone
    <2>2. QED
      BY <1>6, <2>1 DEF RxDone
  <1>7. CASE CmdTimeout
    BY <1>7 DEF CmdTimeout
  <1>8. CASE TxWake
    BY <1>8 DEF TxWake
  <1>9. CASE TxExit
    BY <1>9 DEF TxExit
  <1>10. CASE TxSwIrq
    BY <1>10 DEF TxSwIrq
  <1>11. CASE TxSlept
    BY <1>11 DEF TxSlept, Turn
  <1>12. CASE TxWakeup
    BY <1>12 DEF TxWakeup, Turn
  <1>13. CASE DpidleOff
    BY <1>13 DEF DpidleOff
  <1>14. CASE OwnClr
    BY <1>14 DEF OwnClr, Own
  <1>15. CASE OwnClrFails
    BY <1>15 DEF OwnClrFails
  <1>16. CASE TxNormal
    BY <1>16 DEF TxNormal, Turn
  <1>17. CASE TxAssertCmd
    BY <1>17 DEF TxAssertCmd
  <1>18. CASE TxCheckCmd
    BY <1>18 DEF TxCheckCmd
  <1>19. CASE TxSend
    BY <1>19 DEF TxSend
  <1>20. CASE TxSent
    BY <1>20 DEF TxSent
  <1>21. CASE TxDrained
    BY <1>21 DEF TxDrained
  <1>22. CASE TxPs
    BY <1>22 DEF TxPs
  <1>23. CASE OwnSet
    BY <1>23 DEF OwnSet, Own
  <1>24. CASE OwnSetFails
    BY <1>24 DEF OwnSetFails
  <1>25. CASE IrqOn
    BY <1>25 DEF IrqOn
  <1>26. CASE DpidleOn
    BY <1>26 DEF DpidleOn
  <1>27. CASE DpidleTimer
    BY <1>27 DEF DpidleTimer
  <1>28. CASE btmtk_btif_enter_deep_idle
    BY <1>28 DEF btmtk_btif_enter_deep_idle
  <1>29. CASE SetSleepDone
    BY <1>29 DEF SetSleepDone, Go
  <1>30. CASE SetSleepTimeout
    BY <1>30 DEF SetSleepTimeout, Go
  <1>31. CASE PowerOn
    <2>1. bt_state = "FUNC_OFF" /\ tpc' = "wait" /\ psm' = "SLEEP" /\ own' = "fw"
          /\ bt_state' = "TURNING_ON" /\ evt' = FALSE /\ rxi' = rxi /\ out' = <<>>
      BY <1>31, Zenon DEF PowerOn, Own
    <2>2. rxi = None
      BY <2>1
    <2>3. ~Answered'
      BY <2>1, <2>2, NoneIsNew
    <2>4. QED
      BY <2>1, <2>3
  <1>32. CASE PowerOnFails
    BY <1>32 DEF PowerOnFails, Go
  <1>33. CASE PowerOnSkip
    BY <1>33 DEF PowerOnSkip, Go
  <1>34. CASE Write
    BY <1>34 DEF Write
  <1>35. CASE Close
    BY <1>35 DEF Close, Go
  <1>36. CASE FuncOn
    BY <1>36 DEF FuncOn, Go
  <1>37. CASE FuncOnFails
    BY <1>37 DEF FuncOnFails, Go
  <1>38. CASE PowerOnDone
    BY <1>38 DEF PowerOnDone, Go
  <1>39. CASE PowerOnUndone
    BY <1>39 DEF PowerOnUndone, bt_hw_and_mcu_off, Own, Go
  <1>40. CASE PowerOnLate
    BY <1>40 DEF PowerOnLate, Go
  <1>41. CASE ResetStart
    BY <1>41 DEF ResetStart, Go
  <1>42. CASE ResetGivesUp
    BY <1>42 DEF ResetGivesUp, Go
  <1>43. CASE ResetLevel
    BY <1>43 DEF ResetLevel, IrqRequested, Asserted, Go
  <1>44. CASE ResetDump
    BY <1>44 DEF ResetDump, Go
  <1>45. CASE ResetTest
    BY <1>45 DEF ResetTest, Go
  <1>46. CASE ResetSet
    BY <1>46 DEF ResetSet, Go
  <1>47. ASSUME NEW p \in Procs, PowerOffSkip(p) PROVE InvPsm' /\ InvArmed'
    BY <1>47 DEF PowerOffSkip, Go, Rest
  <1>48. ASSUME NEW p \in Procs, PowerOff(p) PROVE InvPsm' /\ InvArmed'
    BY <1>48 DEF PowerOff, Go
  <1>49. ASSUME NEW p \in Procs, PowerOffWmt(p) PROVE InvPsm' /\ InvArmed'
    BY <1>49 DEF PowerOffWmt, Go
  <1>50. ASSUME NEW p \in Procs, PowerOffDone(p) PROVE InvPsm' /\ InvArmed'
    BY <1>50 DEF PowerOffDone, bt_hw_and_mcu_off, Own, Go, Rest
  <1>51. CASE UNCHANGED vars
    BY <1>51 DEF vars
  <1>52. CASE PowerOnNoThread
    BY <1>52 DEF PowerOnNoThread, Go
  <1>53. QED
    BY <1>1, <1>2, <1>3, <1>4, <1>5, <1>6, <1>7, <1>8, <1>9, <1>10, <1>11, <1>12, <1>13, 
       <1>14, <1>15, <1>16, <1>17, <1>18, <1>19, <1>20, <1>21, <1>22, <1>23, <1>24, <1>25, 
       <1>26, <1>27, <1>28, <1>29, <1>30, <1>31, <1>32, <1>33, <1>34, <1>35, <1>36, <1>37, 
       <1>38, <1>39, <1>40, <1>41, <1>42, <1>43, <1>44, <1>45, <1>46, <1>47, <1>48, <1>49, 
       <1>50, <1>51, <1>52 DEF Next, Tx, PowerOnCalls, PowerOffCalls, Reset

\* No step takes the wake lock away while the host owns the subsystem.
LEMMA LockStep ==
  ASSUME "error" \notin Events, InvPsm, InvLock, [Next]_vars
  PROVE  InvLock'
  <1> USE DEF InvPsm, InvLock, Procs, power, flags, queue, bus, chip
  <1>1. CASE FwSends
    BY <1>1 DEF FwSends
  <1>2. CASE FwAssert
    BY <1>2 DEF FwAssert, Asserted
  <1>3. CASE WakeIrq
    BY <1>3 DEF WakeIrq
  <1>4. CASE SwIrq
    BY <1>4 DEF SwIrq
  <1>5. CASE RxStart
    BY <1>5 DEF RxStart
  <1>6. CASE RxDone
    BY <1>6 DEF RxDone
  <1>7. CASE CmdTimeout
    BY <1>7 DEF CmdTimeout
  <1>8. CASE TxWake
    BY <1>8 DEF TxWake
  <1>9. CASE TxExit
    BY <1>9 DEF TxExit
  <1>10. CASE TxSwIrq
    BY <1>10 DEF TxSwIrq
  <1>11. CASE TxSlept
    BY <1>11 DEF TxSlept, Turn
  <1>12. CASE TxWakeup
    BY <1>12 DEF TxWakeup, Turn
  <1>13. CASE DpidleOff
    BY <1>13 DEF DpidleOff
  <1>14. CASE OwnClr
    BY <1>14 DEF OwnClr, Own
  <1>15. CASE OwnClrFails
    BY <1>15 DEF OwnClrFails
  <1>16. CASE TxNormal
    BY <1>16 DEF TxNormal, Turn
  <1>17. CASE TxAssertCmd
    BY <1>17 DEF TxAssertCmd
  <1>18. CASE TxCheckCmd
    BY <1>18 DEF TxCheckCmd
  <1>19. CASE TxSend
    BY <1>19 DEF TxSend
  <1>20. CASE TxSent
    BY <1>20 DEF TxSent
  <1>21. CASE TxDrained
    BY <1>21 DEF TxDrained
  <1>22. CASE TxPs
    BY <1>22 DEF TxPs
  <1>23. CASE OwnSet
    BY <1>23 DEF OwnSet, Own
  <1>24. CASE OwnSetFails
    BY <1>24 DEF OwnSetFails
  <1>25. CASE IrqOn
    BY <1>25 DEF IrqOn
  <1>26. CASE DpidleOn
    BY <1>26 DEF DpidleOn
  <1>27. CASE DpidleTimer
    BY <1>27 DEF DpidleTimer
  <1>28. CASE btmtk_btif_enter_deep_idle
    BY <1>28 DEF btmtk_btif_enter_deep_idle
  <1>29. CASE SetSleepDone
    BY <1>29 DEF SetSleepDone, Go
  <1>30. CASE SetSleepTimeout
    BY <1>30 DEF SetSleepTimeout, Go
  <1>31. CASE PowerOn
    BY <1>31 DEF PowerOn, Own, Go
  <1>32. CASE PowerOnFails
    BY <1>32 DEF PowerOnFails, Go
  <1>33. CASE PowerOnSkip
    BY <1>33 DEF PowerOnSkip, Go
  <1>34. CASE Write
    BY <1>34 DEF Write
  <1>35. CASE Close
    BY <1>35 DEF Close, Go
  <1>36. CASE FuncOn
    BY <1>36 DEF FuncOn, Go
  <1>37. CASE FuncOnFails
    BY <1>37 DEF FuncOnFails, Go
  <1>38. CASE PowerOnDone
    BY <1>38 DEF PowerOnDone, Go
  <1>39. CASE PowerOnUndone
    BY <1>39 DEF PowerOnUndone, bt_hw_and_mcu_off, Own, Go
  <1>40. CASE PowerOnLate
    BY <1>40 DEF PowerOnLate, Go
  <1>41. CASE ResetStart
    BY <1>41 DEF ResetStart, Go
  <1>42. CASE ResetGivesUp
    BY <1>42 DEF ResetGivesUp, Go
  <1>43. CASE ResetLevel
    BY <1>43 DEF ResetLevel, IrqRequested, Asserted, Go
  <1>44. CASE ResetDump
    BY <1>44 DEF ResetDump, Go
  <1>45. CASE ResetTest
    BY <1>45 DEF ResetTest, Go
  <1>46. CASE ResetSet
    BY <1>46 DEF ResetSet, Go
  <1>47. ASSUME NEW p \in Procs, PowerOffSkip(p) PROVE InvLock'
    BY <1>47 DEF PowerOffSkip, Go, Rest
  <1>48. ASSUME NEW p \in Procs, PowerOff(p) PROVE InvLock'
    BY <1>48 DEF PowerOff, Go
  <1>49. ASSUME NEW p \in Procs, PowerOffWmt(p) PROVE InvLock'
    BY <1>49 DEF PowerOffWmt, Go
  <1>50. ASSUME NEW p \in Procs, PowerOffDone(p) PROVE InvLock'
    BY <1>50 DEF PowerOffDone, bt_hw_and_mcu_off, Own, Go, Rest
  <1>51. CASE UNCHANGED vars
    BY <1>51 DEF vars
  <1>52. CASE PowerOnNoThread
    BY <1>52 DEF PowerOnNoThread, Go
  <1>53. QED
    BY <1>1, <1>2, <1>3, <1>4, <1>5, <1>6, <1>7, <1>8, <1>9, <1>10, <1>11, <1>12, <1>13, 
       <1>14, <1>15, <1>16, <1>17, <1>18, <1>19, <1>20, <1>21, <1>22, <1>23, <1>24, <1>25, 
       <1>26, <1>27, <1>28, <1>29, <1>30, <1>31, <1>32, <1>33, <1>34, <1>35, <1>36, <1>37, 
       <1>38, <1>39, <1>40, <1>41, <1>42, <1>43, <1>44, <1>45, <1>46, <1>47, <1>48, <1>49, 
       <1>50, <1>51, <1>52 DEF Next, Tx, PowerOnCalls, PowerOffCalls, Reset

\* Init meets the invariant, the one of the wake lock too.
LEMMA InitInv ==
  ASSUME Init
  PROVE  IInv /\ InvLock
  <1> USE DEF Init, Procs
  <1>1. TypeArrays
    <2>1. pc \in [Procs -> Pcs]
      BY DEF Pcs
    <2>2. irq \in [{"wake", "sw"} -> BOOLEAN] /\ out \in Seq({"cmd", "acl", "wmt"})
      OBVIOUS
    <2>3. btif \in BOOLEAN
      BY Zenon
    <2>4. QED
      BY <2>1, <2>2, <2>3 DEF TypeArrays
  <1>2. InvOpen
    BY DEF InvOpen
  <1>3. InvPsm /\ InvArmed /\ InvLock
    BY DEF InvPsm, InvArmed, InvLock
  <1>4. QED
    BY <1>1, <1>2, <1>3 DEF IInv

\* Every step keeps the invariant.
LEMMA StepInv ==
  ASSUME IInv, [Next]_vars
  PROVE  IInv'
  BY ArraysStep, BusStep, SleepStep DEF IInv

\* The invariant holds in every state of every behaviour.
LEMMA InvHolds == Spec => []IInv
  <1>1. Init => IInv
    BY InitInv
  <1>2. IInv /\ [Next]_vars => IInv'
    BY StepInv
  <1>3. QED
    BY <1>1, <1>2, PTL DEF Spec

\* btmtk_btif_dpidle_ctrl never meets a closed BTIF, and the deep-idle work is over when
\* btmtk_btif_close returns: BtifOpen for every bound, every kind of packet and every fault.
THEOREM BtifStaysOpen == Spec => []BtifOpen
  <1>1. IInv => BtifOpen
    BY DEF IInv, InvOpen, BtifOpen
  <1>2. QED
    BY <1>1, InvHolds, PTL

\* bt_state is FUNC_OFF only with the wake lock free, whoever switched Bluetooth off.
THEOREM OffReleases == Spec => []Released
  <1>1. IInv => Released
    BY DEF IInv, InvOpen, Released
  <1>2. QED
    BY <1>1, InvHolds, PTL

\* When the calls of the BTIF driver succeed, the deep-idle work never takes the wake lock
\* from the thread that has woken the subsystem up.
THEOREM AwakeLocked ==
  ASSUME "error" \notin Events
  PROVE  Spec => []WakeLockHeld
  <1> DEFINE LInv == IInv /\ InvLock
  <1>1. Init => LInv
    BY InitInv
  <1>2. LInv /\ [Next]_vars => LInv'
    <2>1. ASSUME LInv, [Next]_vars PROVE InvLock'
      BY <2>1, LockStep DEF IInv
    <2>2. QED
      BY <2>1, StepInv
  <1>3. LInv => WakeLockHeld
    BY DEF InvLock, WakeLockHeld
  <1>4. QED
    <2> HIDE DEF LInv
    <2>1. QED
      BY <1>1, <1>2, <1>3, PTL DEF Spec
=============================================================================
