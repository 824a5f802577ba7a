-------------------------- MODULE BtPsmTypeProofs --------------------------
(***************************************************************************)
(* Type correctness of BtPsm, with the bound of tx_queue, and that its     *)
(* thread is never stranded, for every value of the constants.             *)
(***************************************************************************)
EXTENDS BtPsmProofs

-----------------------------------------------------------------------------
(* The inductive invariant.                                                *)

\* halt_sem is held from power on or off until it is over.
InvHalt ==
  \A p \in Procs :
    pc[p] \in {"off_wmt", "off_stop", "open_wmt", "open_fin", "open_stop"} => halt_sem = p

\* The packets queued are those the stack wrote, but for the command of power off.
InvLen == (\A p \in Procs : pc[p] \notin {"off_wmt", "off_stop"}) => Len(txq) <= MaxTx

\* kthread_stop has told the thread before it waits, and only a reset on its way to power off
\* sets RESET_START.
InvStop ==
  /\ \A p \in Procs : pc[p] \in {"off_stop", "open_stop"} => stop
  /\ bt_state = "RESET_START" => pc["work"] \in {"off", "off_stop"}

TInv == TypeState /\ TypeFlags /\ TypeQueues /\ InvHalt /\ InvLen /\ InvStop
-----------------------------------------------------------------------------
\* The calls, the thread and the chip stay in the states the code knows, and one call at a
\* time is inside halt_sem.
LEMMA StateStep ==
  ASSUME TypeState, TypeFlags, InvHalt, [Next]_vars
  PROVE  TypeState' /\ InvHalt'
  <1> USE DEF TypeState, InvHalt, Procs, Pcs, TxPcs, power, flags, queue, bus, chip
  <1>1. CASE FwSends
    BY <1>1 DEF FwSends
  <1>2. CASE FwAssert
    BY <1>2 DEF FwAssert, Asserted
  <1>3. CASE WakeIrq
    BY <1>3 DEF WakeIrq
  <1>4. CASE SwIrq
    BY <1>4 DEF SwIrq
  <1>5. CASE RxStart
    BY <1>5 DEF RxStart
  <1>6. CASE RxDone
    BY <1>6 DEF RxDone
  <1>7. CASE CmdTimeout
    BY <1>7 DEF CmdTimeout
  <1>8. CASE TxWake
    BY <1>8 DEF TxWake
  <1>9. CASE TxExit
    BY <1>9 DEF TxExit
  <1>10. CASE TxSwIrq
    BY <1>10 DEF TxSwIrq
  <1>11. CASE TxSlept
    BY <1>11 DEF TxSlept, Turn
  <1>12. CASE TxWakeup
    BY <1>12 DEF TxWakeup, Turn
  <1>13. CASE DpidleOff
    BY <1>13 DEF DpidleOff
  <1>14. CASE OwnClr
    BY <1>14 DEF OwnClr, Own
  <1>15. CASE OwnClrFails
    BY <1>15 DEF OwnClrFails
  <1>16. CASE TxNormal
    BY <1>16 DEF TxNormal, Turn
  <1>17. CASE TxAssertCmd
    BY <1>17 DEF TxAssertCmd
  <1>18. CASE TxCheckCmd
    BY <1>18 DEF TxCheckCmd
  <1>19. CASE TxSend
    BY <1>19 DEF TxSend
  <1>20. CASE TxSent
    BY <1>20 DEF TxSent
  <1>21. CASE TxDrained
    BY <1>21 DEF TxDrained
  <1>22. CASE TxPs
    BY <1>22 DEF TxPs
  <1>23. CASE OwnSet
    BY <1>23 DEF OwnSet, Own
  <1>24. CASE OwnSetFails
    BY <1>24 DEF OwnSetFails
  <1>25. CASE IrqOn
    BY <1>25 DEF IrqOn
  <1>26. CASE DpidleOn
    BY <1>26 DEF DpidleOn
  <1>27. CASE DpidleTimer
    BY <1>27 DEF DpidleTimer
  <1>28. CASE btmtk_btif_enter_deep_idle
    BY <1>28 DEF btmtk_btif_enter_deep_idle
  <1>29. CASE SetSleepDone
    BY <1>29 DEF SetSleepDone, Go
  <1>30. CASE SetSleepTimeout
    BY <1>30 DEF SetSleepTimeout, Go
  <1>31. CASE PowerOn
    <2>1. /\ halt_sem = None /\ halt_sem' = "user" /\ pc' = [pc EXCEPT !["user"] = "open_wmt"]
          /\ bt_state' = "TURNING_ON" /\ tpc' = "wait" /\ psm' = "SLEEP" /\ own' = "fw" /\ swst' = "none"
      BY <1>31 DEF PowerOn, Own, Go
    <2>2. irq' \in [{"wake", "sw"} -> BOOLEAN]
      BY <1>31 DEF PowerOn
    <2>3. pc["work"] \notin {"off_wmt", "off_stop", "open_wmt", "open_fin", "open_stop"}
      BY <2>1, NoneIsNew
    <2>4. InvHalt'
      BY <2>1, <2>3
    <2>5. QED
      BY <2>1, <2>2, <2>4
  <1>32. CASE PowerOnFails
    BY <1>32 DEF PowerOnFails, Go
  <1>33. CASE PowerOnSkip
    BY <1>33 DEF PowerOnSkip, Go
  <1>34. CASE Write
    BY <1>34 DEF Write
  <1>35. CASE Close
    BY <1>35 DEF Close, Go
  <1>36. CASE FuncOn
    BY <1>36 DEF FuncOn, Go
  <1>37. CASE FuncOnFails
    BY <1>37 DEF FuncOnFails, Go
  <1>38. CASE PowerOnDone
    BY <1>38 DEF PowerOnDone, Go
  <1>39. CASE PowerOnUndone
    BY <1>39 DEF PowerOnUndone, bt_hw_and_mcu_off, Own, Go
  <1>40. CASE PowerOnLate
    BY <1>40 DEF PowerOnLate, Go
  <1>41. CASE ResetStart
    BY <1>41 DEF ResetStart, Go
  <1>42. CASE ResetGivesUp
    BY <1>42 DEF ResetGivesUp, Go
  <1>43. CASE ResetLevel
    <2>1. \E l \in {"dump", "test"} : pc' = [pc EXCEPT !["work"] = l]
      BY <1>43 DEF ResetLevel, Go
    <2>2. irq' \in [{"wake", "sw"} -> BOOLEAN]
      BY <1>43 DEF ResetLevel, IrqRequested, TypeFlags
    <2>3. swst' \in {"none", "reset"}
      BY <1>43 DEF ResetLevel, Asserted
    <2>4. UNCHANGED <<bt_state, halt_sem, tpc, psm, own>>
      BY <1>43 DEF ResetLevel
    <2>5. QED
      BY <2>1, <2>2, <2>3, <2>4
  <1>44. CASE ResetDump
    BY <1>44 DEF ResetDump, Go
  <1>45. CASE ResetTest
    BY <1>45 DEF ResetTest, Go
  <1>46. CASE ResetSet
    BY <1>46 DEF ResetSet, Go
  <1>47. ASSUME NEW p \in Procs, PowerOffSkip(p) PROVE TypeState' /\ InvHalt'
    BY <1>47 DEF PowerOffSkip, Go, Rest
  <1>48. ASSUME NEW p \in Procs, PowerOff(p) PROVE TypeState' /\ InvHalt'
    <2>1. halt_sem = None /\ halt_sem' = p /\ \E l \in {"off_stop", "off_wmt"} : pc' = [pc EXCEPT ![p] = l]
      BY <1>48 DEF PowerOff, Go
    <2>2. UNCHANGED <<bt_state, tpc, psm, own, swst, irq>>
      BY <1>48 DEF PowerOff
    <2>3. \A q \in Procs : pc[q] \notin {"off_wmt", "off_stop", "open_wmt", "open_fin", "open_stop"}
      BY <2>1, NoneIsNew
    <2>4. InvHalt'
      BY <2>1, <2>3
    <2>5. QED
      BY <2>1, <2>2, <2>4
  <1>49. ASSUME NEW p \in Procs, PowerOffWmt(p) PROVE TypeState' /\ InvHalt'
    BY <1>49 DEF PowerOffWmt, Go
  <1>50. ASSUME NEW p \in Procs, PowerOffDone(p) PROVE TypeState' /\ InvHalt'
    BY <1>50 DEF PowerOffDone, bt_hw_and_mcu_off, Own, Go, Rest
  <1>51. CASE UNCHANGED vars
    BY <1>51 DEF vars
  <1>52. CASE PowerOnNoThread
    BY <1>52 DEF PowerOnNoThread, Go
  <1>53. QED
    BY <1>1, <1>2, <1>3, <1>4, <1>5, <1>6, <1>7, <1>8, <1>9, <1>10, <1>11, <1>12, <1>13, 
       <1>14, <1>15, <1>16, <1>17, <1>18, <1>19, <1>20, <1>21, <1>22, <1>23, <1>24, <1>25, 
       <1>26, <1>27, <1>28, <1>29, <1>30, <1>31, <1>32, <1>33, <1>34, <1>35, <1>36, <1>37, 
       <1>38, <1>39, <1>40, <1>41, <1>42, <1>43, <1>44, <1>45, <1>46, <1>47, <1>48, <1>49, 
       <1>50, <1>51, <1>52 DEF Next, Tx, PowerOnCalls, PowerOffCalls, Reset

\* Every step keeps the flags Boolean.
LEMMA FlagsStep ==
  ASSUME TypeFlags, [Next]_vars
  PROVE  TypeFlags'
  <1> USE DEF TypeFlags, power, flags, queue, bus, chip
  <1>1. CASE FwSends
    BY <1>1 DEF FwSends
  <1>2. CASE FwAssert
    <2>1. alive' \in BOOLEAN
      BY <1>2, Zenon DEF FwAssert, Asserted
    <2>2. UNCHANGED <<rst, again, rstQ, stop, sleep_flag, rx_ind, bgf2ap_ind, check, evt,
                    btif, idle, is_dpidle, dpq, dpr, wake_lock>>
      BY <1>2 DEF FwAssert, Asserted
    <2>3. QED
      BY <2>1, <2>2
  <1>3. CASE WakeIrq
    <2>1. sleep_flag' \in BOOLEAN
      BY <1>3, Zenon DEF WakeIrq
    <2>2. rx_ind' \in BOOLEAN
      BY <1>3, Zenon DEF WakeIrq
    <2>3. UNCHANGED <<rst, again, rstQ, stop, bgf2ap_ind, check, evt, btif, idle,
                    is_dpidle, dpq, dpr, wake_lock, alive>>
      BY <1>3 DEF WakeIrq
    <2>4. QED
      BY <2>1, <2>2, <2>3
  <1>4. CASE SwIrq
    <2>1. bgf2ap_ind' \in BOOLEAN
      BY <1>4, Zenon DEF SwIrq
    <2>2. UNCHANGED <<rst, again, rstQ, stop, sleep_flag, rx_ind, check, evt, btif, idle,
                    is_dpidle, dpq, dpr, wake_lock, alive>>
      BY <1>4 DEF SwIrq
    <2>3. QED
      BY <2>1, <2>2
  <1>5. CASE RxStart
    <2>1. sleep_flag' \in BOOLEAN
      BY <1>5, Zenon DEF RxStart
    <2>2. UNCHANGED <<rst, again, rstQ, stop, rx_ind, bgf2ap_ind, check, evt, btif, idle,
                    is_dpidle, dpq, dpr, wake_lock, alive>>
      BY <1>5 DEF RxStart
    <2>3. QED
      BY <2>1, <2>2
  <1>6. CASE RxDone
    <2>1. sleep_flag' \in BOOLEAN
      BY <1>6, Zenon DEF RxDone
    <2>2. evt' \in BOOLEAN
      BY <1>6, Zenon DEF RxDone
    <2>3. UNCHANGED <<rst, again, rstQ, stop, rx_ind, bgf2ap_ind, check, btif, idle,
                    is_dpidle, dpq, dpr, wake_lock, alive>>
      BY <1>6 DEF RxDone
    <2>4. QED
      BY <2>1, <2>2, <2>3
  <1>7. CASE CmdTimeout
    <2>1. rstQ' \in BOOLEAN
      BY <1>7, Zenon DEF CmdTimeout
    <2>2. UNCHANGED <<rst, again, stop, sleep_flag, rx_ind, bgf2ap_ind, check, evt, btif,
                    idle, is_dpidle, dpq, dpr, wake_lock, alive>>
      BY <1>7 DEF CmdTimeout
    <2>3. QED
      BY <2>1, <2>2
  <1>8. CASE TxWake
    BY <1>8 DEF TxWake
  <1>9. CASE TxExit
    <2>1. wake_lock' \in BOOLEAN
      BY <1>9, Zenon DEF TxExit
    <2>2. UNCHANGED <<rst, again, rstQ, stop, sleep_flag, rx_ind, bgf2ap_ind, check, evt,
                    btif, idle, is_dpidle, dpq, dpr, alive>>
      BY <1>9 DEF TxExit
    <2>3. QED
      BY <2>1, <2>2
  <1>10. CASE TxSwIrq
    <2>1. rstQ' \in BOOLEAN
      BY <1>10, Zenon DEF TxSwIrq
    <2>2. bgf2ap_ind' \in BOOLEAN
      BY <1>10, Zenon DEF TxSwIrq
    <2>3. UNCHANGED <<rst, again, stop, sleep_flag, rx_ind, check, evt, btif, idle,
                    is_dpidle, dpq, dpr, wake_lock, alive>>
      BY <1>10 DEF TxSwIrq
    <2>4. QED
      BY <2>1, <2>2, <2>3
  <1>11. CASE TxSlept
    <2>1. sleep_flag' \in BOOLEAN
      BY <1>11, Zenon DEF TxSlept
    <2>2. UNCHANGED <<rst, again, rstQ, stop, rx_ind, bgf2ap_ind, check, evt, btif, idle,
                    is_dpidle, dpq, dpr, wake_lock, alive>>
      BY <1>11 DEF TxSlept
    <2>3. QED
      BY <2>1, <2>2
  <1>12. CASE TxWakeup
    BY <1>12 DEF TxWakeup, Turn
  <1>13. CASE DpidleOff
    <2>1. idle' \in BOOLEAN
      BY <1>13, Zenon DEF DpidleOff
    <2>2. is_dpidle' \in BOOLEAN
      BY <1>13, Zenon DEF DpidleOff
    <2>3. dpq' \in BOOLEAN
      BY <1>13, Zenon DEF DpidleOff
    <2>4. wake_lock' \in BOOLEAN
      BY <1>13, Zenon DEF DpidleOff
    <2>5. UNCHANGED <<rst, again, rstQ, stop, sleep_flag, rx_ind, bgf2ap_ind, check, evt,
                    btif, dpr, alive>>
      BY <1>13 DEF DpidleOff
    <2>6. QED
      BY <2>1, <2>2, <2>3, <2>4, <2>5
  <1>14. CASE OwnClr
    BY <1>14 DEF OwnClr
  <1>15. CASE OwnClrFails
    <2>1. rstQ' \in BOOLEAN
      BY <1>15, Zenon DEF OwnClrFails
    <2>2. is_dpidle' \in BOOLEAN
      BY <1>15, Zenon DEF OwnClrFails
    <2>3. dpq' \in BOOLEAN
      BY <1>15, Zenon DEF OwnClrFails
    <2>4. UNCHANGED <<rst, again, stop, sleep_flag, rx_ind, bgf2ap_ind, check, evt, btif,
                    idle, dpr, wake_lock, alive>>
      BY <1>15 DEF OwnClrFails
    <2>5. QED
      BY <2>1, <2>2, <2>3, <2>4
  <1>16. CASE TxNormal
    <2>1. rx_ind' \in BOOLEAN
      BY <1>16, Zenon DEF TxNormal
    <2>2. UNCHANGED <<rst, again, rstQ, stop, sleep_flag, bgf2ap_ind, check, evt, btif,
                    idle, is_dpidle, dpq, dpr, wake_lock, alive>>
      BY <1>16 DEF TxNormal
    <2>3. QED
      BY <2>1, <2>2
  <1>17. CASE TxAssertCmd
    <2>1. rstQ' \in BOOLEAN
      BY <1>17, Zenon DEF TxAssertCmd
    <2>2. UNCHANGED <<rst, again, stop, sleep_flag, rx_ind, bgf2ap_ind, check, evt, btif,
                    idle, is_dpidle, dpq, dpr, wake_lock, alive>>
      BY <1>17 DEF TxAssertCmd
    <2>3. QED
      BY <2>1, <2>2
  <1>18. CASE TxCheckCmd
    <2>1. check' \in BOOLEAN
      BY <1>18, Zenon DEF TxCheckCmd
    <2>2. UNCHANGED <<rst, again, rstQ, stop, sleep_flag, rx_ind, bgf2ap_ind, evt, btif,
                    idle, is_dpidle, dpq, dpr, wake_lock, alive>>
      BY <1>18 DEF TxCheckCmd
    <2>3. QED
      BY <2>1, <2>2
  <1>19. CASE TxSend
    BY <1>19 DEF TxSend
  <1>20. CASE TxSent
    <2>1. sleep_flag' \in BOOLEAN
      BY <1>20, Zenon DEF TxSent
    <2>2. UNCHANGED <<rst, again, rstQ, stop, rx_ind, bgf2ap_ind, check, evt, btif, idle,
                    is_dpidle, dpq, dpr, wake_lock, alive>>
      BY <1>20 DEF TxSent
    <2>3. QED
      BY <2>1, <2>2
  <1>21. CASE TxDrained
    BY <1>21 DEF TxDrained
  <1>22. CASE TxPs
    BY <1>22 DEF TxPs
  <1>23. CASE OwnSet
    BY <1>23 DEF OwnSet
  <1>24. CASE OwnSetFails
    <2>1. rstQ' \in BOOLEAN
      BY <1>24, Zenon DEF OwnSetFails
    <2>2. UNCHANGED <<rst, again, stop, sleep_flag, rx_ind, bgf2ap_ind, check, evt, btif,
                    idle, is_dpidle, dpq, dpr, wake_lock, alive>>
      BY <1>24 DEF OwnSetFails
    <2>3. QED
      BY <2>1, <2>2
  <1>25. CASE IrqOn
    BY <1>25 DEF IrqOn
  <1>26. CASE DpidleOn
    <2>1. is_dpidle' \in BOOLEAN
      BY <1>26, Zenon DEF DpidleOn
    <2>2. dpq' \in BOOLEAN
      BY <1>26, Zenon DEF DpidleOn
    <2>3. UNCHANGED <<rst, again, rstQ, stop, sleep_flag, rx_ind, bgf2ap_ind, check, evt,
                    btif, idle, dpr, wake_lock, alive>>
      BY <1>26 DEF DpidleOn
    <2>4. QED
      BY <2>1, <2>2, <2>3
  <1>27. CASE DpidleTimer
    <2>1. dpq' \in BOOLEAN
      BY <1>27, Zenon DEF DpidleTimer
    <2>2. dpr' \in BOOLEAN
      BY <1>27, Zenon DEF DpidleTimer
    <2>3. UNCHANGED <<rst, again, rstQ, stop, sleep_flag, rx_ind, bgf2ap_ind, check, evt,
                    btif, idle, is_dpidle, wake_lock, alive>>
      BY <1>27 DEF DpidleTimer
    <2>4. QED
      BY <2>1, <2>2, <2>3
  <1>28. CASE btmtk_btif_enter_deep_idle
    <2>1. idle' \in BOOLEAN
      BY <1>28, Zenon DEF btmtk_btif_enter_deep_idle
    <2>2. is_dpidle' \in BOOLEAN
      BY <1>28, Zenon DEF btmtk_btif_enter_deep_idle
    <2>3. dpr' \in BOOLEAN
      BY <1>28, Zenon DEF btmtk_btif_enter_deep_idle
    <2>4. wake_lock' \in BOOLEAN
      BY <1>28, Zenon DEF btmtk_btif_enter_deep_idle
    <2>5. UNCHANGED <<rst, again, rstQ, stop, sleep_flag, rx_ind, bgf2ap_ind, check, evt,
                    btif, dpq, alive>>
      BY <1>28 DEF btmtk_btif_enter_deep_idle
    <2>6. QED
      BY <2>1, <2>2, <2>3, <2>4, <2>5
  <1>29. CASE SetSleepDone
    BY <1>29 DEF SetSleepDone
  <1>30. CASE SetSleepTimeout
    <2>1. sleep_flag' \in BOOLEAN
      BY <1>30, Zenon DEF SetSleepTimeout
    <2>2. UNCHANGED <<rst, again, rstQ, stop, rx_ind, bgf2ap_ind, check, evt, btif, idle,
                    is_dpidle, dpq, dpr, wake_lock, alive>>
      BY <1>30 DEF SetSleepTimeout
    <2>3. QED
      BY <2>1, <2>2
  <1>31. CASE PowerOn
    <2>1. rstQ' \in BOOLEAN
      BY <1>31, Zenon DEF PowerOn
    <2>2. stop' \in BOOLEAN
      BY <1>31, Zenon DEF PowerOn
    <2>3. sleep_flag' \in BOOLEAN
      BY <1>31, Zenon DEF PowerOn
    <2>4. rx_ind' \in BOOLEAN
      BY <1>31, Zenon DEF PowerOn
    <2>5. check' \in BOOLEAN
      BY <1>31, Zenon DEF PowerOn
    <2>6. evt' \in BOOLEAN
      BY <1>31, Zenon DEF PowerOn
    <2>7. btif' \in BOOLEAN
      BY <1>31, Zenon DEF PowerOn
    <2>8. idle' \in BOOLEAN
      BY <1>31, Zenon DEF PowerOn
    <2>9. is_dpidle' \in BOOLEAN
      BY <1>31, Zenon DEF PowerOn
    <2>10. alive' \in BOOLEAN
      BY <1>31, Zenon DEF PowerOn
    <2>11. UNCHANGED <<rst, again, bgf2ap_ind, dpq, dpr, wake_lock>>
      BY <1>31 DEF PowerOn
    <2>12. QED
      BY <2>1, <2>2, <2>3, <2>4, <2>5, <2>6, <2>7, <2>8, <2>9, <2>10, <2>11
  <1>32. CASE PowerOnFails
    <2>1. rstQ' \in BOOLEAN
      BY <1>32, Zenon DEF PowerOnFails
    <2>2. btif' \in BOOLEAN
      BY <1>32, Zenon DEF PowerOnFails
    <2>3. is_dpidle' \in BOOLEAN
      BY <1>32, Zenon DEF PowerOnFails
    <2>4. UNCHANGED <<rst, again, stop, sleep_flag, rx_ind, bgf2ap_ind, check, evt, idle,
                    dpq, dpr, wake_lock, alive>>
      BY <1>32 DEF PowerOnFails
    <2>5. QED
      BY <2>1, <2>2, <2>3, <2>4
  <1>33. CASE PowerOnSkip
    <2>1. sleep_flag' \in BOOLEAN
      BY <1>33, Zenon DEF PowerOnSkip
    <2>2. UNCHANGED <<rst, again, rstQ, stop, rx_ind, bgf2ap_ind, check, evt, btif, idle,
                    is_dpidle, dpq, dpr, wake_lock, alive>>
      BY <1>33 DEF PowerOnSkip
    <2>3. QED
      BY <2>1, <2>2
  <1>34. CASE Write
    BY <1>34 DEF Write
  <1>35. CASE Close
    BY <1>35 DEF Close
  <1>36. CASE FuncOn
    <2>1. evt' \in BOOLEAN
      BY <1>36, Zenon DEF FuncOn
    <2>2. UNCHANGED <<rst, again, rstQ, stop, sleep_flag, rx_ind, bgf2ap_ind, check, btif,
                    idle, is_dpidle, dpq, dpr, wake_lock, alive>>
      BY <1>36 DEF FuncOn
    <2>3. QED
      BY <2>1, <2>2
  <1>37. CASE FuncOnFails
    <2>1. again' \in BOOLEAN
      BY <1>37, Zenon DEF FuncOnFails
    <2>2. stop' \in BOOLEAN
      BY <1>37, Zenon DEF FuncOnFails
    <2>3. evt' \in BOOLEAN
      BY <1>37, Zenon DEF FuncOnFails
    <2>4. UNCHANGED <<rst, rstQ, sleep_flag, rx_ind, bgf2ap_ind, check, btif, idle,
                    is_dpidle, dpq, dpr, wake_lock, alive>>
      BY <1>37 DEF FuncOnFails
    <2>5. QED
      BY <2>1, <2>2, <2>3, <2>4
  <1>38. CASE PowerOnDone
    <2>1. rst' \in BOOLEAN
      BY <1>38, Zenon DEF PowerOnDone
    <2>2. again' \in BOOLEAN
      BY <1>38, Zenon DEF PowerOnDone
    <2>3. sleep_flag' \in BOOLEAN
      BY <1>38, Zenon DEF PowerOnDone
    <2>4. UNCHANGED <<rstQ, stop, rx_ind, bgf2ap_ind, check, evt, btif, idle, is_dpidle,
                    dpq, dpr, wake_lock, alive>>
      BY <1>38 DEF PowerOnDone
    <2>5. QED
      BY <2>1, <2>2, <2>3, <2>4
  <1>39. CASE PowerOnUndone
    <2>1. check' \in BOOLEAN
      BY <1>39, Zenon DEF PowerOnUndone, bt_hw_and_mcu_off
    <2>2. btif' \in BOOLEAN
      BY <1>39, Zenon DEF PowerOnUndone, bt_hw_and_mcu_off
    <2>3. idle' \in BOOLEAN
      BY <1>39, Zenon DEF PowerOnUndone, bt_hw_and_mcu_off
    <2>4. dpq' \in BOOLEAN
      BY <1>39, Zenon DEF PowerOnUndone, bt_hw_and_mcu_off
    <2>5. wake_lock' \in BOOLEAN
      BY <1>39, Zenon DEF PowerOnUndone, bt_hw_and_mcu_off
    <2>6. alive' \in BOOLEAN
      BY <1>39, Zenon DEF PowerOnUndone, bt_hw_and_mcu_off
    <2>7. UNCHANGED <<rst, again, rstQ, stop, sleep_flag, rx_ind, bgf2ap_ind, evt,
                    is_dpidle, dpr>>
      BY <1>39 DEF PowerOnUndone, bt_hw_and_mcu_off
    <2>8. QED
      BY <2>1, <2>2, <2>3, <2>4, <2>5, <2>6, <2>7
  <1>40. CASE PowerOnLate
    BY <1>40 DEF PowerOnLate
  <1>41. CASE ResetStart
    <2>1. again' \in BOOLEAN
      BY <1>41, Zenon DEF ResetStart
    <2>2. rstQ' \in BOOLEAN
      BY <1>41, Zenon DEF ResetStart
    <2>3. UNCHANGED <<rst, stop, sleep_flag, rx_ind, bgf2ap_ind, check, evt, btif, idle,
                    is_dpidle, dpq, dpr, wake_lock, alive>>
      BY <1>41 DEF ResetStart
    <2>4. QED
      BY <2>1, <2>2, <2>3
  <1>42. CASE ResetGivesUp
    BY <1>42 DEF ResetGivesUp
  <1>43. CASE ResetLevel
    <2>1. rst' \in BOOLEAN
      BY <1>43, Zenon DEF ResetLevel, Asserted
    <2>2. alive' \in BOOLEAN
      BY <1>43, Zenon DEF ResetLevel, Asserted
    <2>3. UNCHANGED <<again, rstQ, stop, sleep_flag, rx_ind, bgf2ap_ind, check, evt, btif,
                    idle, is_dpidle, dpq, dpr, wake_lock>>
      BY <1>43 DEF ResetLevel, Asserted
    <2>4. QED
      BY <2>1, <2>2, <2>3
  <1>44. CASE ResetDump
    BY <1>44 DEF ResetDump
  <1>45. CASE ResetTest
    BY <1>45 DEF ResetTest
  <1>46. CASE ResetSet
    BY <1>46 DEF ResetSet
  <1>47. ASSUME NEW p \in Procs, PowerOffSkip(p) PROVE TypeFlags'
    BY <1>47 DEF PowerOffSkip
  <1>48. ASSUME NEW p \in Procs, PowerOff(p) PROVE TypeFlags'
    <2>1. stop' \in BOOLEAN
      BY <1>48, Zenon DEF PowerOff
    <2>2. UNCHANGED <<rst, again, rstQ, sleep_flag, rx_ind, bgf2ap_ind, check, evt, btif,
                    idle, is_dpidle, dpq, dpr, wake_lock, alive>>
      BY <1>48 DEF PowerOff
    <2>3. QED
      BY <2>1, <2>2
  <1>49. ASSUME NEW p \in Procs, PowerOffWmt(p) PROVE TypeFlags'
    <2>1. stop' \in BOOLEAN
      BY <1>49, Zenon DEF PowerOffWmt
    <2>2. evt' \in BOOLEAN
      BY <1>49, Zenon DEF PowerOffWmt
    <2>3. UNCHANGED <<rst, again, rstQ, sleep_flag, rx_ind, bgf2ap_ind, check, btif, idle,
                    is_dpidle, dpq, dpr, wake_lock, alive>>
      BY <1>49 DEF PowerOffWmt
    <2>4. QED
      BY <2>1, <2>2, <2>3
  <1>50. ASSUME NEW p \in Procs, PowerOffDone(p) PROVE TypeFlags'
    <2>1. check' \in BOOLEAN
      BY <1>50, Zenon DEF PowerOffDone, bt_hw_and_mcu_off
    <2>2. btif' \in BOOLEAN
      BY <1>50, Zenon DEF PowerOffDone, bt_hw_and_mcu_off
    <2>3. idle' \in BOOLEAN
      BY <1>50, Zenon DEF PowerOffDone, bt_hw_and_mcu_off
    <2>4. dpq' \in BOOLEAN
      BY <1>50, Zenon DEF PowerOffDone, bt_hw_and_mcu_off
    <2>5. wake_lock' \in BOOLEAN
      BY <1>50, Zenon DEF PowerOffDone, bt_hw_and_mcu_off
    <2>6. alive' \in BOOLEAN
      BY <1>50, Zenon DEF PowerOffDone, bt_hw_and_mcu_off
    <2>7. UNCHANGED <<rst, again, rstQ, stop, sleep_flag, rx_ind, bgf2ap_ind, evt,
                    is_dpidle, dpr>>
      BY <1>50 DEF PowerOffDone, bt_hw_and_mcu_off
    <2>8. QED
      BY <2>1, <2>2, <2>3, <2>4, <2>5, <2>6, <2>7
  <1>51. CASE UNCHANGED vars
    BY <1>51 DEF vars
  <1>52. CASE PowerOnNoThread
    <2>1. rstQ' \in BOOLEAN
      BY <1>52, Zenon DEF PowerOnNoThread
    <2>2. sleep_flag' \in BOOLEAN
      BY <1>52, Zenon DEF PowerOnNoThread
    <2>3. rx_ind' \in BOOLEAN
      BY <1>52, Zenon DEF PowerOnNoThread
    <2>4. evt' \in BOOLEAN
      BY <1>52, Zenon DEF PowerOnNoThread
    <2>5. btif' \in BOOLEAN
      BY <1>52, Zenon DEF PowerOnNoThread
    <2>6. idle' \in BOOLEAN
      BY <1>52, Zenon DEF PowerOnNoThread
    <2>7. is_dpidle' \in BOOLEAN
      BY <1>52, Zenon DEF PowerOnNoThread
    <2>8. wake_lock' \in BOOLEAN
      BY <1>52, Zenon DEF PowerOnNoThread
    <2>9. UNCHANGED <<rst, again, stop, bgf2ap_ind, check, dpq, dpr, alive>>
      BY <1>52 DEF PowerOnNoThread
    <2>10. QED
      BY <2>1, <2>2, <2>3, <2>4, <2>5, <2>6, <2>7, <2>8, <2>9
  <1>53. QED
    BY <1>1, <1>2, <1>3, <1>4, <1>5, <1>6, <1>7, <1>8, <1>9, <1>10, <1>11, <1>12, <1>13, 
       <1>14, <1>15, <1>16, <1>17, <1>18, <1>19, <1>20, <1>21, <1>22, <1>23, <1>24, <1>25, 
       <1>26, <1>27, <1>28, <1>29, <1>30, <1>31, <1>32, <1>33, <1>34, <1>35, <1>36, <1>37, 
       <1>38, <1>39, <1>40, <1>41, <1>42, <1>43, <1>44, <1>45, <1>46, <1>47, <1>48, <1>49, 
       <1>50, <1>51, <1>52 DEF Next, Tx, PowerOnCalls, PowerOffCalls, Reset

\* A packet is queued only below the bound, and only power off goes beyond it.
LEMMA QueuesStep ==
  ASSUME TypeState, TypeQueues, InvHalt, InvLen, [Next]_vars
  PROVE  TypeQueues' /\ InvLen'
  <1> USE DEF TypeState, TypeQueues, InvHalt, InvLen, Procs, Pcs, power, flags, queue, bus, chip
  <1>1. CASE FwSends
    BY <1>1, BoundsPositive DEF FwSends
  <1>2. CASE FwAssert
    BY <1>2, BoundsPositive DEF FwAssert, Asserted
  <1>3. CASE WakeIrq
    BY <1>3, BoundsPositive DEF WakeIrq
  <1>4. CASE SwIrq
    BY <1>4, BoundsPositive DEF SwIrq
  <1>5. CASE RxStart
    BY <1>5, BoundsPositive DEF RxStart
  <1>6. CASE RxDone
    BY <1>6, BoundsPositive DEF RxDone
  <1>7. CASE CmdTimeout
    BY <1>7, BoundsPositive DEF CmdTimeout
  <1>8. CASE TxWake
    BY <1>8, BoundsPositive DEF TxWake
  <1>9. CASE TxExit
    BY <1>9, BoundsPositive DEF TxExit
  <1>10. CASE TxSwIrq
    BY <1>10, BoundsPositive DEF TxSwIrq
  <1>11. CASE TxSlept
    BY <1>11, BoundsPositive DEF TxSlept, Turn
  <1>12. CASE TxWakeup
    BY <1>12, BoundsPositive DEF TxWakeup, Turn
  <1>13. CASE DpidleOff
    BY <1>13, BoundsPositive DEF DpidleOff
  <1>14. CASE OwnClr
    BY <1>14, BoundsPositive DEF OwnClr, Own
  <1>15. CASE OwnClrFails
    BY <1>15, BoundsPositive DEF OwnClrFails
  <1>16. CASE TxNormal
    BY <1>16, BoundsPositive DEF TxNormal, Turn
  <1>17. CASE TxAssertCmd
    BY <1>17, BoundsPositive DEF TxAssertCmd
  <1>18. CASE TxCheckCmd
    BY <1>18, BoundsPositive DEF TxCheckCmd
  <1>19. CASE TxSend
    <2>1. txq \in Seq({"cmd", "acl", "check", "assert", "wmt"}) /\ txq # <<>>
      BY <1>19 DEF TxSend
    <2>2. txq' \in Seq({"cmd", "acl", "check", "assert", "wmt"}) /\ Len(txq') <= Len(txq)
      BY <1>19, <2>1 DEF TxSend
    <2>3. Head(txq) \in {"cmd", "acl", "wmt"} /\ (out' = out \/ out' = Append(out, Head(txq)))
      BY <1>19 DEF TxSend, Answer
    <2>4. out' \in Seq({"cmd", "acl", "wmt"})
      BY <2>3
    <2>5. cmds' \in Nat
      BY <1>19 DEF TxSend
    <2>6. UNCHANGED <<pc, rxi, done>>
      BY <1>19 DEF TxSend
    <2>7. QED
      BY <2>2, <2>4, <2>5, <2>6, BoundsPositive
  <1>20. CASE TxSent
    BY <1>20, BoundsPositive DEF TxSent
  <1>21. CASE TxDrained
    BY <1>21, BoundsPositive DEF TxDrained
  <1>22. CASE TxPs
    BY <1>22, BoundsPositive DEF TxPs
  <1>23. CASE OwnSet
    BY <1>23, BoundsPositive DEF OwnSet, Own
  <1>24. CASE OwnSetFails
    BY <1>24, BoundsPositive DEF OwnSetFails
  <1>25. CASE IrqOn
    BY <1>25, BoundsPositive DEF IrqOn
  <1>26. CASE DpidleOn
    BY <1>26, BoundsPositive DEF DpidleOn
  <1>27. CASE DpidleTimer
    BY <1>27, BoundsPositive DEF DpidleTimer
  <1>28. CASE btmtk_btif_enter_deep_idle
    BY <1>28, BoundsPositive DEF btmtk_btif_enter_deep_idle
  <1>29. CASE SetSleepDone
    BY <1>29, BoundsPositive DEF SetSleepDone, Go
  <1>30. CASE SetSleepTimeout
    BY <1>30, BoundsPositive DEF SetSleepTimeout, Go
  <1>31. CASE PowerOn
    BY <1>31, BoundsPositive DEF PowerOn, Own, Go
  <1>32. CASE PowerOnFails
    BY <1>32, BoundsPositive DEF PowerOnFails, Go
  <1>33. CASE PowerOnSkip
    BY <1>33, BoundsPositive DEF PowerOnSkip, Go
  <1>34. CASE Write
    <2>1. PICK k \in Kinds : txq' = Append(txq, k)
      BY <1>34 DEF Write
    <2>2. k \in {"cmd", "acl", "check", "assert", "wmt"}
      BY KindsKnown
    <2>3. txq' \in Seq({"cmd", "acl", "check", "assert", "wmt"}) /\ Len(txq') = Len(txq) + 1
      BY <2>1, <2>2
    <2>4. Len(txq) + 1 <= MaxTx
      BY <1>34, BoundsPositive DEF Write
    <2>5. UNCHANGED <<pc, out, rxi, cmds, done>>
      BY <1>34 DEF Write
    <2>6. QED
      BY <2>3, <2>4, <2>5, BoundsPositive
  <1>35. CASE Close
    BY <1>35, BoundsPositive DEF Close, Go
  <1>36. CASE FuncOn
    BY <1>36, BoundsPositive DEF FuncOn, Go
  <1>37. CASE FuncOnFails
    BY <1>37, BoundsPositive DEF FuncOnFails, Go
  <1>38. CASE PowerOnDone
    BY <1>38, BoundsPositive DEF PowerOnDone, Go
  <1>39. CASE PowerOnUndone
    BY <1>39, BoundsPositive DEF PowerOnUndone, bt_hw_and_mcu_off, Own, Go
  <1>40. CASE PowerOnLate
    BY <1>40, BoundsPositive DEF PowerOnLate, Go
  <1>41. CASE ResetStart
    BY <1>41, BoundsPositive DEF ResetStart, Go
  <1>42. CASE ResetGivesUp
    BY <1>42, BoundsPositive DEF ResetGivesUp, Go
  <1>43. CASE ResetLevel
    <2>1. out' = out \/ out' = <<>>
      BY <1>43 DEF ResetLevel, Asserted
    <2>2. out' \in Seq({"cmd", "acl", "wmt"})
      <3>1. <<>> \in Seq({"cmd", "acl", "wmt"}) /\ out \in Seq({"cmd", "acl", "wmt"})
        OBVIOUS
      <3>2. QED
        BY <2>1, <3>1, Zenon
    <2>3. UNCHANGED <<txq, rxi, cmds, done>>
      BY <1>43 DEF ResetLevel
    <2>4. \E l \in {"dump", "test"} : pc' = [pc EXCEPT !["work"] = l]
      BY <1>43 DEF ResetLevel, Go
    <2>5. pc["work"] \notin {"off_wmt", "off_stop"}
      BY <1>43 DEF ResetLevel
    <2>6. QED
      BY <2>2, <2>3, <2>4, <2>5
  <1>44. CASE ResetDump
    BY <1>44, BoundsPositive DEF ResetDump, Go
  <1>45. CASE ResetTest
    BY <1>45, BoundsPositive DEF ResetTest, Go
  <1>46. CASE ResetSet
    BY <1>46, BoundsPositive DEF ResetSet, Go
  <1>47. ASSUME NEW p \in Procs, PowerOffSkip(p) PROVE TypeQueues' /\ InvLen'
    BY <1>47, BoundsPositive DEF PowerOffSkip, Go, Rest
  <1>48. ASSUME NEW p \in Procs, PowerOff(p) PROVE TypeQueues' /\ InvLen'
    <2>1. halt_sem = None /\ \E l \in {"off_stop", "off_wmt"} : pc' = [pc EXCEPT ![p] = l]
      BY <1>48 DEF PowerOff, Go
    <2>2. \A q \in Procs : pc[q] \notin {"off_wmt", "off_stop"}
      BY <2>1, NoneIsNew
    <2>3. Len(txq) <= MaxTx
      BY <2>2
    <2>4. txq' = txq \/ txq' = Append(txq, "wmt")
      BY <1>48 DEF PowerOff
    <2>5. txq' \in Seq({"cmd", "acl", "check", "assert", "wmt"}) /\ Len(txq') <= MaxTx + 1
      <3>1. MaxTx \in Nat /\ Len(txq) \in Nat /\ txq \in Seq({"cmd", "acl", "check", "assert", "wmt"})
        BY BoundsPositive
      <3>2. CASE txq' = Append(txq, "wmt")
        <4>1. Append(txq, "wmt") \in Seq({"cmd", "acl", "check", "assert", "wmt"})
          BY <3>1
        <4>2. Len(Append(txq, "wmt")) = Len(txq) + 1
          BY <3>1
        <4>3. QED
          BY <2>3, <3>1, <3>2, <4>1, <4>2
      <3>3. CASE txq' = txq
        BY <2>3, <3>1, <3>3
      <3>4. QED
        BY <2>4, <3>2, <3>3
    <2>6. InvLen'
      BY <2>1
    <2>7. UNCHANGED <<out, rxi, cmds, done>>
      BY <1>48 DEF PowerOff
    <2>8. QED
      BY <2>5, <2>6, <2>7
  <1>49. ASSUME NEW p \in Procs, PowerOffWmt(p) PROVE TypeQueues' /\ InvLen'
    BY <1>49, BoundsPositive DEF PowerOffWmt, Go
  <1>50. ASSUME NEW p \in Procs, PowerOffDone(p) PROVE TypeQueues' /\ InvLen'
    BY <1>50, BoundsPositive DEF PowerOffDone, bt_hw_and_mcu_off, Own, Go, Rest
  <1>51. CASE UNCHANGED vars
    BY <1>51 DEF vars
  <1>52. CASE PowerOnNoThread
    BY <1>52, BoundsPositive DEF PowerOnNoThread, Go
  <1>53. QED
    BY <1>1, <1>2, <1>3, <1>4, <1>5, <1>6, <1>7, <1>8, <1>9, <1>10, <1>11, <1>12, <1>13, 
       <1>14, <1>15, <1>16, <1>17, <1>18, <1>19, <1>20, <1>21, <1>22, <1>23, <1>24, <1>25, 
       <1>26, <1>27, <1>28, <1>29, <1>30, <1>31, <1>32, <1>33, <1>34, <1>35, <1>36, <1>37, 
       <1>38, <1>39, <1>40, <1>41, <1>42, <1>43, <1>44, <1>45, <1>46, <1>47, <1>48, <1>49, 
       <1>50, <1>51, <1>52 DEF Next, Tx, PowerOnCalls, PowerOffCalls, Reset

\* Nobody enters kthread_stop without the stop, and power on clears it when nobody is there.
LEMMA StopStep ==
  ASSUME TypeState, InvHalt, InvStop, [Next]_vars
  PROVE  InvStop'
  <1> USE DEF TypeState, InvHalt, InvStop, Procs, Pcs, power, flags, queue, bus, chip
  <1>1. CASE FwSends
    BY <1>1 DEF FwSends
  <1>2. CASE FwAssert
    BY <1>2 DEF FwAssert, Asserted
  <1>3. CASE WakeIrq
    BY <1>3 DEF WakeIrq
  <1>4. CASE SwIrq
    BY <1>4 DEF SwIrq
  <1>5. CASE RxStart
    BY <1>5 DEF RxStart
  <1>6. CASE RxDone
    BY <1>6 DEF RxDone
  <1>7. CASE CmdTimeout
    BY <1>7 DEF CmdTimeout
  <1>8. CASE TxWake
    BY <1>8 DEF TxWake
  <1>9. CASE TxExit
    BY <1>9 DEF TxExit
  <1>10. CASE TxSwIrq
    BY <1>10 DEF TxSwIrq
  <1>11. CASE TxSlept
    BY <1>11 DEF TxSlept, Turn
  <1>12. CASE TxWakeup
    BY <1>12 DEF TxWakeup, Turn
  <1>13. CASE DpidleOff
    BY <1>13 DEF DpidleOff
  <1>14. CASE OwnClr
    BY <1>14 DEF OwnClr, Own
  <1>15. CASE OwnClrFails
    BY <1>15 DEF OwnClrFails
  <1>16. CASE TxNormal
    BY <1>16 DEF TxNormal, Turn
  <1>17. CASE TxAssertCmd
    BY <1>17 DEF TxAssertCmd
  <1>18. CASE TxCheckCmd
    BY <1>18 DEF TxCheckCmd
  <1>19. CASE TxSend
    BY <1>19 DEF TxSend
  <1>20. CASE TxSent
    BY <1>20 DEF TxSent
  <1>21. CASE TxDrained
    BY <1>21 DEF TxDrained
  <1>22. CASE TxPs
    BY <1>22 DEF TxPs
  <1>23. CASE OwnSet
    BY <1>23 DEF OwnSet, Own
  <1>24. CASE OwnSetFails
    BY <1>24 DEF OwnSetFails
  <1>25. CASE IrqOn
    BY <1>25 DEF IrqOn
  <1>26. CASE DpidleOn
    BY <1>26 DEF DpidleOn
  <1>27. CASE DpidleTimer
    BY <1>27 DEF DpidleTimer
  <1>28. CASE btmtk_btif_enter_deep_idle
    BY <1>28 DEF btmtk_btif_enter_deep_idle
  <1>29. CASE SetSleepDone
    BY <1>29 DEF SetSleepDone, Go
  <1>30. CASE SetSleepTimeout
    BY <1>30 DEF SetSleepTimeout, Go
  <1>31. CASE PowerOn
    BY <1>31, NoneIsNew DEF PowerOn, Own, Go
  <1>32. CASE PowerOnFails
    BY <1>32 DEF PowerOnFails, Go
  <1>33. CASE PowerOnSkip
    BY <1>33 DEF PowerOnSkip, Go
  <1>34. CASE Write
    BY <1>34 DEF Write
  <1>35. CASE Close
    BY <1>35 DEF Close, Go
  <1>36. CASE FuncOn
    BY <1>36 DEF FuncOn, Go
  <1>37. CASE FuncOnFails
    BY <1>37 DEF FuncOnFails, Go
  <1>38. CASE PowerOnDone
    BY <1>38 DEF PowerOnDone, Go
  <1>39. CASE PowerOnUndone
    BY <1>39 DEF PowerOnUndone, bt_hw_and_mcu_off, Own, Go
  <1>40. CASE PowerOnLate
    BY <1>40 DEF PowerOnLate, Go
  <1>41. CASE ResetStart
    BY <1>41 DEF ResetStart, Go
  <1>42. CASE ResetGivesUp
    BY <1>42 DEF ResetGivesUp, Go
  <1>43. CASE ResetLevel
    BY <1>43 DEF ResetLevel, IrqRequested, Asserted, Go
  <1>44. CASE ResetDump
    BY <1>44 DEF ResetDump, Go
  <1>45. CASE ResetTest
    BY <1>45 DEF ResetTest, Go
  <1>46. CASE ResetSet
    BY <1>46 DEF ResetSet, Go
  <1>47. ASSUME NEW p \in Procs, PowerOffSkip(p) PROVE InvStop'
    BY <1>47 DEF PowerOffSkip, Go, Rest
  <1>48. ASSUME NEW p \in Procs, PowerOff(p) PROVE InvStop'
    BY <1>48, NoneIsNew DEF PowerOff, Go
  <1>49. ASSUME NEW p \in Procs, PowerOffWmt(p) PROVE InvStop'
    BY <1>49 DEF PowerOffWmt, Go
  <1>50. ASSUME NEW p \in Procs, PowerOffDone(p) PROVE InvStop'
    BY <1>50 DEF PowerOffDone, bt_hw_and_mcu_off, Own, Go, Rest
  <1>51. CASE UNCHANGED vars
    BY <1>51 DEF vars
  <1>52. CASE PowerOnNoThread
    BY <1>52 DEF PowerOnNoThread, Go
  <1>53. QED
    BY <1>1, <1>2, <1>3, <1>4, <1>5, <1>6, <1>7, <1>8, <1>9, <1>10, <1>11, <1>12, <1>13, 
       <1>14, <1>15, <1>16, <1>17, <1>18, <1>19, <1>20, <1>21, <1>22, <1>23, <1>24, <1>25, 
       <1>26, <1>27, <1>28, <1>29, <1>30, <1>31, <1>32, <1>33, <1>34, <1>35, <1>36, <1>37, 
       <1>38, <1>39, <1>40, <1>41, <1>42, <1>43, <1>44, <1>45, <1>46, <1>47, <1>48, <1>49, 
       <1>50, <1>51, <1>52 DEF Next, Tx, PowerOnCalls, PowerOffCalls, Reset

\* Init meets the invariant.
LEMMA InitTInv ==
  ASSUME Init
  PROVE  TInv
  <1> USE DEF Init, Procs
  <1>1. TypeState
    BY DEF TypeState, Pcs, TxPcs
  <1>2. TypeFlags
    BY Zenon DEF TypeFlags
  <1>3. TypeQueues /\ InvLen
    BY BoundsPositive DEF TypeQueues, InvLen
  <1>4. InvHalt /\ InvStop
    BY DEF InvHalt, InvStop
  <1>5. QED
    BY <1>1, <1>2, <1>3, <1>4 DEF TInv

\* Every step keeps it.
LEMMA StepTInv ==
  ASSUME TInv, [Next]_vars
  PROVE  TInv'
  BY StateStep, FlagsStep, QueuesStep, StopStep DEF TInv

\* The invariant holds in every state of every behaviour.
LEMMA TInvHolds == Spec => []TInv
  <1>1. Init => TInv
    BY InitTInv
  <1>2. TInv /\ [Next]_vars => TInv'
    BY StepTInv
  <1>3. QED
    BY <1>1, <1>2, PTL DEF Spec

\* In every reachable state the driver's variables have their types, tx_queue holds at most
\* one command more than the bound on what the stack writes, and the completions of psm.comp
\* stay within their counter (TypeOK), for every bound and every fault.
THEOREM BtTyping == Spec => []TypeOK
  <1>1. TInv => TypeOK
    BY DEF TInv, TypeOK
  <1>2. QED
    BY <1>1, TInvHolds, PTL

\* btmtk_tx_thread never blocks where nobody would wake it: asleep with the wake-up interrupt
\* disabled, in kthread_stop's way, or after RESET_START with no power off to come.
THEOREM ThreadNotStranded == Spec => []NeverStranded
  <1>1. ASSUME IInv, TInv, Blocked PROVE NeverStranded
    <2>1. psm = "SLEEP" /\ bt_state = "FUNC_ON" => irq["wake"]
      BY <1>1 DEF IInv, InvArmed, Blocked, bt_tx_wait_for_msg
    <2>2. ~stop
      BY <1>1, Zenon DEF Blocked, bt_tx_wait_for_msg
    <2>3. \A p \in Procs : pc[p] \notin {"off_stop", "open_stop"}
      BY <1>1, <2>2 DEF TInv, InvStop
    <2>4. bt_state = "RESET_START" => pc["work"] = "off"
      BY <1>1, <2>3 DEF TInv, InvStop, Procs
    <2>5. QED
      BY <2>1, <2>3, <2>4 DEF NeverStranded
  <1>2. IInv /\ TInv => NeverStranded
    BY <1>1 DEF NeverStranded
  <1>3. QED
    BY <1>2, InvHolds, TInvHolds, PTL
=============================================================================
