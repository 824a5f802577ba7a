------------------------------- MODULE BtPsm -------------------------------
(***************************************************************************)
(* The Bluetooth driver of connac2 with its BTIF transport: the transmit   *)
(* thread and its power-save state machine (btmtk_tx_thread), the two      *)
(* interrupts, received data, requests to sleep, the deep-idle work, power *)
(* on and off, and the reset of the subsystem.                             *)
(***************************************************************************)
EXTENDS Naturals, Sequences

CONSTANTS
  Kinds,      \* packets the stack writes: a subset of {"cmd", "acl", "check", "assert"}
  MaxTx,      \* bound: packets queued and commands without an event when the stack writes
  MaxOut,     \* bound: data the firmware has when it, or the stack, sends more
  MaxDone,    \* bound: stands for UINT_MAX, where complete stops counting
  Events,     \* what may go wrong: a subset of {"assert", "error"}
  None

ASSUME KindsKnown == Kinds \subseteq {"cmd", "acl", "check", "assert"}
ASSUME BoundsPositive == {MaxTx, MaxOut, MaxDone} \subseteq Nat \ {0}
ASSUME EventsKnown == Events \subseteq {"assert", "error"}
ASSUME NoneIsNew == None \notin {"user", "work", "cmd", "acl", "wmt"}

VARIABLES
  bt_state,   \* bdev->bt_state
  rst,        \* bdev->rst_level is not RESET_LEVEL_NONE
  again,      \* bdev->rst_count is not 0
  halt_sem,   \* who holds it
  pc,         \* of the stack's calls and of rst_trigger_work
  rstQ,       \* rst_trigger_work is queued
  tpc,        \* of btmtk_tx_thread, "none" when there is none
  stop,       \* kthread_should_stop()
  psm,        \* psm.state
  sleep_flag,
  done,       \* completions psm.comp holds
  rx_ind, bgf2ap_ind,
  irq,        \* bt_irq_ctrl.active of the two interrupts
  txq,        \* tx_queue
  cmds,       \* commands on the list that waits for events
  check,      \* cmd_timeout_check
  evt,        \* evt_skb
  rxi,        \* what the receive thread of BTIF is handing over
  btif,       \* g_btif_id is not 0
  idle,       \* BTIF is in deep idle
  is_dpidle,
  dpq, dpr,   \* btif_dpidle_ctrl.work: queued, running and not yet past sem
  wake_lock,
  alive,      \* the firmware runs
  own,        \* who owns the subsystem
  out,        \* what the firmware has for the host
  swst        \* BGF_SW_IRQ_STATUS

power   == <<bt_state, rst, again, halt_sem, pc, rstQ>>
flags   == <<sleep_flag, rx_ind, bgf2ap_ind>>
queue   == <<txq, cmds, check, evt, rxi>>
bus     == <<btif, idle, is_dpidle, dpq, dpr, wake_lock>>
chip    == <<alive, own, out, swst>>
vars    == <<power, tpc, stop, psm, done, flags, irq, queue, bus, chip>>

Procs == {"user", "work"}
TxPcs == {"none", "wait", "run", "dpoff", "clr", "drain", "sent", "ps", "set", "irqon", "dpon"}
Pcs   == {"closed", "open_wmt", "open_fin", "open_stop", "late", "sleep", "open",
          "idle", "first", "later", "dump", "test", "set", "off", "off_wmt", "off_stop"}

Init ==
  /\ bt_state = "FUNC_OFF" /\ rst = FALSE /\ again = FALSE /\ halt_sem = None
  /\ pc = [p \in Procs |-> IF p = "user" THEN "closed" ELSE "idle"]
  /\ rstQ = FALSE
  /\ tpc = "none" /\ stop = FALSE /\ psm = "SLEEP"
  /\ sleep_flag = FALSE /\ done = 0
  /\ rx_ind = FALSE /\ bgf2ap_ind = FALSE /\ irq = [i \in {"wake", "sw"} |-> FALSE]
  /\ txq = <<>> /\ cmds = 0 /\ check = FALSE /\ evt = FALSE /\ rxi = None
  /\ btif = FALSE /\ idle = FALSE /\ is_dpidle = FALSE
  /\ dpq = FALSE /\ dpr = FALSE /\ wake_lock = FALSE
  /\ alive = FALSE /\ own = "fw" /\ out = <<>> /\ swst = "none"
-----------------------------------------------------------------------------
(* The firmware and the bus.                                               *)

Own(o) == own' = o

FwSends ==
  /\ alive /\ Len(out) < MaxOut
  /\ out' = Append(out, "acl")
  /\ UNCHANGED <<power, tpc, stop, psm, done, flags, irq, queue, bus, alive, own, swst>>

\* An assert, by itself or forced through PAD_EINT: nothing is sent any more, and
\* the software interrupt asks for a reset.
Asserted == alive' = FALSE /\ out' = <<>> /\ swst' = "reset"

FwAssert ==
  /\ "assert" \in Events /\ alive /\ Asserted
  /\ UNCHANGED <<power, tpc, stop, psm, done, flags, irq, queue, bus, own>>
-----------------------------------------------------------------------------
(* btmtk_irq_handler.  The wake-up interrupt is level triggered and is     *)
(* asserted while the firmware owns the subsystem and has data.            *)

WakeIrq ==
  /\ irq["wake"] /\ alive /\ own = "fw" /\ out # <<>> /\ ~rst
  /\ irq' = [irq EXCEPT !["wake"] = FALSE]
  /\ rx_ind' = TRUE /\ sleep_flag' = FALSE
  /\ UNCHANGED <<power, tpc, stop, psm, done, bgf2ap_ind, queue, bus, chip>>

SwIrq ==
  /\ irq["sw"] /\ swst # "none"
  /\ irq' = [irq EXCEPT !["sw"] = FALSE]
  /\ bgf2ap_ind' = TRUE
  /\ UNCHANGED <<power, tpc, stop, psm, done, sleep_flag, rx_ind, queue, bus, chip>>
-----------------------------------------------------------------------------
(* bt_receive_data_cb and, after the packet, btmtk_set_sleep without wait. *)

RxStart ==
  /\ btif /\ own = "host" /\ out # <<>> /\ rxi = None
  /\ rxi' = Head(out) /\ out' = Tail(out)
  /\ sleep_flag' = FALSE
  /\ UNCHANGED <<power, tpc, stop, psm, done, rx_ind, bgf2ap_ind, irq, txq, cmds, check, evt,
                 bus, alive, own, swst>>

RxDone ==
  /\ rxi # None
  /\ cmds' = IF rxi = "cmd" /\ check /\ cmds > 0 THEN cmds - 1 ELSE cmds
  /\ evt' = (evt \/ rxi = "wmt")
  /\ rxi' = None /\ sleep_flag' = TRUE
  /\ UNCHANGED <<power, tpc, stop, psm, done, rx_ind, bgf2ap_ind, irq, txq, check, bus, chip>>

\* command_response_timeout, after its four half seconds: bt_trigger_reset.  The next
\* command starts the count again.
CmdTimeout ==
  /\ check /\ cmds > 0
  /\ rstQ' = TRUE
  /\ UNCHANGED <<bt_state, rst, again, halt_sem, pc, tpc, stop, psm, done, flags, irq,
                 queue, bus, chip>>
-----------------------------------------------------------------------------
(* btmtk_tx_thread.                                                        *)

\* Mutant: kthread_should_stop is forgotten.
bt_tx_wait_for_msg_IgnoresStop ==
  bt_state # "RESET_START" /\ (txq # <<>> \/ rx_ind \/ bgf2ap_ind \/ sleep_flag)

bt_tx_wait_for_msg ==
  IF bt_state = "RESET_START" THEN stop
  ELSE txq # <<>> \/ rx_ind \/ bgf2ap_ind \/ sleep_flag \/ stop

TxWake ==
  /\ tpc = "wait" /\ bt_tx_wait_for_msg
  /\ tpc' = "run"
  /\ UNCHANGED <<power, stop, psm, done, flags, irq, queue, bus, chip>>

TxExit ==
  /\ tpc = "run" /\ stop
  /\ tpc' = "none"
  /\ wake_lock' = (wake_lock /\ psm # "NORMAL_TR")
  /\ UNCHANGED <<power, stop, psm, done, flags, irq, queue, btif, idle, is_dpidle, dpq, dpr, chip>>

\* bt_bgf2ap_irq_handler.
TxSwIrq ==
  /\ tpc = "run" /\ ~stop /\ bgf2ap_ind
  /\ bgf2ap_ind' = FALSE /\ swst' = "none" /\ tpc' = "wait"
  /\ rstQ' = (rstQ \/ (swst = "reset" /\ ~rst))
  /\ irq' = [irq EXCEPT !["sw"] = swst # "reset"]
  /\ UNCHANGED <<bt_state, rst, again, halt_sem, pc, stop, psm, done, sleep_flag, rx_ind,
                 queue, bus, alive, own, out>>

Turn(s) == tpc = "run" /\ ~stop /\ ~bgf2ap_ind /\ psm = s

\* Mutant: sleep_flag is not cleared.
TxSlept_FlagKept ==
  /\ Turn("SLEEP") /\ sleep_flag
  /\ done' = IF done < MaxDone THEN done + 1 ELSE done
  /\ tpc' = "wait"
  /\ UNCHANGED <<power, stop, psm, flags, irq, queue, bus, chip>>

\* Asleep: a request to sleep is answered.
TxSlept ==
  /\ Turn("SLEEP") /\ sleep_flag
  /\ sleep_flag' = FALSE
  /\ done' = IF done < MaxDone THEN done + 1 ELSE done
  /\ tpc' = "wait"
  /\ UNCHANGED <<power, stop, psm, rx_ind, bgf2ap_ind, irq, queue, bus, chip>>

\* Asleep: anything else wakes the subsystem.
TxWakeup ==
  /\ Turn("SLEEP") /\ ~sleep_flag
  /\ tpc' = "dpoff"
  /\ UNCHANGED <<power, stop, psm, done, flags, irq, queue, bus, chip>>

\* btmtk_btif_dpidle_ctrl(FALSE), under sem.  The work may have started already.
DpidleOff ==
  /\ tpc = "dpoff"
  /\ dpq' = FALSE /\ wake_lock' = TRUE
  /\ \/ idle' = FALSE /\ is_dpidle' = FALSE
     \/ "error" \in Events /\ idle' = idle /\ is_dpidle' = TRUE
  /\ tpc' = "clr"
  /\ UNCHANGED <<power, stop, psm, done, flags, irq, queue, btif, dpr, chip>>

OwnClr ==
  /\ tpc = "clr" /\ alive
  /\ irq' = [irq EXCEPT !["wake"] = FALSE]
  /\ Own("host") /\ psm' = "NORMAL_TR" /\ tpc' = "wait"
  /\ UNCHANGED <<power, stop, done, flags, queue, bus, alive, out, swst>>

\* Mutant: the interrupt stays disabled.
OwnClrFails_IrqOff ==
  /\ tpc = "clr" /\ ~alive
  /\ irq' = [irq EXCEPT !["wake"] = FALSE]
  /\ is_dpidle' = TRUE /\ dpq' = TRUE
  /\ rstQ' = (rstQ \/ bt_state = "FUNC_ON") /\ tpc' = "wait"
  /\ UNCHANGED <<bt_state, rst, again, halt_sem, pc, stop, psm, done, flags, queue,
                 btif, idle, dpr, wake_lock, chip>>

\* The firmware does not answer: the interrupt and deep idle are enabled again.
OwnClrFails ==
  /\ tpc = "clr" /\ ~alive
  /\ irq' = [irq EXCEPT !["wake"] = TRUE]
  /\ is_dpidle' = TRUE /\ dpq' = TRUE
  /\ rstQ' = (rstQ \/ bt_state = "FUNC_ON") /\ tpc' = "wait"
  /\ UNCHANGED <<bt_state, rst, again, halt_sem, pc, stop, psm, done, flags, queue,
                 btif, idle, dpr, wake_lock, chip>>

TxNormal ==
  /\ Turn("NORMAL_TR")
  /\ rx_ind' = FALSE /\ tpc' = "drain"
  /\ UNCHANGED <<power, stop, psm, done, sleep_flag, bgf2ap_ind, irq, queue, bus, chip>>

TxAssertCmd ==
  /\ tpc = "drain" /\ txq # <<>> /\ Head(txq) = "assert"
  /\ txq' = <<>> /\ rstQ' = TRUE /\ tpc' = "ps"
  /\ UNCHANGED <<bt_state, rst, again, halt_sem, pc, stop, psm, done, flags, irq,
                 cmds, check, evt, rxi, bus, chip>>

TxCheckCmd ==
  /\ tpc = "drain" /\ txq # <<>> /\ Head(txq) = "check"
  /\ txq' = Tail(txq) /\ check' = TRUE
  /\ UNCHANGED <<power, tpc, stop, psm, done, flags, irq, cmds, evt, rxi, bus, chip>>

\* What the firmware has for the host once it has got the packet: the event of a command.
Answer == IF alive /\ Head(txq) # "acl" THEN Append(out, Head(txq)) ELSE out

\* btmtk_cif_send_cmd: the command is put on the list before it is written.  The thread
\* breaks off when a write fails, when five of them do not write all, and also when they do
\* in more than one piece: the packet is gone, and the firmware may have got it.
TxSend ==
  /\ tpc = "drain" /\ txq # <<>> /\ Head(txq) \in {"cmd", "acl", "wmt"}
  /\ txq' = Tail(txq)
  /\ cmds' = IF Head(txq) = "cmd" /\ check THEN cmds + 1 ELSE cmds
  /\ \/ tpc' = "sent" /\ out' = Answer
     \/ "error" \in Events /\ tpc' = "ps" /\ out' \in {out, Answer}
  /\ UNCHANGED <<power, stop, psm, done, flags, irq, check, evt, rxi, bus, alive, own, swst>>

\* "more data to send and wait for event, ignore sleep"
TxSent ==
  /\ tpc = "sent"
  /\ sleep_flag' = FALSE /\ tpc' = "drain"
  /\ UNCHANGED <<power, stop, psm, done, rx_ind, bgf2ap_ind, irq, queue, bus, chip>>

TxDrained ==
  /\ tpc = "drain" /\ txq = <<>>
  /\ tpc' = "ps"
  /\ UNCHANGED <<power, stop, psm, done, flags, irq, queue, bus, chip>>

MaySleep == bt_state = "FUNC_ON" /\ cmds = 0 /\ sleep_flag

TxPs ==
  /\ tpc = "ps"
  /\ tpc' = IF MaySleep THEN "set" ELSE "wait"
  /\ UNCHANGED <<power, stop, psm, done, flags, irq, queue, bus, chip>>

OwnSet ==
  /\ tpc = "set" /\ alive
  /\ Own("fw") /\ tpc' = "irqon"
  /\ UNCHANGED <<power, stop, psm, done, flags, irq, queue, bus, alive, out, swst>>

OwnSetFails ==
  /\ tpc = "set" /\ ~alive
  /\ rstQ' = (rstQ \/ bt_state = "FUNC_ON") /\ tpc' = "wait"
  /\ UNCHANGED <<bt_state, rst, again, halt_sem, pc, stop, psm, done, flags, irq, queue,
                 bus, chip>>

\* Mutant: bt_enable_irq is forgotten.
IrqOn_Skipped ==
  /\ tpc = "irqon"
  /\ tpc' = "dpon"
  /\ UNCHANGED <<power, stop, psm, done, flags, irq, queue, bus, chip>>

IrqOn ==
  /\ tpc = "irqon"
  /\ irq' = [irq EXCEPT !["wake"] = TRUE] /\ tpc' = "dpon"
  /\ UNCHANGED <<power, stop, psm, done, flags, queue, bus, chip>>

\* Mutant: the work is not queued.
DpidleOn_NoWork ==
  /\ tpc = "dpon"
  /\ is_dpidle' = TRUE /\ dpq' = FALSE
  /\ psm' = "SLEEP" /\ tpc' = "wait"
  /\ UNCHANGED <<power, stop, done, flags, irq, queue, btif, idle, dpr, wake_lock, chip>>

\* btmtk_btif_dpidle_ctrl(TRUE), and the state is set last.
DpidleOn ==
  /\ tpc = "dpon"
  /\ is_dpidle' = TRUE /\ dpq' = TRUE
  /\ psm' = "SLEEP" /\ tpc' = "wait"
  /\ UNCHANGED <<power, stop, done, flags, irq, queue, btif, idle, dpr, wake_lock, chip>>
-----------------------------------------------------------------------------
(* btmtk_btif_enter_deep_idle: started by its timer, then under sem.       *)

DpidleTimer ==
  /\ dpq /\ ~dpr
  /\ dpq' = FALSE /\ dpr' = TRUE
  /\ UNCHANGED <<power, tpc, stop, psm, done, flags, irq, queue, btif, idle, is_dpidle,
                 wake_lock, chip>>

\* Mutant: is_dpidle is not tested.
btmtk_btif_enter_deep_idle_Always ==
  /\ dpr /\ dpr' = FALSE
  /\ wake_lock' = FALSE /\ idle' = TRUE /\ is_dpidle' = TRUE
  /\ UNCHANGED <<power, tpc, stop, psm, done, flags, irq, queue, btif, dpq, chip>>

btmtk_btif_enter_deep_idle ==
  /\ dpr /\ dpr' = FALSE
  /\ \/ is_dpidle /\ wake_lock' = FALSE /\ idle' = TRUE /\ is_dpidle' = TRUE
     \/ is_dpidle /\ wake_lock' = FALSE /\ "error" \in Events /\ idle' = idle /\ is_dpidle' = FALSE
     \/ ~is_dpidle /\ UNCHANGED <<wake_lock, idle, is_dpidle>>
  /\ UNCHANGED <<power, tpc, stop, psm, done, flags, irq, queue, btif, dpq, chip>>
-----------------------------------------------------------------------------
(* The wait of btmtk_set_sleep, in bt_setup at the end of power on.        *)

Go(p, l) == pc' = [pc EXCEPT ![p] = l]

SetSleepDone ==
  /\ pc["user"] = "sleep" /\ done > 0
  /\ done' = done - 1 /\ Go("user", "open")
  /\ UNCHANGED <<bt_state, rst, again, halt_sem, rstQ, tpc, stop, psm, flags, irq,
                 queue, bus, chip>>

SetSleepTimeout ==
  /\ pc["user"] = "sleep" /\ done = 0
  /\ sleep_flag' = FALSE /\ Go("user", "open")
  /\ UNCHANGED <<bt_state, rst, again, halt_sem, rstQ, tpc, stop, psm, done,
                 rx_ind, bgf2ap_ind, irq, queue, bus, chip>>
-----------------------------------------------------------------------------
(* btmtk_set_power_on, called when the stack opens the device.             *)

\* Mutant: tx_queue is not purged.
PowerOn_NoPurge ==
  /\ pc["user"] = "closed" /\ halt_sem = None /\ bt_state = "FUNC_OFF"
  /\ halt_sem' = "user" /\ Go("user", "open_wmt")
  /\ bt_state' = "TURNING_ON"
  /\ rstQ' \in {rstQ, FALSE}
  /\ btif' = TRUE /\ idle' = TRUE /\ is_dpidle' = FALSE
  /\ alive' = TRUE /\ Own("fw") /\ out' = <<>> /\ swst' = "none"
  /\ evt' = FALSE /\ rx_ind' = FALSE
  /\ psm' = "SLEEP" /\ sleep_flag' = FALSE
  /\ txq' = Append(txq, "wmt") /\ cmds' = 0 /\ check' = FALSE
  /\ tpc' = "wait" /\ stop' = FALSE
  /\ irq' = [irq EXCEPT !["wake"] = FALSE, !["sw"] = TRUE]
  /\ UNCHANGED <<rst, again, done, bgf2ap_ind, rxi, dpq, dpr, wake_lock>>

\* Up to queueing the WMT command.  bgf2ap_ind and psm.comp keep what they hold;
\* INIT_WORK makes a queued rst_trigger_work look idle.
PowerOn ==
  /\ pc["user"] = "closed" /\ halt_sem = None /\ bt_state = "FUNC_OFF"
  /\ halt_sem' = "user" /\ Go("user", "open_wmt")
  /\ bt_state' = "TURNING_ON"
  /\ rstQ' \in {rstQ, FALSE}
  /\ btif' = TRUE /\ idle' = TRUE /\ is_dpidle' = FALSE
  /\ alive' = TRUE /\ Own("fw") /\ out' = <<>> /\ swst' = "none"
  /\ evt' = FALSE /\ rx_ind' = FALSE
  /\ psm' = "SLEEP" /\ sleep_flag' = FALSE
  /\ txq' = <<"wmt">> /\ cmds' = 0 /\ check' = FALSE
  /\ tpc' = "wait" /\ stop' = FALSE
  /\ irq' = [irq EXCEPT !["wake"] = FALSE, !["sw"] = TRUE]
  /\ UNCHANGED <<rst, again, done, bgf2ap_ind, rxi, dpq, dpr, wake_lock>>

\* bt_hw_and_mcu_on fails.  When btmtk_btif_open does so after BTIF was opened, g_btif_id
\* keeps its value and btmtk_reset_init has run.  bt_state is reset after halt_sem is
\* released.
PowerOnFails ==
  /\ "error" \in Events /\ pc["user"] = "closed" /\ halt_sem = None /\ bt_state = "FUNC_OFF"
  /\ bt_state' = "TURNING_ON" /\ Go("user", "late")
  /\ \/ UNCHANGED <<btif, is_dpidle, rstQ>>
     \/ btif' = TRUE /\ is_dpidle' = FALSE /\ rstQ' \in {rstQ, FALSE}
  /\ UNCHANGED <<rst, again, halt_sem, tpc, stop, psm, done, flags, irq, queue, idle, dpq, dpr,
                 wake_lock, chip>>

\* kthread_create fails: bt_hw_and_mcu_off follows, with nothing of BTIF in use.
PowerOnNoThread ==
  /\ "error" \in Events /\ pc["user"] = "closed" /\ halt_sem = None /\ bt_state = "FUNC_OFF"
  /\ bt_state' = "TURNING_ON" /\ Go("user", "late")
  /\ rstQ' \in {rstQ, FALSE}
  /\ evt' = FALSE /\ rx_ind' = FALSE /\ psm' = "SLEEP" /\ sleep_flag' = FALSE /\ txq' = <<>>
  /\ btif' = FALSE /\ idle' = FALSE /\ is_dpidle' = FALSE /\ wake_lock' = FALSE
  /\ irq' = [i \in {"wake", "sw"} |-> FALSE]
  /\ UNCHANGED <<rst, again, halt_sem, tpc, stop, done, bgf2ap_ind, cmds, check, rxi, dpq, dpr, chip>>

PowerOnLate ==
  /\ pc["user"] = "late"
  /\ bt_state' = "FUNC_OFF" /\ Go("user", "closed")
  /\ UNCHANGED <<rst, again, halt_sem, rstQ, tpc, stop, psm, done, flags, irq, queue, bus, chip>>

\* "BT is already on, skip", then bt_setup as usual.
PowerOnSkip ==
  /\ pc["user"] = "closed" /\ halt_sem = None /\ bt_state = "FUNC_ON"
  /\ Go("user", "sleep") /\ sleep_flag' = TRUE
  /\ UNCHANGED <<bt_state, rst, again, halt_sem, rstQ, tpc, stop, psm, done, rx_ind,
                 bgf2ap_ind, irq, queue, bus, chip>>

\* btmtk_send_wmt_power_on_cmd: the event has come.
FuncOn ==
  /\ pc["user"] = "open_wmt" /\ evt
  /\ bt_state' = "FUNC_ON" /\ evt' = FALSE /\ Go("user", "open_fin")
  /\ UNCHANGED <<rst, again, halt_sem, rstQ, tpc, stop, psm, done, flags, irq,
                 txq, cmds, check, rxi, bus, chip>>

FuncOnFails ==
  /\ pc["user"] = "open_wmt"
  /\ again' = TRUE /\ evt' = FALSE /\ stop' = TRUE /\ Go("user", "open_stop")
  /\ UNCHANGED <<bt_state, rst, halt_sem, rstQ, tpc, psm, done, flags, irq, txq, cmds, check, rxi,
                 bus, chip>>

\* After the two set-up commands, and the request of bt_setup to sleep.
PowerOnDone ==
  /\ pc["user"] = "open_fin"
  /\ rst' = FALSE /\ again' = FALSE /\ halt_sem' = None
  /\ Go("user", "sleep") /\ sleep_flag' = TRUE
  /\ UNCHANGED <<bt_state, rstQ, tpc, stop, psm, done, rx_ind, bgf2ap_ind, irq, queue, bus, chip>>

\* Mutants: the wake lock is not released; the running work is not waited for.
bt_hw_and_mcu_off_KeepsLock ==
  /\ btif => ~dpr
  /\ dpq' = (dpq /\ ~btif) /\ btif' = FALSE /\ idle' = FALSE /\ wake_lock' = wake_lock
  /\ irq' = [i \in {"wake", "sw"} |-> FALSE]
  /\ alive' = FALSE /\ Own("fw") /\ out' = <<>> /\ swst' = "none" /\ rxi' = None
  /\ cmds' = 0 /\ check' = FALSE

bt_hw_and_mcu_off_NoFlush ==
  /\ dpq' = (dpq /\ ~btif) /\ btif' = FALSE /\ idle' = FALSE /\ wake_lock' = (wake_lock /\ ~btif)
  /\ irq' = [i \in {"wake", "sw"} |-> FALSE]
  /\ alive' = FALSE /\ Own("fw") /\ out' = <<>> /\ swst' = "none" /\ rxi' = None
  /\ cmds' = 0 /\ check' = FALSE

\* bt_hw_and_mcu_off: btmtk_btif_close flushes the deep-idle work first.
bt_hw_and_mcu_off ==
  /\ btif => ~dpr
  /\ dpq' = (dpq /\ ~btif) /\ btif' = FALSE /\ idle' = FALSE /\ wake_lock' = (wake_lock /\ ~btif)
  /\ irq' = [i \in {"wake", "sw"} |-> FALSE]
  /\ alive' = FALSE /\ Own("fw") /\ out' = <<>> /\ swst' = "none" /\ rxi' = None
  /\ cmds' = 0 /\ check' = FALSE

PowerOnUndone ==
  /\ pc["user"] = "open_stop" /\ tpc = "none"
  /\ bt_hw_and_mcu_off
  /\ halt_sem' = None /\ Go("user", "late")
  /\ UNCHANGED <<bt_state, rst, again, rstQ, tpc, stop, psm, done, flags, txq, evt,
                 is_dpidle, dpr>>
-----------------------------------------------------------------------------
(* The stack: BT_write, and BT_close, whose whole work is power off.       *)

\* rstflag lets a packet pass while bt_state is FUNC_ON.  tx_queue has no limit in the code:
\* the last conjunct bounds the stack, which writes again when the driver has caught up.
Write ==
  /\ pc["user"] = "open" /\ bt_state = "FUNC_ON"
  /\ Len(txq) + cmds < MaxTx /\ Len(out) < MaxOut
  /\ \E k \in Kinds : txq' = Append(txq, k)
  /\ UNCHANGED <<power, tpc, stop, psm, done, flags, irq, cmds, check, evt, rxi, bus, chip>>

Close ==
  /\ pc["user"] = "open"
  /\ Go("user", "off")
  /\ UNCHANGED <<bt_state, rst, again, halt_sem, rstQ, tpc, stop, psm, done, flags, irq,
                 queue, bus, chip>>
-----------------------------------------------------------------------------
(* btmtk_set_power_off, for the stack and for the reset.                   *)

Rest(p) == IF p = "user" THEN "closed" ELSE "idle"

PowerOffSkip(p) ==
  /\ pc[p] = "off" /\ halt_sem = None
  /\ bt_state = "FUNC_OFF" \/ (bt_state \in {"FUNC_ON", "TURNING_ON"} /\ rst)
  /\ Go(p, Rest(p))
  /\ UNCHANGED <<bt_state, rst, again, halt_sem, rstQ, tpc, stop, psm, done, flags, irq,
                 queue, bus, chip>>

PowerOff(p) ==
  /\ pc[p] = "off" /\ halt_sem = None
  /\ bt_state = "RESET_START" \/ (bt_state \in {"FUNC_ON", "TURNING_ON"} /\ ~rst)
  /\ halt_sem' = p
  /\ IF bt_state = "RESET_START"
       THEN Go(p, "off_stop") /\ stop' = TRUE /\ txq' = txq
       ELSE Go(p, "off_wmt") /\ txq' = Append(txq, "wmt") /\ stop' = stop
  /\ UNCHANGED <<bt_state, rst, again, rstQ, tpc, psm, done, flags, irq, cmds, check, evt, rxi,
                 bus, chip>>

\* The event of the off command has come or two seconds are over: kthread_stop.
PowerOffWmt(p) ==
  /\ pc[p] = "off_wmt"
  /\ evt' = FALSE /\ stop' = TRUE /\ Go(p, "off_stop")
  /\ UNCHANGED <<bt_state, rst, again, halt_sem, rstQ, tpc, psm, done, flags, irq,
                 txq, cmds, check, rxi, bus, chip>>

PowerOffDone(p) ==
  /\ pc[p] = "off_stop" /\ tpc = "none"
  /\ bt_hw_and_mcu_off
  /\ txq' = <<>> /\ bt_state' = "FUNC_OFF"
  /\ halt_sem' = None /\ Go(p, Rest(p))
  /\ UNCHANGED <<rst, again, rstQ, tpc, stop, psm, done, flags, evt, is_dpidle, dpr>>
-----------------------------------------------------------------------------
(* bt_chip_reset_flow, in rst_trigger_work.                                *)

ResetStart ==
  /\ rstQ /\ pc["work"] = "idle"
  /\ rstQ' = FALSE /\ again' = TRUE
  /\ Go("work", IF again THEN "later" ELSE "first")
  /\ UNCHANGED <<bt_state, rst, halt_sem, tpc, stop, psm, done, flags, irq, queue, bus, chip>>

ResetGivesUp ==
  /\ pc["work"] \in {"first", "later"} /\ rst
  /\ Go("work", "idle")
  /\ UNCHANGED <<bt_state, rst, again, halt_sem, rstQ, tpc, stop, psm, done, flags, irq,
                 queue, bus, chip>>

\* bt_irq_table has the interrupts, between bt_request_irq and bt_free_irq.
IrqRequested == btif /\ bt_state # "FUNC_OFF" /\ pc["user"] # "late"

\* The first reset forces a coredump through PAD_EINT and waits for the interrupt.
ResetLevel ==
  /\ pc["work"] \in {"first", "later"} /\ ~rst
  /\ rst' = TRUE
  /\ IF pc["work"] = "first"
       THEN /\ Go("work", "dump")
            /\ irq' = [irq EXCEPT !["sw"] = IrqRequested]
            /\ IF alive THEN Asserted ELSE UNCHANGED <<alive, out, swst>>
       ELSE Go("work", "test") /\ UNCHANGED <<irq, alive, out, swst>>
  /\ UNCHANGED <<bt_state, again, halt_sem, rstQ, tpc, stop, psm, done, flags, queue, bus, own>>

\* rst_comp or two seconds, then the coredump under halt_sem.
ResetDump ==
  /\ pc["work"] = "dump" /\ halt_sem = None
  /\ Go("work", "test")
  /\ UNCHANGED <<bt_state, rst, again, halt_sem, rstQ, tpc, stop, psm, done, flags, irq,
                 queue, bus, chip>>

ResetTest ==
  /\ pc["work"] = "test"
  /\ Go("work", IF bt_state = "FUNC_OFF" \/ ~rst THEN "idle" ELSE "set")
  /\ UNCHANGED <<bt_state, rst, again, halt_sem, rstQ, tpc, stop, psm, done, flags, irq,
                 queue, bus, chip>>

ResetSet ==
  /\ pc["work"] = "set"
  /\ bt_state' = "RESET_START" /\ Go("work", "off")
  /\ UNCHANGED <<rst, again, halt_sem, rstQ, tpc, stop, psm, done, flags, irq,
                 queue, bus, chip>>
-----------------------------------------------------------------------------
Tx ==
  \/ TxWake \/ TxExit \/ TxSwIrq \/ TxSlept \/ TxWakeup \/ DpidleOff \/ OwnClr \/ OwnClrFails
  \/ TxNormal \/ TxAssertCmd \/ TxCheckCmd \/ TxSend \/ TxSent \/ TxDrained \/ TxPs
  \/ OwnSet \/ OwnSetFails \/ IrqOn \/ DpidleOn

PowerOnCalls == FuncOn \/ FuncOnFails \/ PowerOnDone \/ PowerOnUndone \/ PowerOnLate

PowerOffCalls(p) == PowerOffSkip(p) \/ PowerOff(p) \/ PowerOffWmt(p) \/ PowerOffDone(p)

Reset == ResetStart \/ ResetGivesUp \/ ResetLevel \/ ResetDump \/ ResetTest \/ ResetSet

Next ==
  \/ FwSends \/ FwAssert \/ WakeIrq \/ SwIrq \/ RxStart \/ RxDone \/ CmdTimeout
  \/ Tx \/ DpidleTimer \/ btmtk_btif_enter_deep_idle
  \/ SetSleepDone \/ SetSleepTimeout
  \/ PowerOn \/ PowerOnFails \/ PowerOnNoThread \/ PowerOnSkip \/ Write \/ Close \/ PowerOnCalls
  \/ (\E p \in Procs : PowerOffCalls(p)) \/ Reset

Spec == Init /\ [][Next]_vars

\* Threads, works and interrupts that can run do so, and timeouts end.  RxStart is
\* hardware that needs the subsystem awake, and halt_sem is a fair semaphore: both are
\* strongly fair.
LiveSpec ==
  /\ Spec
  /\ WF_vars(Tx) /\ WF_vars(WakeIrq) /\ WF_vars(SwIrq)
  /\ SF_vars(RxStart) /\ WF_vars(RxDone)
  /\ WF_vars(DpidleTimer) /\ WF_vars(btmtk_btif_enter_deep_idle)
  /\ WF_vars(SetSleepDone \/ SetSleepTimeout) /\ WF_vars(PowerOnCalls)
  /\ \A p \in Procs : SF_vars(PowerOffCalls(p))
  /\ SF_vars(Reset)

TypeState ==
  /\ bt_state \in {"FUNC_OFF", "TURNING_ON", "FUNC_ON", "RESET_START"}
  /\ halt_sem \in Procs \cup {None} /\ pc \in [Procs -> Pcs] /\ tpc \in TxPcs
  /\ psm \in {"SLEEP", "NORMAL_TR"} /\ own \in {"fw", "host"} /\ swst \in {"none", "reset"}
  /\ irq \in [{"wake", "sw"} -> BOOLEAN]

TypeFlags ==
  /\ rst \in BOOLEAN /\ again \in BOOLEAN /\ rstQ \in BOOLEAN /\ stop \in BOOLEAN
  /\ sleep_flag \in BOOLEAN /\ rx_ind \in BOOLEAN /\ bgf2ap_ind \in BOOLEAN
  /\ check \in BOOLEAN /\ evt \in BOOLEAN /\ btif \in BOOLEAN /\ idle \in BOOLEAN
  /\ is_dpidle \in BOOLEAN /\ dpq \in BOOLEAN /\ dpr \in BOOLEAN
  /\ wake_lock \in BOOLEAN /\ alive \in BOOLEAN

TypeQueues ==
  /\ txq \in Seq({"cmd", "acl", "check", "assert", "wmt"}) /\ Len(txq) <= MaxTx + 1
  /\ out \in Seq({"cmd", "acl", "wmt"})
  /\ rxi \in {None, "cmd", "acl", "wmt"} /\ cmds \in Nat /\ done \in 0..MaxDone

\* The variables keep their types, and tx_queue is as long as the stack, bounded by MaxTx,
\* makes it: power off adds one command, and what a session left behind is purged before the
\* next one queues anything.
TypeOK == TypeState /\ TypeFlags /\ TypeQueues
-----------------------------------------------------------------------------
(* Safety.                                                                 *)

\* The deep-idle work races with the thread that wakes the subsystem up: while the host
\* owns the subsystem and the thread runs, the wake lock is held and BTIF is awake, even
\* when the work had started before btmtk_btif_dpidle_ctrl(FALSE) got sem.  Calls of the
\* BTIF driver succeed ("error" is not in Events).
WakeLockHeld == own = "host" /\ tpc # "none" => wake_lock /\ ~idle

Blocked == tpc = "wait" /\ ~bt_tx_wait_for_msg

\* A transmit thread that blocks has somebody to wake it.  Asleep, the wake-up interrupt is
\* armed, which handler, sleep, wake-up and failed wake-up all switch without counting.
\* Nobody waits in kthread_stop for a thread that has not seen the stop.  After RESET_START,
\* when the thread looks at nothing else, the power off of the reset is still to come.
NeverStranded ==
  Blocked =>
    /\ psm = "SLEEP" /\ bt_state = "FUNC_ON" => irq["wake"]
    /\ \A p \in Procs : pc[p] \notin {"open_stop", "off_stop"}
    /\ bt_state = "RESET_START" => pc["work"] = "off"

\* btmtk_btif_dpidle_ctrl would return with sem held, and the work would use BTIF 0, if
\* BTIF were closed: neither the thread nor the work outlives btmtk_btif_close, whichever
\* of power off, reset and a failed power on calls it.
BtifOpen == tpc \in {"dpoff", "dpon"} \/ dpr => btif

\* When Bluetooth is off the wake lock is free, wherever in its power-save cycle the
\* thread was stopped, and whichever of several callers switched it off.
Released == bt_state = "FUNC_OFF" => ~wake_lock
-----------------------------------------------------------------------------
(* Liveness, under LiveSpec.                                               *)

\* A packet that is queued is sent or dropped, in whatever power-save state, with sleep
\* requests in between, unless the thread is stopped.
TxLeaves == txq # <<>> /\ tpc # "none" ~> txq = <<>> \/ tpc = "none"

\* Data of the firmware reach the host although the driver may be falling asleep.
RxArrives == alive /\ out # <<>> ~> out = <<>>

Busy ==
  \/ txq # <<>> \/ out # <<>> \/ rxi # None
  \/ pc["user"] # "open" \/ bt_state # "FUNC_ON"

\* A request to sleep that finds nothing to send or receive ends with the wake lock
\* released, unless there is something to do again.
SleepObeyed == sleep_flag /\ tpc = "wait" /\ ~Busy ~> ~wake_lock \/ Busy

\* BT_open and BT_close return: kthread_stop finds the thread, and the flush the work.
UserReturns == pc["user"] \notin {"closed", "open"} ~> pc["user"] \in {"closed", "open"}
=============================================================================
