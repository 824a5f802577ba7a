# Formal models of the Fire HD 8 kernel's own drivers

The repository is the source release of a tablet: a Linux 5.4 tree for the
MediaTek MT8169 with vendor and Amazon drivers, connectivity modules, and a few
user-space libraries and build scripts. Most of its 5.5 million lines are
mainline Linux and third-party code. This project models the parts that are the
vendor's own core logic, are concurrent, and are hard to test: drivers in which
several threads, an interrupt handler or a work queue, and a second processor
share state.

`PROJECT.json` maps every definition to the source lines it models, and lists
the components, runs, mutants, findings, hazards and theorems.

## Inventory

Paths are relative to `src/src/kernel/mediatek/mt8169/5.4/`.

| Component | State | Operations | Interacts with | What makes it correct |
|---|---|---|---|---|
| Region manager, `drivers/misc/mediatek/trusted_mem/region_mgr.c` | region on/off, `valid_ref_count`, deferred off work | online, offline, ref_inc, ref_dec, power on, power off | peer manager, SSMR, work queue, chunk API | counter exact; no power off under a chunk; an unused region is powered off |
| Peer session manager, `trusted_mem/peer_mgr.c` | session open, memory granted, `ref_chunks` | open, close, grant, reclaim, alloc, free | trusted OS | counter exact; power on undone when it fails half way |
| SSMR, `trusted_mem/ssmr_mgr.c`, `ssmr/memory_ssmr_module.c` | on/off/disabled for each region | offline, online, sysfs | CMA, region manager | memory of the trusted OS is not given back to Linux |
| Chunk API, `trusted_mem/entry.c`, ION secure heap | handles | alloc, unref, size and alignment checks | region and peer manager, ION | a handle is valid until it is freed; requests are rounded correctly |
| Tinysys IPI, `drivers/soc/mediatek/mtk_tinysys_ipi.c` | holder, mutex, spinlock, completion of each channel | send, send_compl, recv, recv_reply | mailbox, SSPM firmware, all SSPM users | an acknowledgement reaches the caller it answers; no lost wake-up; calls return |
| Mailbox, `mtk-mbox.c`, `drivers/rpmsg/mtk_rpmsg_mbox.c` | slots, bits, pin lock, pin buffer | send, poll, interrupt handler | IPI, SSPM firmware | handler and poller never take the same bit; messages in order |
| SSPM users, `drivers/misc/mediatek/sspm/v2` | logger, time sync, platform state | init, sysfs, timers | IPI | modes of one channel do not mix |
| Low-battery service, `drivers/misc/mediatek/power_throttling/pmic_lbat_service.c` | two threshold lists, two current thresholds, debounce pointers and works, comparator registers | register, set debounce, interrupts, debounce, suspend, resume | PMIC and its interrupt thread, work queue, users | the armed threshold is the first of its list; every user is told in turn; no event is lost |
| Bluetooth connac2, `src/src/vendor/mediatek/kernel_modules_mt8169/connectivity/bt/mt66xx/connac2` | power and reset state, power-save state, transmit queue, interrupt flags, wake lock, deep-idle work | open, close, write, transmit thread, interrupts, receive, reset | BTIF, firmware, conninfra, the stack | awake while the host owns the subsystem; wake-up armed while asleep; nothing uses a closed BTIF; packets and data get through; calls return |
| Amazon dspframework, keycombo, sign of life, liquid detection, Type-C switches, acenna, virtual sensors | small state machines | timers, interrupts, sysfs | input, USB, thermal | one event once, timers cancelled |
| BTIF, command queue, charger, log store, hang monitor | registers, tables, text | | | |
| Mainline Linux, user space, prebuilts, build scripts | | | | third-party, left aside |

What is hard here: the deferred off work racing allocations and
`cancel_delayed_work_sync`; calls to the trusted OS that fail half way; the
interrupt handler and a poller on the same bit; an acknowledgement that arrives
after the time-out; locks released in an order nobody tests; unsigned sizes that
wrap; an interrupt that is handled when its threshold has changed; one debounce
work for two thresholds; a request to sleep that meets a wake-up; power off, reset
and a failed power on that overlap. `PROJECT.json` "hazards" has each at its line.

## Plan

1. Done: `TrustedMem` with `SecureRegion`, `TmemSize`, `TinysysIpi`, `Lbat` with
   `LowBattery`, `BtPsm`, and the proofs listed below.
2. Proofs: every safety property and both refinements of the passing runs are
   theorems. Left are the liveness properties, which stay with TLC; worth adding are
   step properties that carry them, as `LoopAdvances` does for `ChecksEnd`.
3. Models left: the SSMR with its sysfs file, composed with `TrustedMem`; the
   whole-chip reset and the character device of Bluetooth; dspframework's ring
   buffers; the smaller Amazon drivers.

## Modules

### TrustedMem, SecureRegion, MCTrustedMem, TrustedMemProofs, TrustedMemPowerProofs

`TrustedMem` models one memory device. `state`, `valid_ref_count` and `lock`
(REGMGR_LOCK) are the region manager's; `pending` and `canceler` are the delayed
work as `queue_delayed_work` and `cancel_delayed_work_sync` treat it; `ssmr` is
the SSMR state; `opened`, `granted`, `ref_chunks` the session manager's;
`teeChunks` what the trusted OS holds; `chunk`, `mine` and `pc` where each
handle and thread is. `failed` remembers the failures that leave the managers apart:
a power on, a power on with an unusable SSMR address, a session_close not made good by
a later power on. HeldRegionOn and PowerConsistent name the ones they allow for.

A thread allocates (`AllocStart`, `CancelBegin`, `CancelEnd`, `Online`, the steps
of `PowerOn`, `AllocReady`, `MemAlloc`, `RefInc`) and frees (`FreeStart`,
`IsRegionOn`, `FreeReady`, `MemFree`, `RefDec`, `Offline`); the work queue runs
`WorkRun`, `DeferOff`, `MemRemove`, `SessionClose`, `SsmrPut`. A section of
REGMGR_LOCK is several steps because it calls the trusted OS; a section of the
session mutex is one. Every call to the trusted OS and to CMA may fail if the
constant `FaultOps` names it. The trusted OS itself is external: it allocates
only in granted memory, and `ReclaimRefusesBusy` says whether it refuses to give
up memory with chunks in it. Nothing in the repository decides that, so both
values are checked.

`SecureRegion` is the promise to clients: a region goes between Linux and the
trusted OS only through a transit state, handles are delivered only while the
trusted OS owns it, and it is not taken back while one is live. `TrustedMem`
implements it with `owner <- Owner`, `live <- InUse`.

### TmemSize, TmemSizeProofs

The size and alignment checks of `entry.c`, with words of `Width` bits that wrap
and the loop of `get_ordered_size` taken round by round. A shift by the width or
more is undefined in C; the model takes what an arm64 shift does. Powers of two are
the recursive function `Pow2`, because the provers know nothing of `2^n` for a
symbolic `n`.

### TinysysIpi, MCTinysysIpi, TinysysIpiProofs, TinysysIpiOrderProofs

Channels to and from the SSPM. On an AckChan Linux sends and the firmware
acknowledges; on a MsgChan the firmware sends and a Linux thread receives.
`sendIrq`, `sendSlot`, `recvIrq`, `recvSlot` are the mailbox; `lock`, `notify`,
`pinBuf` the receive pin; `mutex`, `spin`, `holder` the send side; `isr`, `status`,
`todo` the position of `mtk_mbox_isr`; `pc`, `call` each caller; `rpc`, `seen` each
receiving thread.

Interrupt handler: `IsrRaise`, `IsrLock`, `IsrRead`, `IsrClear`, `IsrNotify`,
`IsrExit`. Callers: `Call`, `CheckMode`, `Lock`, `TrySend`, `GiveUp`,
`ClearHolder`, `Write`, `Trigger`, `Poll`, `Copy`, `Complete`, `Again`, `Expire`,
`Finish`. Receivers: `Recv`, `Callback`, `Reply`. A section of mbox_lock is one
step. In `Finish` clearing the holder and unlocking are one step: the handler
cannot tell a state between them from the one after, and no other caller gets in
before the unlock. `GiveUp` and `ClearHolder` are two, because there the unlock
comes first. `Reply` is one step because nobody else sends on a channel that is
replied on.

Abstractions. Time is not counted: a loop that finds nothing goes round again or
runs out of time. A message carries an identity, not a payload: the thread whose
call sent it, and `Old` once that call has returned, so that finitely many
identities tell "mine" from "not mine". Messages from the firmware are numbered
round a ring. All receive pins are in one mailbox, as in `sspm_ipi_table.c`. `Modes`
gives each channel the modes its callers use; the SSPM's users have polling and waiting
channels side by side, each in one mode (`OneModed`).

The firmware is external, modelled from how the drivers use it: it takes a
message and clears the bit, writes into a slot only when its bit is clear,
acknowledges what asks for it, and on a replying channel waits for the reply
before it sends again.

### Lbat, LowBattery, MCLbat, LbatProofs

`users` is the user table; `lb` holds for each side the list, the current threshold
and the value programmed; `en` the enable bits; `times`, `deb`, `cnt`, `queued`,
`running` the debouncing of each user; `pending`, `status`, `todo`, `ipc` the PMIC's
interrupt thread; `pm`, `saw` suspend and resume; `told`, `ev`, `upset` are history.

`Register`, `RegisterError`, `SetDebounce` are the calls of a user; `Detect` is a
comparator; `IrqRead`, `IrqTest`, `IrqNone`, `BatInt`, `IrqAck` the interrupt thread of
`mt6358-irq.c` with both handlers; `WorkStart`, `DebHandler` the debounce work;
`Suspend`, `SuspendMin`, `Resume`, `ResumeMax`, `ResumeMin` the power management
callbacks, a step for each register because they take no lock. `modify_lbat_list` and `lbat_set_next_thd` keep
their names. A section of lbat_mutex is one step.

The code reads a list only through its first entry and membership, so a list is a
set, and which of several equal entries follows the one added last is left open.
Voltages are those of the code, with the truncation of both conversions.
`lbat_user_set_debounce` is called once, as its only caller does. Users are
boot-time callers, and `TableFits` assumes that they fit into the table, which the
code does not test. The error paths of `lbat_user_register` keep the mutex.

`LowBattery` is what a user is promised: lv1, then perhaps lv2, then hv, in turn.

### BtPsm, BtPsmProofs, BtPsmTypeProofs

`bt_state`, `rst`, `again`, `halt_sem`, `rstQ` are the power and reset state, `pc` the
position of the stack's call and of rst_trigger_work; `tpc`, `stop`, `psm`,
`sleep_flag`, `done`, `rx_ind`, `bgf2ap_ind` the transmit thread and its flags;
`irq` which interrupts are enabled; `txq`, `cmds`, `check`, `evt`, `rxi` the queue,
the commands that wait for events, and what is being received; `btif`, `idle`,
`is_dpidle`, `dpq`, `dpr`, `wake_lock` the BTIF side with its deep-idle work;
`alive`, `own`, `out`, `swst` the firmware, which is external.

`Tx...`, `Dpidle...`, `Own...`, `IrqOn` are the steps of `btmtk_tx_thread`: between two
of them an interrupt, received data, the work or another call may write the flags
it reads, none of which is locked. `WakeIrq`, `SwIrq` are `btmtk_irq_handler`;
`RxStart`, `RxDone` the receive callback and the request to sleep after it;
`DpidleTimer`, `btmtk_btif_enter_deep_idle` the work, which may have started before
it is cancelled; `PowerOn...`, `FuncOn...`, `SetSleep...` opening; `Write`, `Close`;
`PowerOff...` closing, for the stack and the reset; `Reset...` `bt_chip_reset_flow`.

The wake-up interrupt is level triggered: it is asserted while the firmware owns
the subsystem and has data. Time is not counted: a timeout may come at any point of
its wait. `done` counts the completions of psm.comp up to `MaxDone`, which stands
for UINT_MAX, where `complete` stops counting. `Events` says what may go wrong: an
assert of the firmware, or errors of the BTIF driver, of the chip's power on and of
`kthread_create`. A packet that cannot be written, or not in one piece, is dropped as
the code does. `PowerOnFails` may leave g_btif_id set, as a `btmtk_btif_open` does that
fails half way; the error pointer that a failed `kthread_create` leaves in tx_thread
is not modelled. `Write` is the one place where a bound of the model stands in for
the code: tx_queue has no limit, and the stack of the model waits below `MaxTx` and
`MaxOut`.

## Runs

| Run | Question | Bounds |
|---|---|---|
| `tmem_safety` | counters, hand-back, handle validity, types, refinement of SecureRegion, with every call failing | 3 threads, 2 handles |
| `tmem_power` | the three managers agree whenever REGMGR_LOCK is free, and the region is on for every chunk handed out | the same, with every call failing and a trusted OS that reclaims under chunks |
| `tmem_liveness` | no lost power off, region eventually off, calls return | 2 threads, 2 handles, no failures |
| `tmem_size` | rounding with the sizes that wrap, least block, which requests end and which do not | all requests of 5-bit words |
| `ipi_poll` | own acknowledgement, pins owned, no lost wake-up, messages in order; polling | 2 callers of one channel, a channel handled in the interrupt |
| `ipi_mailbox` | no lost wake-up of a sleeping caller; messages in order, replies arrive, calls return; types | 1 caller, a replied channel in the same mailbox |
| `ipi_holder` | *violation*: holder is kept while somebody waits | 2 callers, WAIT mode |
| `lbat_safety` | lists, registers and enable bits agree, no double list_add, every event is real | 3 users, one refused, one debouncing; suspend |
| `lbat_live` | what is waited for is what is due, LowBattery implemented, low and high battery reported | 2 users, high-side debounce |
| `lbat_next` | *violation*: a user always has a next threshold | 1 user that debounces both sides |
| `bt_reset` | wake lock, no stranded thread, open BTIF, release | 1 packet of the stack and the command of power off, 1 of the firmware; asserts, timeouts, resets |
| `bt_live` | types and length of the queue; packets leave, data arrive, sleep is obeyed, calls return | the same queues; failing driver calls; no resets |

Bounds. Three threads let one allocate, one free and one cancel while the worker
runs; two handles let a chunk stay while another comes and goes. Two callers are
enough for one to fail, time out or return while the other holds the pin; the
theorems remove the bound. `Ring` 3 tells the last, the next and a skipped
message apart; `MaxBacklog` 2 lets a second notification wait. A five-bit word
with chunks of 4 has sizes below one chunk, exact blocks, sizes between blocks,
and sizes above half of the range. The four readings of the low-battery runs lie
at, between and above the thresholds of two users that interleave, and two of
them are thresholds exactly. Each IPI run has its callers in one mode, since the
mixture multiplies the states beyond TLC's reach; the theorems are about channels in
different modes side by side. `bt_live` has no reset for the same reason: with one,
even a single packet gives some million states, too many for checking liveness. That
nobody waits in vain during a reset is the safety property `NeverStranded` of
`bt_reset`. One packet from each side is enough to wake, to meet a
request to sleep and to be in the way of a reset; the power off command makes the
transmit queue two long. Deadlock is checked in every passing run.

Fairness. `tmem_liveness`: a thread inside a call runs on (weak), and the work
queue runs queued work; REGMGR_LOCK and the cancellation are granted to each waiter
in the end (strong), as the kernel's mutexes and wait queues are. Nobody has to
start a call. `ipi_mailbox`: the interrupt is served and the firmware is alive (weak);
the pin's lock is granted to each waiter, and a loop does run out of time
(strong), because each round takes IPI_POLLING_INTERVAL_US off the wait.
`tmem_size`: the code runs on. `lbat_live`: the comparators sample and the
interrupt thread and a started work run on (weak); the single-threaded work queue
takes works in the order of queueing, so a work that is queued again and again is
started (strong). `bt_live`: threads, works and interrupts that can run do, and
timeouts end (weak); data on the bus are received when the subsystem is awake often
enough, and halt_sem, a semaphore with a FIFO of waiters, is granted to each (strong). Nobody has to open, write or close,
and the firmware need not send.

Every property of a passing run has a mutant: a definition whose name ends in
the bug it plants (`Poll_IgnoresLock`, `MemFree_IgnoresResult`), which breaks the
property when it takes the place of the definition it mutates.

## What the violations show

- `ipi_holder`: a failing `mtk_ipi_send_compl` clears `holder` after it has
  unlocked, under the next caller, whose acknowledgement the handler then drops.
- `lbat_next`: while the high threshold of a user is under debounce, the low
  handler overwrites its only `deb_thd_ptr`. After the callback for lv2 the user
  waits for nothing and is never called again. The one user in the tree, in
  `mtk_battery_daemon.c`, debounces both sides.

Limits that are written into properties, because the code has them:

- `AckIsMine` allows, after the first time-out on a channel, the late acknowledgement of
  a call that has returned (there is no sequence number and `notify` is not
  reinitialised), and never that of a call under way; `NoLostWakeup` ends there. Both
  are about channels used in one mode: the test
  that keeps the modes of a pin apart is made on one side only and is not atomic.
- `ChecksEnd` says which requests never end: those of more than half of the word that
  reach the loop of `get_ordered_size`, whose block size wraps to 0. `SizeRounded` says
  what becomes of a size whose rounding wraps.
- `PowerConsistent` allows for a `session_close` that failed and an unusable SSMR
  address, which the code does not undo. `HeldRegionOn` ends with the first failing
  power on: `regmgr_region_ref_inc` says it makes sure the region is on and drops the
  result.
- `Armed` and `LowTold` exclude the time after a registration that found the low
  list empty (only the first registration enables the comparators), and `Armed`,
  `EventIsReal` the time after a resume that wrote an outdated enable bit.
- `HighTold` asks for a battery at hv in millivolts: at the reading the comparator is
  programmed to, which truncates lower, a debouncing user is put back again and again.
- `HandledInOrder` is about channels that are replied on or handled in the interrupt:
  on the others a message overwrites one that was not read, and `buf_full_opt`, which
  is documented, is read by nobody.
- `SleepObeyed` is about requests that find the thread waiting: one that comes before
  `btmtk_cif_send_cmd` returns is cleared ("ignore sleep") and the subsystem stays
  awake until the next packet.
- `WakeLockHeld` assumes that the calls of the BTIF driver succeed: when leaving deep
  idle fails, the code goes on and the work may drop the lock.

Hazards that the code does not guard against, so that no property rules them out, have
a note and no property in `PROJECT.json`: the mixed modes, the overwritten pin
buffer and the busy reply of the IPI; the stale resume, the late
registration, the refused user and the truncated reading of the low-battery service;
the request to sleep that Bluetooth forgets; and the sysfs file of the SSMR, which is
not modelled.

Weak spots of the Bluetooth driver that the properties survive: a second power off of
Bluetooth that is off already (`bt_chip_reset_flow` tests bt_state and sets
RESET_START without halt_sem, and a failed power on resets bt_state after releasing
it); a reset queued in one session that hits the next; completions of psm.comp that
are left over, so that `btmtk_set_sleep` returns before the subsystem sleeps.

## Proofs

All for any number of threads, handles, channels, users and packets, and for words
of any width. Each inductive invariant was model-checked before it was proved, and
each proof that a step keeps it goes through the actions one by one.

`TrustedMemProofs`, with the assumptions on the constants that `TrustedMem`
states. The inductive invariant `IInv` is TypeOK, `LockInv` (who may be at a point
under REGMGR_LOCK), `PowerInv` (what is open, granted and carved out at each of
those points), `MineInv` (a handle is worked on by one thread, at a stage its
program point fixes), `TeeInv` (with a trusted OS that refuses to reclaim, it knows
every chunk that is not freed) and RefCounts. None of the stated properties is
inductive alone: that a region with handles is not reclaimed needs TeeInv, which
needs MineInv, and the points inside power on and off need LockInv.
Theorems: `Typing`, `Invariance`, `CountersExact`, `HandBackSafe`,
`HandlesStayValid`, and `Refinement` (assuming `ReclaimRefusesBusy`), in which
each step is a step of SecureRegion or leaves it unchanged.

`TrustedMemPowerProofs` adds `PowerIInv` to it, for any set of failing calls and
either trusted OS:

- `OnInv`, `GrantInv`, `UndoInv`: what a region that is on implies, and which thread
  holds what is open or carved out for a region that is off. Only a failed
  `session_close` stops power off half way, and only an unusable SSMR address keeps
  power on from undoing what it did. They give `ManagersAgree` when REGMGR_LOCK is
  free.
- `HeldInv`: the count that the deferred off work has tested stays zero until it
  has turned the region off. This is why test and power off share one section of
  REGMGR_LOCK, and with it HeldRegionOn is inductive (`HeldMeansOn`).
- `CancelInv` (the thread in `cancel_delayed_work_sync` is the one that blocks
  queueing), `NewInv` and `KnownInv` (a chunk not yet counted has a thread that will
  count it; the trusted OS knows no freed chunk). With them OffScheduled is inductive
  (`OffNotLost`): a cancelled work leaves a thread that goes on to count a chunk or
  to queue the work again.

`TmemSizeProofs`. `SizeType` types the words; `RoundInv` says that the size is
rounded from min_chunk_size_check on, which gives `RoundedUp` for every chunk size.
`BlockInv` says that the loop has tried every smaller order, that what it tried was
too small, and that the alignment between the two adjustments is at most the size
or the smallest block. `SmallestBlock` assumes `PowerOfTwo`: then a shift that
leaves the word is zero (`NoWrap`), so the first order that covers the size gives a
block, and no smaller one covers it. The theorem is false without it: with five bits
and chunks of 11, a size of 23 gets 44 modulo 32 = 12 and then 88 modulo 32 = 24,
which is no block. No configuration in the repository sets
`minimal_chunk_size`; the code names `order` and `blk_size` as a buddy allocator
does. `LoopAdvances` is a step property from the same invariant, and `LoopsForEver` the
safety half of ChecksEnd: no request of more than half of the word leaves the loop. What is needed of
`Pow2` (its recursion, positivity, sums of exponents, monotonicity) is proved by
least counterexample: `LeastNat` says that a nonempty set of naturals has a least
element, which is first-order, unlike the library's induction rules.

`TinysysIpiProofs`. `IpiTyping` and `PinsOwned` hold in every mix of modes:
`IsrInv` says that every pin is locked while the handler serves the bits it read,
and `mtk_mbox_polling` respects that. `AcksMatch` and `WakeupsArrive` are about the
channels used in one mode, whatever the others do: the device of the tree, with polling
and waiting channels in one mailbox, is covered. `IpiInv` adds, for those channels,
`ExclInv` (a caller inside owns the pin), `SlotInv` (the send slot is the owner's until its bit is raised),
`TokenInv` (before a time-out the one outstanding request is in exactly one of
send slot, firmware, receive slot, handler and completion, and carries the
identity of the thread that waits), `FoundInv` and `HolderInv`. From HolderInv
also `HolderCounted`: on such a channel, until a call gives up on a busy pin, holder
covers whoever waits, time-outs included. So the late clearing that `ipi_holder` shows is the only
way to lose the holder.

`TinysysIpiOrderProofs`. `MessagesInOrder` holds in every mix of modes. `CbInv` says
where the one message of a channel handled in the interrupt is: in the slot and
next, until the handler has served it. `ReplyInv` says the same of a channel that is
replied on: in the slot, the handler, the completion or with the receiving thread,
then as its reply. Both need IsrInv, since a bit cleared unserved would lose
the message, and `CallerKeeps`: callers of other channels leave these alone.

`LbatProofs`. `IInv` is TypeOK, CurIsFirst, NoDoubleAdd, EventIsReal and what they
need: `ListInv` (what is on a list or debounced belongs to a registered user, on its
own side), `BitsInv` (bits to handle are pending), `EnInv` (an enabled comparator has
a threshold, so a bit that is raised belongs to one) and `ArmInv` (what resume has
still to switch on). Theorems: `LbatInvariant`, `LbatTyping`, `LbatCurIsFirst`,
`LbatNoDoubleAdd`, `LbatEventIsReal`, `LbatArmed`; and, assuming `NoLowDebounce`,
`LbatExactlyDue` and the refinement `LbatInTurn`, with `DueInv` (a user waits for
exactly what is due, and a debounced threshold has its work). The same invariant
gives `LbatNextWaits`: no user is left without a threshold. The assumption
excludes the tree's own user, for which `lbat_next` shows what happens.

`BtPsmProofs`. `IInv` is `InvOpen` (while there is a thread, a work, a wake lock,
received data or a host that owns the subsystem, BTIF is open and Bluetooth is not
off; g_btif_id alone does not say that), `InvPsm` (position of the thread, psm.state
and owner agree), `InvArmed` (asleep, the interrupt is armed or has been seen, but
before the first wake-up of a session, when the firmware has answered nothing yet) and
the types these need. Theorems: `BtifStaysOpen`, `OffReleases`; and `AwakeLocked`,
assuming that no driver call fails, with `InvLock`: from
`btmtk_btif_dpidle_ctrl(FALSE)` until the subsystem is given back is_dpidle is FALSE, so
that a work that has started finds nothing to do.

`BtPsmTypeProofs`. `BtTyping` is about the queue more than types: `InvHalt` (who is
inside power on or off holds halt_sem) and `InvLen` (outside power off the queue holds
what the stack may write) together bound the queue by one command more than
`MaxTx`, although the stack and the reset may both power off and a failed power on
leaves its command. `ThreadNotStranded` adds `InvStop` (whoever waits in kthread_stop has
told the thread, and only a reset on its way to power off sets RESET_START), which needs
InvHalt because power on clears the stop, and takes InvArmed from above.

Only model-checked: the liveness properties (EventuallyOff, CallsReturn,
RepliesArrive, ChecksEnd, LowTold, HighTold, TxLeaves, RxArrives, SleepObeyed,
UserReturns), which are out of the prover's reach, as are fairness and ENABLED.

## Not modelled

The /proc debug commands and profiling of trusted_mem; the trusted OS driver,
which is not in the repository; the SSMR's own CMA work and sysfs file; IPI
registration and reset at run time (no caller in the repository), queue mode,
several mailboxes with handlers running at once, payloads and dump records. Of
Bluetooth: the whole-chip reset and bus hangs, conninfra (whose calls succeed in
the model), calibration, the thermal query, the receive queue and the reset events
of the character device, coredumps, the set-up commands after power on, firmware
logs and the debug commands (psm.force_on is FALSE). And the components of the
inventory that no module is named for. `PROJECT.json` "components" gives the reason
for each.
