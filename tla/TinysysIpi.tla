----------------------------- MODULE TinysysIpi -----------------------------
(***************************************************************************)
(* The inter-processor interrupts between Linux and a tinysys (the SSPM    *)
(* microcontroller): mtk_tinysys_ipi.c on top of mtk_rpmsg_mbox.c and      *)
(* mtk-mbox.c.  A channel is one bit and one slot of shared memory in each *)
(* direction.  On an AckChan Linux sends and the tinysys acknowledges; on  *)
(* a MsgChan the tinysys sends and a Linux thread receives, with           *)
(* mtk_ipi_recv or, on a Replying channel, with mtk_ipi_recv_reply.        *)
(*                                                                         *)
(* Every receive pin is in one mailbox, as in sspm_ipi_table.c, so there   *)
(* is one interrupt handler.  Whatever a function does while it holds      *)
(* mbox_lock is one step.  Time is not counted: a call that finds nothing  *)
(* may go round its loop again or run out of time.                         *)
(***************************************************************************)
EXTENDS Integers, FiniteSets

CONSTANTS
  Threads,    \* callers of mtk_ipi_send and mtk_ipi_send_compl
  AckChans,   \* channels whose receive pin has recv_opt MBOX_RECV_ACK
  MsgChans,   \* channels whose receive pin has recv_opt MBOX_RECV_MESSAGE
  IsrCb,      \* MsgChans with cb_ctx_opt MBOX_CB_IN_ISR
  Replying,   \* MsgChans served with mtk_ipi_recv_reply
  Modes,      \* the modes the callers of each AckChan use
  Ops,        \* the functions they call
  Ring,       \* bound: messages of a MsgChan are numbered 1..Ring and round again
  MaxBacklog, \* bound: messages on a MsgChan nobody has waited for yet
  Old,        \* identity of every message whose call has returned
  None

Chans == AckChans \cup MsgChans
Ids == Threads \cup {Old} \cup 1..Ring
SendModes == {"IPI_SEND_POLLING", "IPI_SEND_WAIT"}

ASSUME ChansDiffer == AckChans \cap MsgChans = {}
ASSUME KindsOfMsgChans == IsrCb \subseteq MsgChans /\ Replying \subseteq MsgChans
ASSUME RingAndBacklog == Ring \in Nat \ {0} /\ MaxBacklog \in Nat \ {0}
ASSUME Distinct == /\ None \notin Ids /\ Old \notin Threads \cup 1..Ring
                   /\ Threads \cap 1..Ring = {}
ASSUME ModesAndOps == /\ Modes \in [AckChans -> SUBSET SendModes]
                      /\ Ops \subseteq {"mtk_ipi_send", "mtk_ipi_send_compl"}

VARIABLES
  sendIrq,   \* send pin's bit: a message for the tinysys is in the slot
  sendSlot,  \* the message in the send slot
  recvIrq,   \* receive pin's bit: a message for Linux is in the slot
  recvSlot,  \* identity of the message in the receive slot
  tiny,      \* AckChan: message the tinysys works on; MsgChan: last one it sent
  await,     \* MsgChan: the tinysys waits for the reply to what it sent
  lock,      \* pin_recv->lock is MBOX_PIN_BUSY
  notify,    \* pin_recv->notify, completions nobody has waited for
  holder,    \* the channel's holder count
  pinBuf,    \* identity of the message in pin_recv->pin_buf
  mutex,     \* owner of pin_send->mutex_send
  spin,      \* owner of pin_send->pin_lock
  isr,       \* stage of mtk_mbox_isr
  status,    \* irq_status it read
  todo,      \* pins of irq_status its current loop has still to visit
  pc,        \* where each thread is in its call
  call,      \* the call: channel, function and mode
  rpc,       \* where the receiving thread of each MsgChan is
  seen,      \* history: last message of each MsgChan given to its user
  upset      \* history: what went wrong on each channel, "busy" or "timeout"

vars == <<sendIrq, sendSlot, recvIrq, recvSlot, tiny, await, lock, notify, holder,
          pinBuf, mutex, spin, isr, status, todo, pc, call, rpc, seen, upset>>
wires == <<sendIrq, sendSlot, recvIrq, recvSlot>>
remote == <<tiny, await>>
handler == <<lock, isr, status, todo>>
callers == <<mutex, spin, pc, call, upset>>
receiver == <<rpc, seen>>

Set(f, c, v) == [f EXCEPT ![c] = v]

\* Messages of a MsgChan are numbered round a ring.
Succ(i) == (i % Ring) + 1

Msgs == [id : Ids, ack : BOOLEAN]
Calls == [chan : AckChans, op : Ops, mode : SendModes]

TypeOK ==
  /\ sendIrq \in [Chans -> BOOLEAN] /\ sendSlot \in [Chans -> Msgs]
  /\ recvIrq \in [Chans -> BOOLEAN] /\ recvSlot \in [Chans -> Ids]
  /\ tiny \in [Chans -> Ids \cup {None}] /\ await \in [Chans -> BOOLEAN]
  /\ \A c \in MsgChans : tiny[c] \in 1..Ring
  /\ lock \in [Chans -> BOOLEAN] /\ pinBuf \in [Chans -> Ids]
  /\ notify \in [Chans -> Nat] /\ holder \in [Chans -> Nat]
  /\ mutex \in [Chans -> Threads \cup {None}] /\ spin \in [Chans -> Threads \cup {None}]
  /\ isr \in {"idle", "entry", "read", "notify"}
  /\ status \subseteq Chans /\ todo \subseteq Chans
  /\ pc \in [Threads -> {"idle", "lock", "spin", "try", "write", "trigger", "clear",
                         "poll", "copy", "trywait", "wait", "done", "expired", "bug"}]
  /\ call \in [Threads -> Calls \cup {None}]
  /\ rpc \in [MsgChans -> {"wait", "cb", "reply"}]
  /\ seen \in [MsgChans -> Ids]
  /\ upset \in [Chans -> SUBSET {"busy", "timeout"}]

\* After mtk_ipi_device_register and mtk_ipi_register of every channel.
Init ==
  /\ sendIrq = [c \in Chans |-> FALSE] /\ sendSlot = [c \in Chans |-> [id |-> Old, ack |-> FALSE]]
  /\ recvIrq = [c \in Chans |-> FALSE] /\ recvSlot = [c \in Chans |-> Old]
  /\ tiny = [c \in Chans |-> IF c \in MsgChans THEN Ring ELSE None]
  /\ await = [c \in Chans |-> FALSE]
  /\ lock = [c \in Chans |-> FALSE] /\ pinBuf = [c \in Chans |-> Old]
  /\ notify = [c \in Chans |-> 0] /\ holder = [c \in Chans |-> 0]
  /\ mutex = [c \in Chans |-> None] /\ spin = [c \in Chans |-> None]
  /\ isr = "idle" /\ status = {} /\ todo = {}
  /\ pc = [t \in Threads |-> "idle"] /\ call = [t \in Threads |-> None]
  /\ rpc = [c \in MsgChans |-> "wait"] /\ seen = [c \in MsgChans |-> Ring]
  /\ upset = [c \in Chans |-> {}]
-----------------------------------------------------------------------------
(* The tinysys: it takes a message, and writes only into a free slot.      *)

TinyTake(c) ==
  /\ c \in AckChans /\ sendIrq[c] /\ tiny[c] = None
  /\ sendIrq' = Set(sendIrq, c, FALSE)
  /\ tiny' = Set(tiny, c, IF sendSlot[c].ack THEN sendSlot[c].id ELSE None)
  /\ UNCHANGED <<sendSlot, recvIrq, recvSlot, await, notify, holder, pinBuf, handler, callers, receiver>>

TinyAck(c) ==
  /\ c \in AckChans /\ tiny[c] # None /\ ~recvIrq[c]
  /\ recvIrq' = Set(recvIrq, c, TRUE) /\ recvSlot' = Set(recvSlot, c, tiny[c])
  /\ tiny' = Set(tiny, c, None)
  /\ UNCHANGED <<sendIrq, sendSlot, await, notify, holder, pinBuf, handler, callers, receiver>>

TinySend(c) ==
  /\ c \in MsgChans /\ ~recvIrq[c] /\ ~await[c] /\ notify[c] < MaxBacklog
  /\ recvIrq' = Set(recvIrq, c, TRUE) /\ recvSlot' = Set(recvSlot, c, Succ(tiny[c]))
  /\ tiny' = Set(tiny, c, Succ(tiny[c]))
  /\ await' = Set(await, c, c \in Replying)
  /\ UNCHANGED <<sendIrq, sendSlot, notify, holder, pinBuf, handler, callers, receiver>>

TinyReplied(c) ==
  /\ c \in MsgChans /\ sendIrq[c]
  /\ sendIrq' = Set(sendIrq, c, FALSE)
  /\ await' = Set(await, c, FALSE)
  /\ UNCHANGED <<sendSlot, recvIrq, recvSlot, tiny, notify, holder, pinBuf, handler, callers, receiver>>
-----------------------------------------------------------------------------
(* The operations on the mailbox.                                          *)

mtk_mbox_read_recv_irq == {c \in Chans : recvIrq[c]}
\* Mutant: every bit of the register is cleared.
mtk_mbox_clr_irq_All(irqs) == [c \in Chans |-> FALSE]
mtk_mbox_clr_irq(irqs) == [c \in Chans |-> recvIrq[c] /\ c \notin irqs]
mtk_mbox_check_send_irq(c) == sendIrq[c]
mtk_mbox_read(c) == recvSlot[c]
mtk_mbox_set_lock(b) == [c \in Chans |-> b]
-----------------------------------------------------------------------------
(* mtk_mbox_isr.                                                           *)

IsrRaise ==
  /\ isr = "idle" /\ \E c \in Chans : recvIrq[c]
  /\ isr' = "entry"
  /\ UNCHANGED <<wires, remote, lock, notify, holder, pinBuf, status, todo, callers, receiver>>

\* Under mbox_lock: lock every pin and read the status.
IsrLock ==
  /\ isr = "entry"
  /\ lock' = mtk_mbox_set_lock(TRUE)
  /\ status' = mtk_mbox_read_recv_irq /\ todo' = status'
  /\ isr' = "read"
  /\ UNCHANGED <<wires, remote, notify, holder, pinBuf, callers, receiver>>

\* Copy the slot of one pin to its buffer and run the callback if it runs here.
IsrRead(c) ==
  /\ isr = "read" /\ c \in todo
  /\ todo' = todo \ {c}
  /\ pinBuf' = Set(pinBuf, c, mtk_mbox_read(c))
  /\ seen' = IF c \in IsrCb THEN Set(seen, c, recvSlot[c]) ELSE seen
  /\ UNCHANGED <<wires, remote, lock, notify, holder, isr, status, callers, rpc>>

\* Under mbox_lock: clear the bits that were read and release every pin.
IsrClear ==
  /\ isr = "read" /\ todo = {}
  /\ recvIrq' = mtk_mbox_clr_irq(status)
  /\ lock' = mtk_mbox_set_lock(FALSE)
  /\ todo' = status /\ isr' = "notify"
  /\ UNCHANGED <<sendIrq, sendSlot, recvSlot, remote, notify, holder, pinBuf, status,
                 callers, receiver>>

\* Mutant: only a waiting sender is notified.
IsrNotify_HolderOnly(c) ==
  /\ isr = "notify" /\ c \in todo
  /\ todo' = todo \ {c}
  /\ notify' = IF holder[c] # 0 THEN Set(notify, c, notify[c] + 1) ELSE notify
  /\ UNCHANGED <<wires, remote, lock, holder, pinBuf, isr, status, callers, receiver>>

\* ipi_isr_cb: an acknowledgement nobody waits for is dropped.
IsrNotify(c) ==
  /\ isr = "notify" /\ c \in todo
  /\ todo' = todo \ {c}
  /\ notify' = IF c \in MsgChans \/ holder[c] # 0
                 THEN Set(notify, c, notify[c] + 1) ELSE notify
  /\ UNCHANGED <<wires, remote, lock, holder, pinBuf, isr, status, callers, receiver>>

IsrExit ==
  /\ isr = "notify" /\ todo = {}
  /\ isr' = "idle" /\ status' = {}
  /\ UNCHANGED <<wires, remote, lock, notify, holder, pinBuf, todo, callers, receiver>>
-----------------------------------------------------------------------------
(* mtk_ipi_send and mtk_ipi_send_compl.                                    *)

Goto(t, l) == pc' = Set(pc, t, l)
Compl(t) == call[t].op = "mtk_ipi_send_compl"
Polling(t) == call[t].mode = "IPI_SEND_POLLING"
Unlock(t) ==
  LET c == call[t].chan IN
  IF Polling(t) THEN spin' = Set(spin, c, None) /\ UNCHANGED mutex
                ELSE mutex' = Set(mutex, c, None) /\ UNCHANGED spin

\* The identity of a message is the thread whose call sent it, for as long as
\* that call lasts.  When it returns, what is left of the message becomes Old.
Aged(f, t) == [c \in Chans |-> IF f[c] = t THEN Old ELSE f[c]]
Return(t) ==
  /\ Goto(t, "idle") /\ call' = Set(call, t, None)
  /\ sendSlot' = [c \in Chans |-> [id |-> IF sendSlot[c].id = t THEN Old ELSE sendSlot[c].id,
                                  ack |-> sendSlot[c].ack]]
  /\ recvSlot' = Aged(recvSlot, t) /\ tiny' = Aged(tiny, t) /\ pinBuf' = Aged(pinBuf, t)

Call(t, c, op, mode) ==
  /\ pc[t] = "idle"
  /\ call' = Set(call, t, [chan |-> c, op |-> op, mode |-> mode])
  /\ Goto(t, "lock")
  /\ UNCHANGED <<wires, remote, handler, notify, holder, pinBuf, mutex, spin, upset, receiver>>

\* Polling mode looks at the mutex of WAIT mode, BUG_ON if it is taken.
CheckMode(t) ==
  /\ pc[t] = "lock" /\ Polling(t)
  /\ Goto(t, IF mutex[call[t].chan] = None THEN "spin" ELSE "bug")
  /\ UNCHANGED <<wires, remote, handler, notify, holder, pinBuf, mutex, spin, call, upset,
                 receiver>>

Take(t) ==
  LET c == call[t].chan IN
  \/ /\ pc[t] = "spin" /\ spin[c] = None
     /\ spin' = Set(spin, c, t) /\ UNCHANGED mutex
  \/ /\ pc[t] = "lock" /\ ~Polling(t) /\ mutex[c] = None
     /\ mutex' = Set(mutex, c, t) /\ UNCHANGED spin

\* Mutant: the holder is not counted.
Lock_NoHolder(t) ==
  /\ Take(t)
  /\ Goto(t, "try")
  /\ UNCHANGED <<wires, remote, handler, notify, holder, pinBuf, call, upset, receiver>>

\* Lock the pin and, in mtk_ipi_send_compl, count the holder.
Lock(t) ==
  /\ Take(t)
  /\ holder' = IF Compl(t) THEN [holder EXCEPT ![call[t].chan] = @ + 1] ELSE holder
  /\ Goto(t, "try")
  /\ UNCHANGED <<wires, remote, handler, notify, pinBuf, call, upset, receiver>>

\* mtk_mbox_send returns MBOX_PIN_BUSY unless the send bit is clear.
TrySend(t) ==
  /\ pc[t] = "try" /\ ~mtk_mbox_check_send_irq(call[t].chan)
  /\ Goto(t, "write")
  /\ UNCHANGED <<wires, remote, handler, notify, holder, pinBuf, mutex, spin, call, upset,
                 receiver>>

\* Mutant: the error path keeps the lock.
GiveUp_NoUnlock(t) ==
  /\ pc[t] = "try" /\ mtk_mbox_check_send_irq(call[t].chan)
  /\ upset' = [upset EXCEPT ![call[t].chan] = @ \cup {"busy"}]
  /\ IF Compl(t) THEN Goto(t, "clear") /\ UNCHANGED <<sendSlot, recvSlot, tiny, pinBuf, call>>
                 ELSE Return(t)
  /\ UNCHANGED <<sendIrq, recvIrq, await, handler, notify, holder, mutex, spin, receiver>>

\* Out of time while the pin is busy: unlock, then go on to clear the holder.
GiveUp(t) ==
  /\ pc[t] = "try" /\ mtk_mbox_check_send_irq(call[t].chan)
  /\ Unlock(t)
  /\ upset' = [upset EXCEPT ![call[t].chan] = @ \cup {"busy"}]
  /\ IF Compl(t) THEN Goto(t, "clear") /\ UNCHANGED <<sendSlot, recvSlot, tiny, pinBuf, call>>
                 ELSE Return(t)
  /\ UNCHANGED <<sendIrq, recvIrq, await, handler, notify, holder, receiver>>

ClearHolder(t) ==
  /\ pc[t] = "clear"
  /\ holder' = Set(holder, call[t].chan, 0)
  /\ Return(t)
  /\ UNCHANGED <<sendIrq, recvIrq, await, handler, notify, mutex, spin, upset, receiver>>

Write(t) ==
  /\ pc[t] = "write"
  /\ sendSlot' = Set(sendSlot, call[t].chan, [id |-> t, ack |-> Compl(t)])
  /\ Goto(t, "trigger")
  /\ UNCHANGED <<sendIrq, recvIrq, recvSlot, remote, handler, notify, holder, pinBuf, mutex,
                 spin, call, upset, receiver>>

\* Raise the bit; mtk_ipi_send is done, mtk_ipi_send_compl begins to wait.
Trigger(t) ==
  /\ pc[t] = "trigger"
  /\ sendIrq' = Set(sendIrq, call[t].chan, TRUE)
  /\ IF Compl(t)
       THEN /\ Goto(t, IF Polling(t) THEN "poll" ELSE "wait")
            /\ UNCHANGED <<sendSlot, recvSlot, tiny, pinBuf, mutex, spin, call>>
       ELSE Unlock(t) /\ Return(t)
  /\ UNCHANGED <<recvIrq, await, handler, notify, holder, upset, receiver>>

\* Mutant: the poller does not look at pin_recv->lock.
Poll_IgnoresLock(t) ==
  LET c == call[t].chan IN
  /\ pc[t] = "poll"
  /\ recvIrq' = Set(recvIrq, c, FALSE)
  /\ Goto(t, IF recvIrq[c] THEN "copy" ELSE "trywait")
  /\ UNCHANGED <<sendIrq, sendSlot, recvSlot, remote, handler, notify, holder, pinBuf, mutex,
                 spin, call, upset, receiver>>

\* mtk_mbox_polling: under mbox_lock, take the bit unless the handler has the pin.
Poll(t) ==
  LET c == call[t].chan
      hit == ~lock[c] /\ c \in mtk_mbox_read_recv_irq IN
  /\ pc[t] = "poll"
  /\ recvIrq' = IF hit THEN mtk_mbox_clr_irq({c}) ELSE recvIrq
  /\ Goto(t, IF hit THEN "copy" ELSE "trywait")
  /\ UNCHANGED <<sendIrq, sendSlot, recvSlot, remote, handler, notify, holder, pinBuf, mutex,
                 spin, call, upset, receiver>>

Copy(t) ==
  /\ pc[t] = "copy"
  /\ pinBuf' = Set(pinBuf, call[t].chan, mtk_mbox_read(call[t].chan))
  /\ Goto(t, "done")
  /\ UNCHANGED <<wires, remote, handler, notify, holder, mutex, spin, call, upset, receiver>>

\* try_wait_for_completion and wait_for_completion_timeout.
Complete(t) ==
  LET c == call[t].chan IN
  /\ pc[t] \in {"trywait", "wait"} /\ notify[c] > 0
  /\ notify' = Set(notify, c, notify[c] - 1)
  /\ Goto(t, "done")
  /\ UNCHANGED <<wires, remote, handler, holder, pinBuf, mutex, spin, call, upset, receiver>>

\* Nothing yet and time left: poll again.
Again(t) ==
  /\ pc[t] = "trywait" /\ notify[call[t].chan] = 0
  /\ Goto(t, "poll")
  /\ UNCHANGED <<wires, remote, handler, notify, holder, pinBuf, mutex, spin, call, upset,
                 receiver>>

Expire(t) ==
  /\ pc[t] \in {"trywait", "wait"} /\ notify[call[t].chan] = 0
  /\ Goto(t, "expired")
  /\ upset' = [upset EXCEPT ![call[t].chan] = @ \cup {"timeout"}]
  /\ UNCHANGED <<wires, remote, handler, notify, holder, pinBuf, mutex, spin, call, receiver>>

\* Clear the holder, unlock and return IPI_ACTION_DONE or IPI_COMPL_TIMEOUT.
Finish(t) ==
  /\ pc[t] \in {"done", "expired"}
  /\ holder' = Set(holder, call[t].chan, 0)
  /\ Unlock(t)
  /\ Return(t)
  /\ UNCHANGED <<sendIrq, recvIrq, await, handler, notify, upset, receiver>>
-----------------------------------------------------------------------------
(* mtk_ipi_recv and mtk_ipi_recv_reply, in the receiving thread of c.      *)

\* Mutant: the completion is looked at and not consumed.
Recv_KeepsCompletion(c) ==
  /\ rpc[c] = "wait" /\ notify[c] > 0
  /\ rpc' = Set(rpc, c, "cb")
  /\ UNCHANGED <<wires, remote, handler, notify, holder, pinBuf, callers, seen>>

\* Mutant: the completion is not waited for.
Recv_NoWait(c) ==
  /\ rpc[c] = "wait"
  /\ notify' = Set(notify, c, notify[c] - 1)
  /\ rpc' = Set(rpc, c, "cb")
  /\ UNCHANGED <<wires, remote, handler, holder, pinBuf, callers, seen>>

Recv(c) ==
  /\ rpc[c] = "wait" /\ notify[c] > 0
  /\ notify' = Set(notify, c, notify[c] - 1)
  /\ rpc' = Set(rpc, c, "cb")
  /\ UNCHANGED <<wires, remote, handler, holder, pinBuf, callers, seen>>

\* The callback in process context, or the caller, reads pin_buf.
Callback(c) ==
  /\ rpc[c] = "cb"
  /\ seen' = IF c \in IsrCb THEN seen ELSE Set(seen, c, pinBuf[c])
  /\ rpc' = Set(rpc, c, IF c \in Replying THEN "reply" ELSE "wait")
  /\ UNCHANGED <<wires, remote, handler, notify, holder, pinBuf, callers>>

\* One attempt to send the reply, under pin_lock, that nobody else takes on c.
Reply(c) ==
  /\ rpc[c] = "reply"
  /\ sendSlot' = IF mtk_mbox_check_send_irq(c) THEN sendSlot
                 ELSE Set(sendSlot, c, [id |-> seen[c], ack |-> FALSE])
  /\ sendIrq' = Set(sendIrq, c, TRUE)
  /\ rpc' = Set(rpc, c, "wait")
  /\ UNCHANGED <<recvIrq, recvSlot, remote, handler, notify, holder, pinBuf, callers, seen>>
-----------------------------------------------------------------------------
Tiny(c) == TinyTake(c) \/ TinyAck(c) \/ TinySend(c) \/ TinyReplied(c)

Isr == IsrRaise \/ IsrLock \/ IsrClear \/ IsrExit \/ \E c \in Chans : IsrRead(c) \/ IsrNotify(c)

InCall(t) ==
  \/ CheckMode(t) \/ Lock(t) \/ TrySend(t) \/ GiveUp(t) \/ ClearHolder(t) \/ Write(t)
  \/ Trigger(t) \/ Poll(t) \/ Copy(t) \/ Complete(t) \/ Again(t) \/ Expire(t) \/ Finish(t)

Receiver(c) == Recv(c) \/ Callback(c) \/ Reply(c)

Panicked == \E t \in Threads : pc[t] = "bug"

Next ==
  /\ ~Panicked
  /\ \/ \E c \in Chans : Tiny(c)
     \/ Isr
     \/ \E t \in Threads, c \in AckChans, op \in Ops : \E mode \in Modes[c] : Call(t, c, op, mode)
     \/ \E t \in Threads : InCall(t)
     \/ \E c \in MsgChans : Receiver(c)

Spec == Init /\ [][Next]_vars

(***************************************************************************)
(* The interrupt is served and the tinysys is alive.  The retry loops end, *)
(* because each round takes IPI_POLLING_INTERVAL_US off the wait, and the  *)
(* kernel's mutexes and spinlocks are granted in the order of arrival.     *)
(***************************************************************************)
Fairness ==
  /\ WF_vars(Isr)
  /\ \A c \in Chans : WF_vars(Tiny(c))
  /\ \A c \in MsgChans : WF_vars(Receiver(c))
  /\ \A t \in Threads : WF_vars(InCall(t)) /\ SF_vars(Lock(t)) /\ SF_vars(Expire(t))

LiveSpec == Spec /\ Fairness
-----------------------------------------------------------------------------
(* Properties.                                                             *)

Waiting(t) == pc[t] \in {"poll", "copy", "trywait", "wait"}

\* Every caller of the channel uses the same mode, so one lock guards the pin.
OneModed(c) == \E m \in SendModes : Modes[c] = {m}

\* A call of mtk_ipi_send_compl that is about to return IPI_ACTION_DONE finds in
\* pin_buf the acknowledgement of its own message, whoever fetched it, the poller or
\* mtk_mbox_isr.  Once a call on the channel has ended with IPI_COMPL_TIMEOUT it may
\* find a late one instead, of a call that has returned, never that of a call under
\* way.  This is said of the channels whose callers use one mode, next to others
\* whose callers mix them.
AckIsMine ==
  \A t \in Threads :
    LET c == call[t].chan IN
    pc[t] = "done" /\ OneModed(c) =>
      pinBuf[c] = t \/ ("timeout" \in upset[c] /\ pinBuf[c] = Old)

\* While mtk_mbox_isr is between reading irq_status and clearing it, no poller
\* has taken one of the bits it read, and what it copied is what is in the slot:
\* it clears no bit that it has not served.  This is what pin_recv->lock is for.
IsrOwnsPins ==
  isr = "read" => \A c \in status : recvIrq[c] /\ (c \notin todo => pinBuf[c] = recvSlot[c])

\* As long as no call on the channel has given up or timed out, and its callers use
\* one mode, a call of mtk_ipi_send_compl never waits for nothing: the message or its
\* acknowledgement is on the way, or the completion has been or will be given.
NoLostWakeup ==
  \A t \in Threads :
    LET c == call[t].chan IN
    Waiting(t) /\ OneModed(c) /\ upset[c] = {} =>
      \/ sendIrq[c] \/ tiny[c] # None \/ recvIrq[c] \/ notify[c] > 0 \/ pc[t] = "copy"
      \/ isr = "notify" /\ c \in todo

\* On a channel whose callback runs in mtk_mbox_isr, and on one whose tinysys waits
\* for the reply of mtk_ipi_recv_reply, the next message handed over is the
\* successor of the last: none is skipped and none is handed over twice.
HandledInOrder ==
  /\ \A c \in Replying \ IsrCb : rpc[c] = "cb" => pinBuf[c] = Succ(seen[c])
  /\ \A c \in IsrCb : isr = "read" /\ c \in todo => recvSlot[c] = Succ(seen[c])

\* Every call of mtk_ipi_send and mtk_ipi_send_compl returns, on the error paths too.
CallsReturn == \A t \in Threads : pc[t] # "idle" ~> pc[t] = "idle"

\* The tinysys gets the reply to every message it sends on a Replying channel.
RepliesArrive == \A c \in Replying : await[c] ~> ~await[c]

\* What mtk_tinysys_ipi.h says of holder: "keep 1 if there are ipi waiters (to wait
\* the reply)".  Without it ipi_isr_cb drops the acknowledgement.
HolderKept == \A t \in Threads : Waiting(t) => holder[call[t].chan] > 0
=============================================================================
