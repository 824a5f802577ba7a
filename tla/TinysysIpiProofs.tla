-------------------------- MODULE TinysysIpiProofs --------------------------
(***************************************************************************)
(* Proofs about TinysysIpi, for every set of threads and channels.         *)
(***************************************************************************)
EXTENDS TinysysIpi, TLAPS

\* TypeOK is not inductive: a thread inside a call must have a call.
IType == TypeOK /\ \A t \in Threads : pc[t] # "idle" => call[t] \in Calls

USE DEF wires, remote, handler, callers, receiver, Set, Goto, Ids, Msgs, Calls,
        mtk_mbox_read_recv_irq, mtk_mbox_clr_irq, mtk_mbox_check_send_irq, mtk_mbox_read,
        mtk_mbox_set_lock

\* The channels are well typed after mtk_ipi_device_register.
LEMMA IpiInitType == Init => IType
BY Distinct, RingAndBacklog DEF Init, IType, TypeOK, Chans

\* What a returning call leaves behind is well typed.
LEMMA ReturnType ==
  ASSUME IType, NEW t \in Threads, pc[t] # "idle", Return(t)
  PROVE  /\ sendSlot' \in [Chans -> Msgs] /\ recvSlot' \in [Chans -> Ids]
         /\ pinBuf' \in [Chans -> Ids] /\ tiny' \in [Chans -> Ids \cup {None}]
         /\ \A c \in MsgChans : tiny'[c] \in 1..Ring
         /\ pc' \in [Threads -> {"idle", "lock", "spin", "try", "write", "trigger", "clear",
                         "poll", "copy", "trywait", "wait", "done", "expired", "bug"}]
         /\ call' \in [Threads -> Calls \cup {None}]
         /\ \A u \in Threads : pc'[u] # "idle" => call'[u] \in Calls
<1> USE DEF IType, TypeOK, Return, Aged
<1>1. sendSlot' \in [Chans -> Msgs]
  <2>1. ASSUME NEW c \in Chans PROVE sendSlot'[c] \in Msgs
    <3>1. sendSlot[c] \in Msgs
      OBVIOUS
    <3>2. sendSlot[c].id \in Ids /\ sendSlot[c].ack \in BOOLEAN
      BY <3>1
    <3> QED
      BY <3>2
  <2> QED
    BY <2>1
<1>2. recvSlot' \in [Chans -> Ids] /\ pinBuf' \in [Chans -> Ids]
  OBVIOUS
<1>3. tiny' \in [Chans -> Ids \cup {None}]
  OBVIOUS
<1>4. \A c \in MsgChans : tiny'[c] \in 1..Ring
  BY Distinct DEF Chans
<1>5. \A u \in Threads : pc'[u] # "idle" => call'[u] \in Calls
  OBVIOUS
<1> QED
  BY <1>1, <1>2, <1>3, <1>4, <1>5

\* The owners of one kind of lock, for every channel.
LOCKS == [Chans -> Threads \cup {None}]

\* Unlocking keeps mutex_send and pin_lock well typed.
LEMMA UnlockType ==
  ASSUME mutex \in LOCKS, spin \in LOCKS, NEW t, call[t].chan \in Chans, Unlock(t)
  PROVE  mutex' \in LOCKS /\ spin' \in LOCKS
<1>1. CASE Polling(t)
  BY <1>1 DEF Unlock, LOCKS
<1>2. CASE ~Polling(t)
  BY <1>2 DEF Unlock, LOCKS
<1> QED
  BY <1>1, <1>2

\* So does taking one of them.
LEMMA TakeType ==
  ASSUME mutex \in LOCKS, spin \in LOCKS, NEW t \in Threads, call[t].chan \in Chans, Take(t)
  PROVE  mutex' \in LOCKS /\ spin' \in LOCKS
<1>1. CASE mutex' = mutex
  BY <1>1 DEF Take, LOCKS
<1>2. CASE spin' = spin
  BY <1>2 DEF Take, LOCKS
<1> QED
  BY <1>1, <1>2 DEF Take

\* Every step of callers, handler, receivers and tinysys keeps the types.
LEMMA IpiNextType == IType /\ [Next]_vars => IType'
<1> SUFFICES ASSUME IType, [Next]_vars PROVE IType'
  OBVIOUS
<1> USE DEF IType, TypeOK
<1> USE Distinct, RingAndBacklog, ChansDiffer, KindsOfMsgChans
<1>1. CASE \E c \in Chans : TinyTake(c)
  BY <1>1 DEF TinyTake, Chans
<1>2. CASE \E c \in Chans : TinyAck(c)
  BY <1>2 DEF TinyAck, Chans
<1>3. CASE \E c \in Chans : TinySend(c)
  BY <1>3 DEF TinySend, Chans, Succ
<1>4. CASE \E c \in Chans : TinyReplied(c)
  BY <1>4 DEF TinyReplied, Chans
<1>5. CASE IsrRaise
  BY <1>5 DEF IsrRaise, Chans
<1>6. CASE IsrLock
  BY <1>6 DEF IsrLock, Chans
<1>7. CASE \E c \in Chans : IsrRead(c)
  BY <1>7 DEF IsrRead, Chans
<1>8. CASE IsrClear
  BY <1>8 DEF IsrClear, Chans
<1>9. CASE \E c \in Chans : IsrNotify(c)
  BY <1>9 DEF IsrNotify, Chans
<1>10. CASE IsrExit
  BY <1>10 DEF IsrExit, Chans
<1>11. CASE \E t \in Threads, c \in AckChans, op \in Ops : \E mode \in Modes[c] :
             Call(t, c, op, mode)
  <2> PICK t \in Threads, c \in AckChans, op \in Ops : \E mode \in Modes[c] : Call(t, c, op, mode)
    BY <1>11
  <2>1. PICK mode \in Modes[c] : Call(t, c, op, mode)
    OBVIOUS
  <2>2. [chan |-> c, op |-> op, mode |-> mode] \in Calls
    BY ModesAndOps DEF SendModes
  <2> QED
    BY <2>1, <2>2 DEF Call, Chans
<1>12. CASE \E t \in Threads : CheckMode(t)
  BY <1>12 DEF CheckMode, Chans, Polling
<1>13. CASE \E t \in Threads : Lock(t)
  <2> PICK t \in Threads : Lock(t)
    BY <1>13
  <2>1. pc[t] \in {"spin", "lock"}
    BY DEF Lock, Take
  <2>2. call[t] \in Calls /\ call[t].chan \in Chans
    BY <2>1 DEF Chans
  <2>3. mutex' \in LOCKS /\ spin' \in LOCKS
    BY <2>2, TakeType DEF Lock, LOCKS
  <2>4. holder' \in [Chans -> Nat]
    BY <2>2 DEF Lock, Compl
  <2> QED
    BY <2>1, <2>2, <2>3, <2>4 DEF Lock, LOCKS, Chans
<1>14. CASE \E t \in Threads : TrySend(t)
  BY <1>14 DEF TrySend, Chans
<1>15. CASE \E t \in Threads : GiveUp(t)
  <2> PICK t \in Threads : GiveUp(t)
    BY <1>15
  <2>1. call[t] \in Calls /\ call[t].chan \in Chans
    BY DEF GiveUp, Chans
  <2>2. mutex' \in LOCKS /\ spin' \in LOCKS
    BY <2>1, UnlockType DEF GiveUp, LOCKS
  <2>3. upset' \in [Chans -> SUBSET {"busy", "timeout"}]
    BY <2>1 DEF GiveUp
  <2>4. CASE Compl(t)
    BY <2>2, <2>3, <2>4 DEF GiveUp, LOCKS, Chans
  <2>5. CASE ~Compl(t)
    BY <2>2, <2>3, <2>5, ReturnType DEF GiveUp, LOCKS
  <2> QED
    BY <2>4, <2>5
<1>16. CASE \E t \in Threads : ClearHolder(t)
  <2> PICK t \in Threads : ClearHolder(t)
    BY <1>16
  <2>1. call[t].chan \in Chans
    BY DEF ClearHolder, Chans
  <2>2. holder' \in [Chans -> Nat]
    BY <2>1 DEF ClearHolder
  <2> QED
    BY <2>2, ReturnType DEF ClearHolder
<1>17. CASE \E t \in Threads : Write(t)
  BY <1>17 DEF Write, Chans, Compl
<1>18. CASE \E t \in Threads : Trigger(t)
  <2> PICK t \in Threads : Trigger(t)
    BY <1>18
  <2>1. call[t] \in Calls /\ call[t].chan \in Chans
    BY DEF Trigger, Chans
  <2>2. sendIrq' \in [Chans -> BOOLEAN]
    BY <2>1 DEF Trigger
  <2>3. CASE Compl(t)
    <3>1. \E l \in {"poll", "wait"} : pc' = [pc EXCEPT ![t] = l]
      BY <2>3 DEF Trigger
    <3>2. call' = call /\ UNCHANGED <<sendSlot, recvSlot, remote, pinBuf, mutex, spin>>
      BY <2>3 DEF Trigger
    <3>3. UNCHANGED <<recvIrq, handler, notify, holder, upset, receiver>>
      BY DEF Trigger
    <3> QED
      BY <2>1, <2>2, <3>1, <3>2, <3>3
  <2>4. CASE ~Compl(t)
    <3>1. mutex' \in LOCKS /\ spin' \in LOCKS
      BY <2>1, <2>4, UnlockType DEF Trigger, LOCKS
    <3> QED
      BY <2>2, <2>4, <3>1, ReturnType DEF Trigger, LOCKS
  <2> QED
    BY <2>3, <2>4
<1>19. CASE \E t \in Threads : Poll(t)
  BY <1>19 DEF Poll, Chans
<1>20. CASE \E t \in Threads : Copy(t)
  BY <1>20 DEF Copy, Chans
<1>21. CASE \E t \in Threads : Complete(t)
  BY <1>21 DEF Complete, Chans
<1>22. CASE \E t \in Threads : Again(t)
  BY <1>22 DEF Again, Chans
<1>23. CASE \E t \in Threads : Expire(t)
  BY <1>23 DEF Expire, Chans
<1>24. CASE \E t \in Threads : Finish(t)
  <2> PICK t \in Threads : Finish(t)
    BY <1>24
  <2>1. call[t].chan \in Chans
    BY DEF Finish, Chans
  <2>2. mutex' \in LOCKS /\ spin' \in LOCKS
    BY <2>1, UnlockType DEF Finish, LOCKS
  <2>3. holder' \in [Chans -> Nat]
    BY <2>1 DEF Finish
  <2> QED
    BY <2>2, <2>3, ReturnType DEF Finish, LOCKS
<1>25. CASE \E c \in MsgChans : Recv(c)
  BY <1>25 DEF Recv, Chans
<1>26. CASE \E c \in MsgChans : Callback(c)
  BY <1>26 DEF Callback, Chans
<1>27. CASE \E c \in MsgChans : Reply(c)
  BY <1>27 DEF Reply, Chans
<1>28. CASE UNCHANGED vars
  BY <1>28 DEF vars, Chans
<1> QED
  BY <1>1, <1>2, <1>3, <1>4, <1>5, <1>6, <1>7, <1>8, <1>9, <1>10, <1>11, <1>12, <1>13, <1>14,
     <1>15, <1>16, <1>17, <1>18, <1>19, <1>20, <1>21, <1>22, <1>23, <1>24, <1>25, <1>26, <1>27,
     <1>28
     DEF Next, Tiny, Isr, InCall, Receiver

\* Every reachable state of the IPI layer is type correct, for any number of
\* threads and channels (TypeOK).
THEOREM IpiTyping == Spec => []TypeOK
<1>1. IType => TypeOK
  BY DEF IType
<1> QED
  BY <1>1, IpiInitType, IpiNextType, PTL DEF Spec
-----------------------------------------------------------------------------
\* The lock of the mode in use on a channel whose callers use one.
Owner(c) == IF "IPI_SEND_POLLING" \in Modes[c] THEN spin[c] ELSE mutex[c]

InLock(t) ==
  pc[t] \in {"try", "write", "trigger", "poll", "copy", "trywait", "wait", "done", "expired"}

\* On a channel whose callers use one mode a thread between locking and unlocking
\* owns the lock of that mode.
ExclInv ==
  \A t \in Threads : /\ InLock(t) /\ OneModed(call[t].chan) => Owner(call[t].chan) = t
                     /\ pc[t] = "spin" => Polling(t)
                     /\ pc[t] # "idle" => call[t].mode \in Modes[call[t].chan]

\* mtk_mbox_isr holds every pin while it serves the bits it read.
IsrInv ==
  /\ isr = "read" => \A c \in Chans : lock[c]
  /\ isr \in {"idle", "entry"} => todo = {}
  /\ todo \subseteq status
  /\ IsrOwnsPins

\* The send slot is free from the check of the bit until it is raised,
\* and what is in it while a thread waits asks for an acknowledgement.
SlotAt(t) ==
  LET c == call[t].chan IN
  /\ pc[t] \in {"write", "trigger"} => ~sendIrq[c]
  /\ pc[t] = "trigger" => sendSlot[c].id = t /\ (sendSlot[c].ack <=> Compl(t))
  /\ Waiting(t) => Compl(t) /\ (sendIrq[c] => sendSlot[c].ack)
SlotInv == \A t \in Threads : OneModed(call[t].chan) => SlotAt(t)

\* Thread u waits on c for an acknowledgement that it has not found yet.
Waits(c, u) == u \in Threads /\ pc[u] \in {"poll", "trywait", "wait"} /\ call[u].chan = c

\* The places where the one outstanding request of a channel can be.
InSlot(c) == sendIrq[c] /\ sendSlot[c].ack
InTiny(c) == tiny[c] # None
InRecv(c) == recvIrq[c]
InIsr(c) == isr = "notify" /\ c \in todo
InNotify(c) == notify[c] > 0

\* Before any timeout a request is in one place at most, and there it carries
\* the identity of the thread that waits for it.
TokenAt(c) ==
  /\ InSlot(c) => Waits(c, sendSlot[c].id) /\ ~InTiny(c) /\ ~InRecv(c) /\ ~InIsr(c) /\ ~InNotify(c)
  /\ InTiny(c) => Waits(c, tiny[c]) /\ ~InRecv(c) /\ ~InIsr(c) /\ ~InNotify(c)
  /\ InRecv(c) => Waits(c, recvSlot[c]) /\ ~InIsr(c) /\ ~InNotify(c)
  /\ InIsr(c) => Waits(c, pinBuf[c]) /\ ~InNotify(c)
  /\ InNotify(c) => Waits(c, pinBuf[c]) /\ notify[c] = 1
TokenInv == \A c \in AckChans : OneModed(c) /\ "timeout" \notin upset[c] => TokenAt(c)

\* What a poller is about to copy, and what a call returns with, is its own.
FoundAt(t) == /\ pc[t] = "copy" => recvSlot[call[t].chan] = t
              /\ pc[t] = "done" => pinBuf[call[t].chan] = t
FoundInv ==
  \A t \in Threads :
    pc[t] \in {"copy", "done"} /\ OneModed(call[t].chan) /\ "timeout" \notin upset[call[t].chan] => FoundAt(t)

\* Before a call has given up on a busy pin the holder is counted while its thread waits.
HolderAt(t) ==
  /\ pc[t] = "clear" => "busy" \in upset[call[t].chan]
  /\ InLock(t) /\ Compl(t) /\ "busy" \notin upset[call[t].chan] => holder[call[t].chan] > 0
HolderInv == \A t \in Threads : OneModed(call[t].chan) => HolderAt(t)

\* What carries the identity of a thread is on the channel of its present call, from
\* the moment the message is written until the call returns.
Sent(t) == pc[t] \in {"trigger", "poll", "copy", "trywait", "wait", "done", "expired"}
Live(c, x) == x = Old \/ (x \in Threads /\ Sent(x) /\ call[x].chan = c)
IdAt(c) == /\ Live(c, sendSlot[c].id) /\ Live(c, recvSlot[c]) /\ Live(c, pinBuf[c])
           /\ tiny[c] # None => Live(c, tiny[c])
IdInv == \A c \in AckChans : IdAt(c)

\* A call on a channel of one mode takes the lock of that mode.
LEMMA ModeOfCall ==
  ASSUME IType, ExclInv, NEW t \in Threads, pc[t] # "idle", OneModed(call[t].chan)
  PROVE  Polling(t) <=> "IPI_SEND_POLLING" \in Modes[call[t].chan]
BY DEF OneModed, ExclInv, IType, TypeOK, Polling

\* Unlocking frees a lock of the caller's channel and of no other.
LEMMA UnlockOwner ==
  ASSUME IType, NEW t \in Threads, pc[t] # "idle", Unlock(t), NEW c \in Chans,
         c # call[t].chan
  PROVE  Owner(c)' = Owner(c)
BY DEF Unlock, Owner, IType, TypeOK, Chans

\* A pin used in one mode has one caller at a time.
LEMMA ExclStep == ASSUME IType, Next, ExclInv PROVE ExclInv'
<1> USE DEF ExclInv, InLock, IType, TypeOK
<1>1. CASE UNCHANGED <<pc, call, spin, mutex>>
  BY <1>1 DEF Owner, Polling
<1>2. CASE \E t \in Threads, c \in AckChans, op \in Ops : \E mode \in Modes[c] :
             Call(t, c, op, mode)
  BY <1>2 DEF Call, Owner, Polling
<1>3. CASE \E t \in Threads : CheckMode(t)
  BY <1>3 DEF CheckMode, Owner, Polling
<1>4. CASE \E t \in Threads : Lock(t)
  <2> PICK t \in Threads : Lock(t)
    BY <1>4
  <2>1. pc[t] \in {"spin", "lock"} /\ (pc[t] = "spin" => Polling(t))
    BY DEF Lock, Take
  <2>2. call[t].chan \in Chans
    BY <2>1 DEF Chans
  <2>3. ASSUME OneModed(call[t].chan)
        PROVE  Owner(call[t].chan) = None /\ Owner(call[t].chan)' = t
    <3>1. Polling(t) <=> "IPI_SEND_POLLING" \in Modes[call[t].chan]
      BY <2>1, <2>3, ModeOfCall
    <3> QED
      BY <2>1, <2>2, <3>1 DEF Lock, Take, Owner
  <2>4. ASSUME NEW c \in Chans, c # call[t].chan PROVE Owner(c)' = Owner(c)
    BY <2>2, <2>4 DEF Lock, Take, Owner
  <2>5. ASSUME NEW u \in Threads, u # t, InLock(u)', OneModed(call'[u].chan)
        PROVE  (Owner(call[u].chan) = u)'
    <3>1. InLock(u) /\ call' = call /\ call[u].chan \in Chans /\ OneModed(call[u].chan)
      BY <2>5 DEF Lock, Chans
    <3>2. Owner(call[u].chan) = u /\ u # None
      BY <3>1, Distinct
    <3> QED
      BY <2>3, <2>4, <3>1, <3>2
  <2>6. OneModed(call'[t].chan) => (Owner(call[t].chan) = t)'
    BY <2>3 DEF Lock
  <2> QED
    BY <2>1, <2>5, <2>6 DEF Lock, Polling
<1>5. ASSUME NEW t \in Threads, InLock(t), Unlock(t), pc'[t] \in {"idle", "clear"},
             pc'[t] # "idle" => call'[t] = call[t],
             \A u \in Threads \ {t} : pc'[u] = pc[u] /\ call'[u] = call[u]
      PROVE  ExclInv'
  <2>1. ASSUME NEW u \in Threads, u # t, InLock(u)', OneModed(call'[u].chan)
        PROVE  (Owner(call[u].chan) = u)'
    <3>1. InLock(u) /\ call'[u] = call[u] /\ call[u].chan \in Chans /\ OneModed(call[u].chan)
      BY <1>5, <2>1 DEF Chans
    <3>2. Owner(call[u].chan) = u /\ call[u].chan # call[t].chan
      BY <1>5, <2>1, <3>1
    <3> DEFINE c == call[u].chan
    <3>3. Owner(c)' = Owner(c)
      BY <1>5, <3>1, <3>2, UnlockOwner
    <3> QED
      BY <3>1, <3>2, <3>3 DEF Owner
  <2> QED
    BY <1>5, <2>1 DEF Polling
<1>6. CASE \E t \in Threads : GiveUp(t) \/ Finish(t)
  <2>1. ASSUME NEW t \in Threads, GiveUp(t) PROVE ExclInv'
    <3>1. /\ InLock(t) /\ Unlock(t) /\ pc'[t] \in {"idle", "clear"}
          /\ pc'[t] # "idle" => call'[t] = call[t]
      BY <2>1 DEF GiveUp, Return
    <3>2. \A u \in Threads \ {t} : pc'[u] = pc[u] /\ call'[u] = call[u]
      BY <2>1 DEF GiveUp, Return
    <3> QED
      BY <1>5, <3>1, <3>2
  <2>2. ASSUME NEW t \in Threads, Finish(t) PROVE ExclInv'
    BY <1>5, <2>2 DEF Finish, Return
  <2> QED
    BY <1>6, <2>1, <2>2
<1>7. CASE \E t \in Threads : Trigger(t)
  <2> PICK t \in Threads : Trigger(t)
    BY <1>7
  <2>1. CASE Compl(t)
    BY <2>1 DEF Trigger, Owner, Polling
  <2>2. CASE ~Compl(t)
    BY <1>5, <2>2 DEF Trigger, Return
  <2> QED
    BY <2>1, <2>2
<1>8. CASE \E t \in Threads : ClearHolder(t)
  BY <1>8 DEF ClearHolder, Return, Owner, Polling
<1>9. CASE \E t \in Threads : TrySend(t) \/ Write(t) \/ Poll(t) \/ Copy(t) \/ Complete(t)
                             \/ Again(t) \/ Expire(t)
  BY <1>9 DEF TrySend, Write, Poll, Copy, Complete, Again, Expire, Owner, Polling
<1>10. CASE (\E c \in Chans : Tiny(c)) \/ Isr \/ \E c \in MsgChans : Receiver(c)
  BY <1>1, <1>10 DEF Tiny, TinyTake, TinyAck, TinySend, TinyReplied, Isr, IsrRaise, IsrLock, IsrRead,
     IsrClear, IsrNotify, IsrExit, Receiver, Recv, Callback, Reply
<1> QED
  BY <1>2, <1>3, <1>4, <1>6, <1>7, <1>8, <1>9, <1>10 DEF Next, InCall

\* mtk_mbox_isr keeps the pins from the pollers while it serves them.
LEMMA IsrStep == ASSUME IType, Next, IsrInv PROVE IsrInv'
<1> USE DEF IsrInv, IsrOwnsPins, IType, TypeOK
<1>1. CASE \E c \in Chans : Tiny(c)
  BY <1>1 DEF Tiny, TinyTake, TinyAck, TinySend, TinyReplied
<1>2. CASE Isr
  <2>1. CASE IsrRaise \/ IsrLock \/ IsrExit
    BY <2>1 DEF IsrRaise, IsrLock, IsrExit
  <2>2. CASE IsrClear
    BY <2>2 DEF IsrClear
  <2>3. CASE \E c \in Chans : IsrRead(c)
    BY <2>3 DEF IsrRead
  <2>4. CASE \E c \in Chans : IsrNotify(c)
    BY <2>4 DEF IsrNotify
  <2> QED
    BY <1>2, <2>1, <2>2, <2>3, <2>4 DEF Isr
<1>3. CASE \E c \in MsgChans : Receiver(c)
  BY <1>3 DEF Receiver, Recv, Callback, Reply
<1>4. CASE \E t \in Threads, c \in AckChans, op \in Ops : \E mode \in Modes[c] :
             Call(t, c, op, mode)
  BY <1>4 DEF Call
<1>5. ASSUME NEW t \in Threads, Return(t), UNCHANGED <<recvIrq, handler>> PROVE IsrInv'
  BY <1>5 DEF Return, Aged
<1>6. CASE \E t \in Threads : InCall(t)
  <2> PICK t \in Threads : InCall(t)
    BY <1>6
  <2>1. CASE CheckMode(t) \/ Lock(t) \/ TrySend(t) \/ Write(t) \/ Complete(t) \/ Again(t) \/ Expire(t)
    BY <2>1 DEF CheckMode, Lock, TrySend, Write, Complete, Again, Expire
  <2>2. CASE ClearHolder(t) \/ Finish(t)
    BY <1>5, <2>2 DEF ClearHolder, Finish
  <2>3. CASE GiveUp(t) \/ Trigger(t)
    BY <1>5, <2>3 DEF GiveUp, Trigger
  <2>4. CASE Poll(t)
    BY <2>4 DEF Poll, Chans
  <2>5. CASE Copy(t)
    BY <2>5 DEF Copy, Chans
  <2> QED
    BY <2>1, <2>2, <2>3, <2>4, <2>5 DEF InCall
<1> QED
  BY <1>1, <1>2, <1>3, <1>4, <1>6 DEF Next

\* Two threads inside the lock of a channel used in one mode are the same thread.
LEMMA Sole ==
  ASSUME ExclInv, NEW t \in Threads, NEW u \in Threads, InLock(t), InLock(u),
         call[t].chan = call[u].chan, OneModed(call[t].chan)
  PROVE  t = u
BY DEF ExclInv

\* What went wrong on a channel is not forgotten.
LEMMA UpsetGrows == ASSUME IType, Next, NEW c \in Chans PROVE upset[c] \subseteq upset'[c]
<1> USE DEF IType, TypeOK
<1>1. CASE (\E d \in Chans : Tiny(d)) \/ Isr \/ \E d \in MsgChans : Receiver(d)
  BY <1>1 DEF Tiny, TinyTake, TinyAck, TinySend, TinyReplied, Isr, IsrRaise, IsrLock, IsrRead,
     IsrClear, IsrNotify, IsrExit, Receiver, Recv, Callback, Reply
<1>2. CASE \E t \in Threads, d \in AckChans, op \in Ops : \E mode \in Modes[d] :
             Call(t, d, op, mode)
  BY <1>2 DEF Call
<1>3. CASE \E t \in Threads : InCall(t)
  BY <1>3 DEF InCall, CheckMode, Lock, TrySend, GiveUp, ClearHolder, Write, Trigger, Poll, Copy,
     Complete, Again, Expire, Finish
<1> QED
  BY <1>1, <1>2, <1>3 DEF Next

\* A call that goes on is the same call.
LEMMA CallKept ==
  ASSUME IType, Next, NEW u \in Threads, pc[u] # "idle", pc'[u] # "idle" PROVE call'[u] = call[u]
<1> USE DEF IType, TypeOK
<1>1. CASE (\E d \in Chans : Tiny(d)) \/ Isr \/ \E d \in MsgChans : Receiver(d)
  BY <1>1 DEF Tiny, TinyTake, TinyAck, TinySend, TinyReplied, Isr, IsrRaise, IsrLock, IsrRead,
     IsrClear, IsrNotify, IsrExit, Receiver, Recv, Callback, Reply
<1>2. CASE \E t \in Threads, d \in AckChans, op \in Ops : \E mode \in Modes[d] :
             Call(t, d, op, mode)
  BY <1>2 DEF Call
<1>3. CASE \E t \in Threads : InCall(t)
  BY <1>3 DEF InCall, CheckMode, Lock, TrySend, GiveUp, ClearHolder, Write, Trigger, Poll, Copy,
     Complete, Again, Expire, Finish, Return
<1> QED
  BY <1>1, <1>2, <1>3 DEF Next

\* Only the owner of the pin writes the send slot.
LEMMA SlotStep == ASSUME IType, Next, ExclInv, SlotInv PROVE SlotInv'
<1> SUFFICES ASSUME NEW u \in Threads, pc'[u] # "idle", OneModed(call'[u].chan) PROVE SlotAt(u)'
  BY DEF SlotInv, SlotAt, Waiting
<1> USE DEF IType, TypeOK, Waiting
<1>0. /\ SlotAt(u)
      /\ pc[u] # "idle" => /\ OneModed(call[u].chan)
                          /\ call[u].chan \in Chans /\ call[u].chan \notin MsgChans
  <2>1. CASE pc[u] = "idle"
    BY <2>1 DEF SlotAt
  <2>2. CASE pc[u] # "idle"
    BY <2>2, CallKept, ChansDiffer DEF SlotInv, Chans
  <2> QED
    BY <2>1, <2>2
<1>a. ASSUME UNCHANGED <<sendSlot, pc, call>>,
             pc[u] # "idle" /\ sendIrq'[call[u].chan] => sendIrq[call[u].chan]
      PROVE  SlotAt(u)'
  BY <1>0, <1>a DEF SlotAt, Compl
<1>1. CASE \E c \in Chans : Tiny(c)
  BY <1>a, <1>0, <1>1 DEF Tiny, TinyTake, TinyAck, TinySend, TinyReplied
<1>2. CASE Isr
  BY <1>a, <1>2 DEF Isr, IsrRaise, IsrLock, IsrRead, IsrClear, IsrNotify, IsrExit
<1>3. CASE \E c \in MsgChans : Receiver(c)
  <2>1. CASE \E c \in MsgChans : Recv(c) \/ Callback(c)
    BY <1>a, <2>1 DEF Recv, Callback
  <2>2. CASE \E c \in MsgChans : Reply(c)
    <3>1. pc' = pc /\ call' = call
      BY <2>2 DEF Reply
    <3>2. sendIrq'[call[u].chan] = sendIrq[call[u].chan] /\ sendSlot'[call[u].chan] = sendSlot[call[u].chan]
      <4> PICK c \in MsgChans : Reply(c)
        BY <2>2
      <4>1. call[u].chan \in Chans /\ call[u].chan # c
        BY <1>0, <3>1
      <4>2. sendIrq'[call[u].chan] = sendIrq[call[u].chan]
        BY <4>1 DEF Reply
      <4>3. sendSlot'[call[u].chan] = sendSlot[call[u].chan]
        BY <4>1 DEF Reply
      <4> QED
        BY <4>2, <4>3
    <3> QED
      BY <1>0, <3>1, <3>2 DEF SlotAt, Compl
  <2> QED
    BY <1>3, <2>1, <2>2 DEF Receiver
<1>4. CASE \E t \in Threads, c \in AckChans, op \in Ops : \E mode \in Modes[c] :
             Call(t, c, op, mode)
  BY <1>0, <1>4 DEF Call, Compl, SlotAt
<1>5. ASSUME NEW t \in Threads, pc[t] # "idle", Return(t), t # u,
             sendIrq'[call[u].chan] => sendIrq[call[u].chan]
      PROVE  SlotAt(u)'
  <2>1. pc'[u] = pc[u] /\ call'[u] = call[u] /\ call[u].chan \in Chans
    BY <1>0, <1>5 DEF Return
  <2>2. /\ sendSlot[call[u].chan].id = u => sendSlot'[call[u].chan].id = u
        /\ sendSlot'[call[u].chan].ack = sendSlot[call[u].chan].ack
    BY <1>5, <2>1 DEF Return
  <2> QED
    BY <1>0, <1>5, <2>1, <2>2 DEF SlotAt, Compl
<1>6. CASE \E t \in Threads : InCall(t)
  <2> PICK t \in Threads : InCall(t)
    BY <1>6
  <2>1. CASE CheckMode(t) \/ TrySend(t) \/ Copy(t) \/ Complete(t) \/ Again(t) \/ Expire(t) \/ Poll(t)
    BY <1>0, <2>1 DEF CheckMode, TrySend, Copy, Complete, Again, Expire, Poll, Compl, SlotAt
  <2>2. CASE Lock(t)
    BY <1>0, <2>2 DEF Lock, Compl, SlotAt
  <2>3. CASE ClearHolder(t) \/ Finish(t)
    <3>1. Return(t) /\ pc[t] # "idle" /\ sendIrq' = sendIrq /\ t # u
      BY <2>3 DEF ClearHolder, Finish, Return
    <3> QED
      BY <1>5, <3>1
  <2>4. CASE GiveUp(t)
    <3>1. CASE Compl(t)
      BY <1>0, <2>4, <3>1 DEF GiveUp, Compl, SlotAt
    <3>2. CASE ~Compl(t)
      <4>1. Return(t) /\ pc[t] # "idle" /\ sendIrq' = sendIrq /\ t # u
        BY <2>4, <3>2 DEF GiveUp, Return
      <4> QED
        BY <1>5, <4>1
    <3> QED
      BY <3>1, <3>2
  <2>5. CASE Write(t)
    <3>1. CASE u = t
      BY <1>0, <2>5, <3>1 DEF Write, Compl, SlotAt
    <3>2. CASE u # t
      <4>1. pc'[u] = pc[u] /\ call' = call /\ sendIrq' = sendIrq /\ pc[t] = "write"
        BY <2>5, <3>2 DEF Write
      <4>2. InLock(u) => call[u].chan # call[t].chan
        BY <1>0, <3>2, <4>1, Sole DEF InLock
      <4>3. InLock(u) => sendSlot'[call[u].chan] = sendSlot[call[u].chan]
        BY <2>5, <4>2 DEF Write
      <4> QED
        BY <1>0, <4>1, <4>3 DEF SlotAt, Compl, InLock
    <3> QED
      BY <3>1, <3>2
  <2>6. CASE Trigger(t)
    <3>1. CASE u = t
      BY <1>0, <2>6, <3>1 DEF Trigger, Return, Compl, SlotAt
    <3>2. CASE u # t
      <4>1. pc'[u] = pc[u] /\ call'[u] = call[u] /\ pc[t] = "trigger"
        BY <2>6, <3>2 DEF Trigger, Return
      <4>2. InLock(u) => call[u].chan # call[t].chan
        BY <1>0, <3>2, <4>1, Sole DEF InLock
      <4>3. InLock(u) => sendIrq'[call[u].chan] = sendIrq[call[u].chan]
        BY <2>6, <4>2 DEF Trigger
      <4>4. CASE ~InLock(u)
        BY <1>0, <4>1, <4>4 DEF SlotAt, InLock
      <4>5. CASE InLock(u) /\ Compl(t)
        BY <1>0, <2>6, <4>1, <4>3, <4>5 DEF SlotAt, Compl, Trigger
      <4>6. CASE InLock(u) /\ ~Compl(t)
        BY <1>5, <2>6, <3>2, <4>1, <4>3, <4>6 DEF Trigger
      <4> QED
        BY <4>4, <4>5, <4>6
    <3> QED
      BY <3>1, <3>2
  <2> QED
    BY <2>1, <2>2, <2>3, <2>4, <2>5, <2>6 DEF InCall
<1> QED
  BY <1>1, <1>2, <1>3, <1>4, <1>6 DEF Next

\* A thread that waits is in its lock, so nothing of a request is left on a channel
\* whose owner does not wait.
LEMMA NoToken ==
  ASSUME IType, ExclInv, NEW t \in Threads, InLock(t), pc[t] \notin {"poll", "trywait", "wait"},
         OneModed(call[t].chan), TokenAt(call[t].chan)
  PROVE  LET c == call[t].chan IN
         ~InSlot(c) /\ ~InTiny(c) /\ ~InRecv(c) /\ ~InIsr(c) /\ ~InNotify(c)
<1>1. ASSUME NEW u, Waits(call[t].chan, u) PROVE FALSE
  <2>1. u \in Threads /\ InLock(u) /\ call[u].chan = call[t].chan
    BY <1>1 DEF Waits, InLock
  <2> QED
    BY <1>1, <2>1, Sole DEF Waits
<1> QED
  BY <1>1 DEF TokenAt

\* A returning call changes no identity that a waiting thread relies on.
LEMMA ReturnToken ==
  ASSUME IType, NEW t \in Threads, pc[t] \notin {"idle", "poll", "trywait", "wait"}, Return(t),
         NEW c \in AckChans, TokenAt(c), UNCHANGED <<recvIrq, handler, notify>>,
         sendIrq'[c] => sendIrq[c]
  PROVE  TokenAt(c)'
<1> USE DEF IType, TypeOK
<1>1. ASSUME NEW u, Waits(c, u) PROVE u # t /\ Waits(c, u)'
  BY <1>1 DEF Waits, Return
<1>2. c \in Chans
  BY DEF Chans
<1>3. /\ sendSlot'[c].id = IF sendSlot[c].id = t THEN Old ELSE sendSlot[c].id
      /\ sendSlot'[c].ack = sendSlot[c].ack
      /\ recvSlot'[c] = IF recvSlot[c] = t THEN Old ELSE recvSlot[c]
      /\ pinBuf'[c] = IF pinBuf[c] = t THEN Old ELSE pinBuf[c]
      /\ tiny'[c] = IF tiny[c] = t THEN Old ELSE tiny[c]
  BY <1>2 DEF Return, Aged
<1>4. InTiny(c)' => InTiny(c)
  BY <1>3, Distinct DEF InTiny
<1>5. InSlot(c)' => InSlot(c)
  BY <1>3 DEF InSlot
<1>6. InRecv(c)' = InRecv(c) /\ InIsr(c)' = InIsr(c) /\ InNotify(c)' = InNotify(c)
  BY DEF InRecv, InIsr, InNotify
<1> QED
  BY <1>1, <1>3, <1>4, <1>5, <1>6 DEF TokenAt, InNotify

\* The one outstanding request moves from place to place and is not copied.
LEMMA TokenStep ==
  ASSUME IType, Next, ExclInv, IsrInv, SlotInv, TokenInv PROVE TokenInv'
<1> SUFFICES ASSUME NEW c \in AckChans, OneModed(c), "timeout" \notin upset'[c] PROVE TokenAt(c)'
  BY DEF TokenInv
<1> USE DEF IType, TypeOK
<1>0. c \in Chans /\ c \notin MsgChans
  BY ChansDiffer DEF Chans
<1> DEFINE Same == /\ sendIrq'[c] = sendIrq[c] /\ sendSlot'[c] = sendSlot[c]
                   /\ tiny'[c] = tiny[c] /\ recvIrq'[c] = recvIrq[c] /\ recvSlot'[c] = recvSlot[c]
                   /\ notify'[c] = notify[c] /\ pinBuf'[c] = pinBuf[c] /\ InIsr(c)' = InIsr(c)
<1>a. ASSUME UNCHANGED <<pc, call>>, Same, TokenAt(c) PROVE TokenAt(c)'
  BY <1>a DEF TokenAt, InSlot, InTiny, InRecv, InNotify, Waits
<1>1. CASE \E d \in Chans : Tiny(d)
  <2> PICK d \in Chans : Tiny(d)
    BY <1>1
  <2>0. TokenAt(c) /\ UNCHANGED <<pc, call, isr, todo, pinBuf, notify>>
    BY DEF TokenInv, Tiny, TinyTake, TinyAck, TinySend, TinyReplied
  <2>1. CASE d # c
    <3>1. Same
      BY <1>0, <2>1 DEF Tiny, TinyTake, TinyAck, TinySend, TinyReplied, InIsr
    <3> QED
      BY <1>a, <2>0, <3>1
  <2>2. CASE d = c /\ TinyTake(d)
    BY <1>0, <2>0, <2>2 DEF TinyTake, TokenAt, InSlot, InTiny, InRecv, InNotify, InIsr, Waits
  <2>3. CASE d = c /\ TinyAck(d)
    BY <1>0, <2>0, <2>3 DEF TinyAck, TokenAt, InSlot, InTiny, InRecv, InNotify, InIsr, Waits
  <2> QED
    BY <1>0, <2>1, <2>2, <2>3 DEF Tiny, TinySend, TinyReplied
<1>2. CASE Isr
  <2>0. TokenAt(c) /\ UNCHANGED <<pc, call, sendIrq, sendSlot, tiny, recvSlot>>
    BY <1>2 DEF TokenInv, Isr, IsrRaise, IsrLock, IsrRead, IsrClear, IsrNotify, IsrExit
  <2>1. CASE IsrRaise \/ IsrLock \/ IsrExit
    <3>1. Same
      BY <2>0, <2>1 DEF IsrRaise, IsrLock, IsrExit, InIsr, IsrInv
    <3> QED
      BY <1>a, <2>0, <3>1
  <2>2. CASE \E d \in Chans : IsrRead(d)
    <3> PICK d \in Chans : IsrRead(d)
      BY <2>2
    <3>1. CASE d # c
      BY <1>a, <2>0, <3>1 DEF IsrRead, InIsr
    <3>2. CASE d = c
      <4>1. recvIrq[c] /\ ~InIsr(c) /\ ~InIsr(c)' /\ UNCHANGED <<recvIrq, notify>>
        BY <3>2 DEF IsrRead, IsrInv, IsrOwnsPins, InIsr
      <4> QED
        BY <2>0, <4>1 DEF TokenAt, InSlot, InTiny, InRecv, InNotify, Waits
    <3> QED
      BY <3>1, <3>2
  <2>3. CASE IsrClear
    <3>1. CASE c \in status
      <4>1. recvIrq[c] /\ pinBuf[c] = recvSlot[c] /\ ~recvIrq'[c] /\ UNCHANGED <<notify, pinBuf>>
        BY <1>0, <2>3, <3>1 DEF IsrClear, IsrInv, IsrOwnsPins
      <4> QED
        BY <2>0, <4>1 DEF TokenAt, InSlot, InTiny, InRecv, InNotify, Waits
    <3>2. CASE c \notin status
      BY <1>0, <1>a, <2>0, <2>3, <3>2 DEF IsrClear, InIsr
    <3> QED
      BY <3>1, <3>2
  <2>4. CASE \E d \in Chans : IsrNotify(d)
    <3> PICK d \in Chans : IsrNotify(d)
      BY <2>4
    <3>1. CASE d # c
      BY <1>0, <1>a, <2>0, <3>1 DEF IsrNotify, InIsr
    <3>2. CASE d = c
      <4>1. InIsr(c) /\ ~InIsr(c)' /\ UNCHANGED <<recvIrq, pinBuf>> /\ notify'[c] \in {notify[c], notify[c] + 1}
        BY <1>0, <3>2 DEF IsrNotify, InIsr
      <4>2. notify[c] = 0
        BY <1>0, <2>0, <4>1 DEF TokenAt, InNotify
      <4> QED
        BY <2>0, <4>1, <4>2 DEF TokenAt, InSlot, InTiny, InRecv, InNotify, Waits
    <3> QED
      BY <3>1, <3>2
  <2> QED
    BY <1>2, <2>1, <2>2, <2>3, <2>4 DEF Isr
<1>3. CASE \E d \in MsgChans : Receiver(d)
  <2> PICK d \in MsgChans : Receiver(d)
    BY <1>3
  <2>1. d # c /\ d \in Chans /\ TokenAt(c) /\ UNCHANGED <<pc, call>>
    BY <1>0 DEF Chans, TokenInv, Receiver, Recv, Callback, Reply
  <2>2. Same
    BY <1>0, <2>1 DEF Receiver, Recv, Callback, Reply, InIsr
  <2> QED
    BY <1>a, <2>1, <2>2
<1>4. CASE \E t \in Threads, d \in AckChans, op \in Ops : \E mode \in Modes[d] :
             Call(t, d, op, mode)
  BY <1>4 DEF Call, TokenInv, TokenAt, InSlot, InTiny, InRecv, InNotify, InIsr, Waits
<1>5. CASE \E t \in Threads : InCall(t)
  <2> PICK t \in Threads : InCall(t)
    BY <1>5
  <2>0. pc[t] # "idle" /\ call[t].chan \in AckChans /\ call[t].chan \in Chans
    BY DEF InCall, CheckMode, Lock, Take, TrySend, GiveUp, ClearHolder, Write, Trigger, Poll, Copy,
           Complete, Again, Expire, Finish, Chans
  <2>1. TokenAt(c)
    BY <1>0, UpsetGrows DEF TokenInv
  <2>b. ASSUME Same, UNCHANGED call, pc[t] \notin {"poll", "trywait", "wait"}, pc' = [pc EXCEPT ![t] = pc'[t]]
        PROVE  TokenAt(c)'
    <3>1. ASSUME NEW u, Waits(c, u) PROVE Waits(c, u)'
      BY <2>b, <3>1 DEF Waits
    <3> QED
      BY <2>1, <2>b, <3>1 DEF TokenAt, InSlot, InTiny, InRecv, InNotify
  <2>2. CASE CheckMode(t) \/ Lock(t) \/ TrySend(t)
    BY <2>b, <2>2 DEF CheckMode, Lock, Take, TrySend, InIsr
  <2>3. CASE GiveUp(t)
    <3>1. CASE Compl(t)
      BY <2>b, <2>3, <3>1 DEF GiveUp, InIsr
    <3>2. CASE ~Compl(t)
      BY <2>1, <2>3, <3>2, ReturnToken DEF GiveUp
    <3> QED
      BY <3>1, <3>2
  <2>4. CASE ClearHolder(t) \/ Finish(t)
    <3>1. CASE ClearHolder(t)
      BY <2>1, <3>1, ReturnToken DEF ClearHolder
    <3>2. CASE Finish(t)
      BY <2>1, <3>2, ReturnToken DEF Finish
    <3> QED
      BY <2>4, <3>1, <3>2
  <2>5. CASE Write(t)
    <3>1. CASE call[t].chan # c
      BY <2>b, <2>5, <3>1 DEF Write, InIsr
    <3>2. CASE call[t].chan = c
      <4>1. ~InTiny(c) /\ ~InRecv(c) /\ ~InIsr(c) /\ ~InNotify(c)
        BY <2>1, <2>5, <3>2, NoToken DEF Write, InLock
      <4>2. ~sendIrq'[c]
        BY <2>5, <3>2 DEF Write, SlotInv, SlotAt
      <4> QED
        BY <2>5, <4>1, <4>2 DEF Write, TokenAt, InSlot, InTiny, InRecv, InIsr, InNotify
    <3> QED
      BY <3>1, <3>2
  <2>6. CASE Trigger(t)
    <3>1. CASE ~Compl(t)
      <4>1. CASE call[t].chan # c
        BY <2>1, <2>6, <3>1, <4>1, ReturnToken DEF Trigger
      <4>2. CASE call[t].chan = c
        <5>1. ~InTiny(c) /\ ~InRecv(c) /\ ~InIsr(c) /\ ~InNotify(c)
          BY <2>1, <2>6, <4>2, NoToken DEF Trigger, InLock
        <5>2. ~sendSlot[c].ack
          BY <2>6, <3>1, <4>2 DEF Trigger, SlotInv, SlotAt
        <5>3. ~InSlot(c)' /\ tiny'[c] = None
          BY <1>0, <2>6, <3>1, <5>1, <5>2, Distinct DEF Trigger, Return, Aged, InSlot, InTiny
        <5> QED
          BY <2>6, <5>1, <5>3 DEF Trigger, TokenAt, InTiny, InRecv, InIsr, InNotify
      <4> QED
        BY <4>1, <4>2
    <3>2. CASE Compl(t) /\ call[t].chan # c
      <4>1. Same
        BY <1>0, <2>0, <2>6, <3>2 DEF Trigger, InIsr
      <4> QED
        BY <2>b, <2>6, <3>2, <4>1 DEF Trigger
    <3>3. CASE Compl(t) /\ call[t].chan = c
      <4>1. ~InTiny(c) /\ ~InRecv(c) /\ ~InIsr(c) /\ ~InNotify(c)
        BY <2>1, <2>6, <3>3, NoToken DEF Trigger, InLock
      <4>2. sendSlot'[c].id = t
        BY <2>6, <3>3 DEF Trigger, SlotInv, SlotAt
      <4>3. Waits(c, t)'
        BY <2>6, <3>3 DEF Trigger, Waits
      <4> QED
        BY <2>6, <3>3, <4>1, <4>2, <4>3 DEF Trigger, TokenAt, InTiny, InRecv, InIsr, InNotify
    <3> QED
      BY <3>1, <3>2, <3>3
  <2>7. ASSUME call[t].chan # c, Same, UNCHANGED call, pc' = [pc EXCEPT ![t] = pc'[t]]
        PROVE  TokenAt(c)'
    <3>1. ASSUME NEW u, Waits(c, u) PROVE Waits(c, u)'
      BY <2>7, <3>1 DEF Waits
    <3> QED
      BY <2>1, <2>7, <3>1 DEF TokenAt, InSlot, InTiny, InRecv, InNotify
  <2>8. CASE call[t].chan # c /\ (Poll(t) \/ Copy(t) \/ Complete(t) \/ Again(t) \/ Expire(t))
    BY <1>0, <2>7, <2>8 DEF Poll, Copy, Complete, Again, Expire, InIsr
  <2>9. ASSUME call[t].chan = c, NEW u, Waits(c, u), pc[t] \in {"poll", "trywait", "wait"} PROVE u = t
    BY <2>9, Sole DEF Waits, InLock
  <2>10. CASE call[t].chan = c /\ Poll(t)
    <3>1. CASE ~lock[c] /\ recvIrq[c]
      <4>1. ~InSlot(c) /\ ~InTiny(c) /\ ~InIsr(c) /\ ~InNotify(c)
        BY <2>1, <3>1 DEF TokenAt, InRecv
      <4>2. ~recvIrq'[c] /\ UNCHANGED <<sendIrq, sendSlot, tiny, isr, todo, notify>>
        BY <1>0, <2>10, <3>1 DEF Poll
      <4> QED
        BY <4>1, <4>2 DEF TokenAt, InSlot, InTiny, InRecv, InIsr, InNotify
    <3>2. CASE ~(~lock[c] /\ recvIrq[c])
      <4>1. Same /\ call' = call /\ Waits(c, t)'
        BY <1>0, <2>10, <3>2 DEF Poll, InIsr, Waits
      <4>2. ASSUME NEW u, Waits(c, u) PROVE u = t
        BY <2>9, <2>10, <4>2 DEF Poll
      <4> QED
        BY <2>1, <4>1, <4>2 DEF TokenAt, InSlot, InTiny, InRecv, InNotify
    <3> QED
      BY <3>1, <3>2
  <2>11. CASE call[t].chan = c /\ Copy(t)
    <3>1. ~InSlot(c) /\ ~InTiny(c) /\ ~InRecv(c) /\ ~InIsr(c) /\ ~InNotify(c)
      BY <2>1, <2>11, NoToken DEF Copy, InLock
    <3> QED
      BY <2>11, <3>1 DEF Copy, TokenAt, InSlot, InTiny, InRecv, InIsr, InNotify
  <2>12. CASE call[t].chan = c /\ Complete(t)
    <3>1. InNotify(c)
      BY <2>12 DEF Complete, InNotify
    <3>2. ~InSlot(c) /\ ~InTiny(c) /\ ~InRecv(c) /\ ~InIsr(c) /\ notify[c] = 1
      BY <2>1, <3>1 DEF TokenAt
    <3>3. notify'[c] = 0 /\ UNCHANGED <<sendIrq, sendSlot, tiny, recvIrq, isr, todo>>
      BY <1>0, <2>12, <3>2 DEF Complete
    <3> QED
      BY <3>2, <3>3 DEF TokenAt, InSlot, InTiny, InRecv, InIsr, InNotify
  <2>13. CASE call[t].chan = c /\ Again(t)
    <3>1. Same /\ call' = call /\ Waits(c, t)'
      BY <2>13 DEF Again, InIsr, Waits
    <3>2. ASSUME NEW u, Waits(c, u) PROVE u = t
      BY <2>9, <2>13, <3>2 DEF Again
    <3> QED
      BY <2>1, <3>1, <3>2 DEF TokenAt, InSlot, InTiny, InRecv, InNotify
  <2>14. CASE call[t].chan = c /\ Expire(t)
    BY <1>0, <2>14 DEF Expire
  <2> QED
    BY <2>2, <2>3, <2>4, <2>5, <2>6, <2>8, <2>10, <2>11, <2>12, <2>13, <2>14 DEF InCall
<1> QED
  BY <1>1, <1>2, <1>3, <1>4, <1>5 DEF Next

\* What a call has found stays its own until it returns.
LEMMA FoundStep ==
  ASSUME IType, Next, ExclInv, IsrInv, TokenInv, FoundInv PROVE FoundInv'
<1> SUFFICES ASSUME NEW u \in Threads, pc'[u] \in {"copy", "done"}, OneModed(call'[u].chan),
                    "timeout" \notin upset'[call'[u].chan]
             PROVE  FoundAt(u)'
  BY DEF FoundInv
<1> DEFINE c == call[u].chan
<1> USE DEF IType, TypeOK
<1>0. ASSUME pc[u] # "idle", call'[u] = call[u]
      PROVE  /\ c \in AckChans /\ c \in Chans /\ OneModed(c)
             /\ "timeout" \notin upset[c] /\ TokenAt(c)
  BY <1>0, UpsetGrows DEF Chans, TokenInv
<1>a. ASSUME pc[u] = pc'[u], call'[u] = call[u]
      PROVE  /\ FoundAt(u) /\ InLock(u) /\ c \in Chans /\ OneModed(c)
             /\ ~InTiny(c) /\ ~InRecv(c)
  BY <1>0, <1>a, NoToken DEF FoundInv, InLock
<1>1. CASE \E d \in Chans : Tiny(d)
  <2> PICK d \in Chans : Tiny(d)
    BY <1>1
  <2>1. UNCHANGED <<pc, call, pinBuf>>
    BY DEF Tiny, TinyTake, TinyAck, TinySend, TinyReplied
  <2>2. recvSlot'[c] = recvSlot[c]
    BY <1>a, <1>0, <2>1, ChansDiffer DEF Tiny, TinyTake, TinyAck, TinySend, TinyReplied, InTiny
  <2> QED
    BY <1>a, <2>1, <2>2 DEF FoundAt
<1>2. CASE Isr
  <2>1. UNCHANGED <<pc, call, recvSlot>>
    BY <1>2 DEF Isr, IsrRaise, IsrLock, IsrRead, IsrClear, IsrNotify, IsrExit
  <2>2. ~recvIrq[c] /\ FoundAt(u)
    BY <1>a, <2>1 DEF InRecv
  <2>3. pinBuf'[c] = pinBuf[c]
    <3>1. CASE \E d \in Chans : IsrRead(d)
      <4> PICK d \in Chans : IsrRead(d)
        BY <3>1
      <4>1. recvIrq[d]
        BY DEF IsrRead, IsrInv, IsrOwnsPins
      <4> QED
        BY <2>2, <4>1 DEF IsrRead
    <3>2. CASE ~\E d \in Chans : IsrRead(d)
      BY <1>2, <3>2 DEF Isr, IsrRaise, IsrLock, IsrClear, IsrNotify, IsrExit
    <3> QED
      BY <3>1, <3>2
  <2> QED
    BY <2>1, <2>2, <2>3 DEF FoundAt
<1>3. CASE \E d \in MsgChans : Receiver(d)
  <2>1. UNCHANGED <<pc, call, recvSlot, pinBuf>>
    BY <1>3 DEF Receiver, Recv, Callback, Reply
  <2> QED
    BY <1>a, <2>1 DEF FoundAt
<1>4. CASE \E t \in Threads, d \in AckChans, op \in Ops : \E mode \in Modes[d] :
             Call(t, d, op, mode)
  <2>1. pc'[u] = pc[u] /\ call'[u] = call[u] /\ UNCHANGED <<recvSlot, pinBuf>>
    BY <1>4 DEF Call
  <2> QED
    BY <1>a, <2>1 DEF FoundAt
<1>5. CASE \E t \in Threads : InCall(t)
  <2> PICK t \in Threads : InCall(t)
    BY <1>5
  <2>1. ASSUME t # u PROVE pc'[u] = pc[u] /\ call'[u] = call[u]
    BY <2>1 DEF InCall, CheckMode, Lock, TrySend, GiveUp, ClearHolder, Write, Trigger, Poll, Copy,
       Complete, Again, Expire, Finish, Return
  <2>2. ASSUME t # u, UNCHANGED <<recvSlot, pinBuf>> PROVE FoundAt(u)'
    BY <1>a, <2>1, <2>2 DEF FoundAt
  <2>3. ASSUME t # u, Return(t) PROVE FoundAt(u)'
    <3>1. FoundAt(u) /\ c \in Chans /\ pc'[u] = pc[u] /\ call'[u] = call[u]
      BY <1>a, <2>1, <2>3
    <3>2. /\ recvSlot[c] = u => recvSlot'[c] = u
          /\ pinBuf[c] = u => pinBuf'[c] = u
      BY <2>3, <3>1 DEF Return, Aged
    <3> QED
      BY <3>1, <3>2 DEF FoundAt
  <2>4. CASE t # u /\ Copy(t)
    <3>1. call[t].chan # c /\ FoundAt(u) /\ c \in Chans /\ pc'[u] = pc[u] /\ call'[u] = call[u]
      BY <1>a, <2>1, <2>4, Sole DEF Copy, InLock
    <3>2. recvSlot'[c] = recvSlot[c] /\ pinBuf'[c] = pinBuf[c]
      BY <2>4, <3>1 DEF Copy
    <3> QED
      BY <3>1, <3>2 DEF FoundAt
  <2>5. CASE t # u /\ ~Copy(t)
    BY <2>2, <2>3, <2>5 DEF InCall, CheckMode, Lock, TrySend, GiveUp, ClearHolder, Write, Trigger,
       Poll, Complete, Again, Expire, Finish
  <2>6. CASE t = u /\ Poll(t)
    <3>1. pc[u] = "poll" /\ pc'[u] = "copy" /\ recvIrq[c] /\ call' = call /\ recvSlot' = recvSlot
      BY <2>6 DEF Poll
    <3>2. Waits(c, recvSlot[c])
      BY <1>0, <3>1 DEF TokenAt, InRecv
    <3>3. recvSlot[c] = u
      BY <1>0, <3>1, <3>2, Sole DEF Waits, InLock
    <3> QED
      BY <3>1, <3>3 DEF FoundAt
  <2>7. CASE t = u /\ Copy(t)
    <3>1. pc[u] = "copy" /\ pc'[u] = "done" /\ call' = call
      BY <2>7 DEF Copy
    <3>2. recvSlot[c] = u /\ c \in Chans
      BY <1>0, <3>1 DEF FoundInv, FoundAt
    <3>3. pinBuf'[c] = u
      BY <2>7, <3>2 DEF Copy
    <3> QED
      BY <3>1, <3>3 DEF FoundAt
  <2>8. CASE t = u /\ Complete(t)
    <3>1. pc[u] \in {"trywait", "wait"} /\ pc'[u] = "done" /\ call' = call /\ pinBuf' = pinBuf /\ InNotify(c)
      BY <2>8 DEF Complete, InNotify
    <3>2. Waits(c, pinBuf[c])
      BY <1>0, <3>1 DEF TokenAt
    <3>3. pinBuf[c] = u
      BY <1>0, <3>1, <3>2, Sole DEF Waits, InLock
    <3> QED
      BY <3>1, <3>3 DEF FoundAt
  <2>9. CASE t = u /\ ~Poll(t) /\ ~Copy(t) /\ ~Complete(t)
    BY <2>9 DEF InCall, CheckMode, Lock, TrySend, GiveUp, ClearHolder, Write, Trigger, Again, Expire,
       Finish, Return
  <2> QED
    BY <2>4, <2>5, <2>6, <2>7, <2>8, <2>9
<1> QED
  BY <1>1, <1>2, <1>3, <1>4, <1>5 DEF Next

\* The holder count of a channel that nobody has given up on covers the thread in its lock.
LEMMA HolderStep ==
  ASSUME IType, Next, ExclInv, HolderInv PROVE HolderInv'
<1> SUFFICES ASSUME NEW u \in Threads, pc'[u] # "idle", OneModed(call'[u].chan) PROVE HolderAt(u)'
  BY DEF HolderInv, HolderAt, InLock
<1> DEFINE c == call[u].chan
<1> USE DEF IType, TypeOK
<1>0. /\ HolderAt(u)
      /\ pc[u] # "idle" => c \in Chans /\ OneModed(c) /\ upset[c] \subseteq upset'[c]
  <2>1. CASE pc[u] = "idle"
    BY <2>1 DEF HolderAt, InLock
  <2>2. CASE pc[u] # "idle"
    BY <2>2, CallKept, UpsetGrows DEF HolderInv, Chans
  <2> QED
    BY <2>1, <2>2
<1>a. ASSUME pc'[u] = pc[u], call'[u] = call[u], holder'[c] = holder[c] PROVE HolderAt(u)'
  BY <1>0, <1>a DEF HolderAt, InLock, Compl
<1>1. CASE (\E d \in Chans : Tiny(d)) \/ Isr \/ \E d \in MsgChans : Receiver(d)
  <2>1. UNCHANGED <<pc, call, holder>>
    BY <1>1 DEF Tiny, TinyTake, TinyAck, TinySend, TinyReplied, Isr, IsrRaise, IsrLock, IsrRead,
       IsrClear, IsrNotify, IsrExit, Receiver, Recv, Callback, Reply
  <2> QED
    BY <1>a, <2>1
<1>2. CASE \E t \in Threads, d \in AckChans, op \in Ops : \E mode \in Modes[d] :
             Call(t, d, op, mode)
  BY <1>a, <1>2 DEF Call, HolderAt, InLock
<1>3. CASE \E t \in Threads : InCall(t)
  <2> PICK t \in Threads : InCall(t)
    BY <1>3
  <2>0. ASSUME t # u PROVE pc'[u] = pc[u] /\ call'[u] = call[u]
    BY <2>0 DEF InCall, CheckMode, Lock, TrySend, GiveUp, ClearHolder, Write, Trigger, Poll, Copy,
       Complete, Again, Expire, Finish, Return
  <2>1. CASE Lock(t)
    <3>0. pc[t] \in {"spin", "lock"} /\ call[t].chan \in Chans /\ holder[call[t].chan] \in Nat
      BY <2>1 DEF Lock, Take, Chans
    <3>1. CASE t = u
      BY <1>0, <2>1, <3>0, <3>1 DEF Lock, HolderAt, InLock, Compl
    <3>2. CASE t # u
      <4>1. c \in Chans /\ holder[c] \in Nat /\ holder'[c] \in {holder[c], holder[c] + 1}
        BY <1>0, <2>0, <2>1, <3>0, <3>2 DEF Lock
      <4> QED
        BY <1>0, <2>0, <3>2, <4>1 DEF HolderAt, InLock, Compl
    <3> QED
      BY <3>1, <3>2
  <2>2. CASE ClearHolder(t)
    <3>1. t # u
      BY <2>2 DEF ClearHolder, Return
    <3>2. /\ OneModed(call[t].chan) => "busy" \in upset[call[t].chan]
          /\ call[t].chan \in Chans /\ upset' = upset
      BY <2>2 DEF ClearHolder, HolderInv, HolderAt, Chans
    <3>3. CASE c = call[t].chan
      BY <1>0, <2>0, <3>1, <3>2, <3>3 DEF HolderAt
    <3>4. CASE c # call[t].chan
      BY <1>a, <1>0, <2>0, <2>2, <3>1, <3>4 DEF ClearHolder
    <3> QED
      BY <3>3, <3>4
  <2>3. CASE Finish(t)
    <3>1. t # u
      BY <2>3 DEF Finish, Return
    <3>2. CASE InLock(u)
      <4>1. call[t].chan # c
        BY <1>0, <2>3, <3>1, <3>2, Sole DEF Finish, InLock
      <4> QED
        BY <1>a, <2>0, <2>3, <3>1, <4>1 DEF Finish
    <3>3. CASE ~InLock(u)
      BY <1>0, <2>0, <3>1, <3>3 DEF HolderAt, InLock
    <3> QED
      BY <3>2, <3>3
  <2>4. CASE GiveUp(t)
    <3>1. CASE t = u
      BY <1>0, <2>4, <3>1 DEF GiveUp, HolderAt, InLock, Return
    <3>2. CASE t # u
      BY <1>a, <2>0, <2>4, <3>2 DEF GiveUp
    <3> QED
      BY <3>1, <3>2
  <2>5. CASE CheckMode(t)
    BY <1>0, <1>a, <2>5 DEF CheckMode, HolderAt, InLock
  <2>6. CASE Trigger(t)
    <3>1. CASE t = u
      BY <1>0, <2>6, <3>1 DEF Trigger, Return, HolderAt, InLock, Compl
    <3>2. CASE t # u
      BY <1>a, <2>0, <2>6, <3>2 DEF Trigger
    <3> QED
      BY <3>1, <3>2
  <2>7. CASE TrySend(t) \/ Write(t) \/ Poll(t) \/ Copy(t) \/ Complete(t) \/ Again(t) \/ Expire(t)
    <3>1. holder' = holder /\ call' = call /\ InLock(t) /\ InLock(t)' /\ pc'[t] # "clear"
      BY <2>7 DEF TrySend, Write, Poll, Copy, Complete, Again, Expire, InLock
    <3>2. CASE t = u
      BY <1>0, <3>1, <3>2 DEF HolderAt, Compl, InLock
    <3>3. CASE t # u
      BY <1>a, <2>0, <3>1, <3>3
    <3> QED
      BY <3>2, <3>3
  <2> QED
    BY <2>1, <2>2, <2>3, <2>4, <2>5, <2>6, <2>7 DEF InCall
<1> QED
  BY <1>1, <1>2, <1>3 DEF Next

\* Somewhere there is what will end the wait of thread t.
Pending(t, c) ==
  \/ sendIrq[c] \/ tiny[c] # None \/ recvIrq[c] \/ notify[c] > 0 \/ pc[t] = "copy"
  \/ isr = "notify" /\ c \in todo

\* No step takes away the last trace of a request that a thread waits for.
LEMMA WakeupStep ==
  ASSUME IType, Next, ExclInv, IsrInv, SlotInv, HolderInv, NoLostWakeup PROVE NoLostWakeup'
<1> SUFFICES ASSUME NEW u \in Threads, Waiting(u)', OneModed(call'[u].chan),
                    upset'[call'[u].chan] = {}
             PROVE  Pending(u, call[u].chan)'
  BY DEF NoLostWakeup, Pending
<1> DEFINE c == call[u].chan
<1> USE DEF IType, TypeOK
<1>a. ASSUME pc[u] # "idle", call'[u] = call[u]
      PROVE  c \in AckChans /\ c \in Chans /\ c \notin MsgChans /\ OneModed(c) /\ upset[c] = {}
  BY <1>a, UpsetGrows, ChansDiffer DEF Chans
<1>b. ASSUME Waiting(u), call'[u] = call[u]
      PROVE  /\ Pending(u, c) /\ InLock(u) /\ holder[c] > 0
             /\ sendIrq[c] => sendSlot[c].ack
  <2>1. /\ OneModed(c) /\ upset[c] = {} /\ InLock(u) /\ Compl(u)
        /\ sendIrq[c] => sendSlot[c].ack
    BY <1>a, <1>b DEF Waiting, InLock, SlotInv, SlotAt
  <2> QED
    BY <1>b, <2>1 DEF NoLostWakeup, Pending, HolderInv, HolderAt
<1>1. CASE \E d \in Chans : Tiny(d)
  <2> PICK d \in Chans : Tiny(d)
    BY <1>1
  <2>1. UNCHANGED <<pc, call, isr, todo, notify>>
    BY DEF Tiny, TinyTake, TinyAck, TinySend, TinyReplied
  <2>2. /\ Pending(u, c) /\ (sendIrq[c] => sendSlot[c].ack)
        /\ c \in AckChans /\ c \in Chans /\ c \notin MsgChans
    BY <1>a, <1>b, <2>1 DEF Waiting
  <2>3. CASE d # c
    <3>1. sendIrq'[c] = sendIrq[c] /\ tiny'[c] = tiny[c] /\ recvIrq'[c] = recvIrq[c]
      BY <2>2, <2>3 DEF Tiny, TinyTake, TinyAck, TinySend, TinyReplied
    <3> QED
      BY <2>1, <2>2, <3>1 DEF Pending
  <2>4. CASE d = c /\ TinyTake(d)
    <3>1. sendSlot[c].id \in Ids /\ sendSlot[c].ack
      BY <2>2, <2>4 DEF TinyTake
    <3>2. tiny'[c] # None
      BY <2>2, <2>4, <3>1, Distinct DEF TinyTake
    <3> QED
      BY <2>1, <3>2 DEF Pending
  <2>5. CASE d = c /\ TinyAck(d)
    BY <2>1, <2>2, <2>5 DEF TinyAck, Pending
  <2> QED
    BY <2>2, <2>3, <2>4, <2>5 DEF Tiny, TinySend, TinyReplied
<1>2. CASE Isr
  <2>1. UNCHANGED <<pc, call, sendIrq, tiny>>
    BY <1>2 DEF Isr, IsrRaise, IsrLock, IsrRead, IsrClear, IsrNotify, IsrExit
  <2>2. Pending(u, c) /\ holder[c] > 0 /\ c \in Chans
    BY <1>a, <1>b, <2>1 DEF Waiting
  <2>3. CASE IsrRaise \/ IsrLock \/ IsrExit \/ \E d \in Chans : IsrRead(d)
    BY <2>1, <2>2, <2>3 DEF IsrRaise, IsrLock, IsrExit, IsrRead, Pending
  <2>4. CASE IsrClear
    BY <2>1, <2>2, <2>4 DEF IsrClear, Pending
  <2>5. CASE \E d \in Chans : IsrNotify(d)
    <3> PICK d \in Chans : IsrNotify(d)
      BY <2>5
    <3>1. CASE d = c
      BY <2>2, <3>1 DEF IsrNotify, Pending
    <3>2. CASE d # c
      BY <2>1, <2>2, <3>2 DEF IsrNotify, Pending
    <3> QED
      BY <3>1, <3>2
  <2> QED
    BY <1>2, <2>3, <2>4, <2>5 DEF Isr
<1>3. CASE \E d \in MsgChans : Receiver(d)
  <2> PICK d \in MsgChans : Receiver(d)
    BY <1>3
  <2>1. UNCHANGED <<pc, call, isr, todo, tiny, recvIrq>>
    BY DEF Receiver, Recv, Callback, Reply
  <2>2. Pending(u, c) /\ c \in Chans /\ c \notin MsgChans
    BY <1>a, <1>b, <2>1 DEF Waiting
  <2>3. sendIrq'[c] = sendIrq[c] /\ notify'[c] = notify[c]
    BY <2>2 DEF Receiver, Recv, Callback, Reply
  <2> QED
    BY <2>1, <2>2, <2>3 DEF Pending
<1>4. CASE \E t \in Threads, d \in AckChans, op \in Ops : \E mode \in Modes[d] :
             Call(t, d, op, mode)
  <2>1. pc'[u] = pc[u] /\ call'[u] = call[u] /\ UNCHANGED <<isr, todo, sendIrq, recvIrq, tiny, notify>>
    BY <1>4 DEF Call, Waiting
  <2> QED
    BY <1>b, <2>1 DEF Waiting, Pending
<1>5. CASE \E t \in Threads : InCall(t)
  <2> PICK t \in Threads : InCall(t)
    BY <1>5
  <2>1. CASE t # u
    <3>1. pc'[u] = pc[u] /\ call'[u] = call[u] /\ UNCHANGED <<isr, todo>>
      BY <2>1 DEF InCall, CheckMode, Lock, TrySend, GiveUp, ClearHolder, Write, Trigger, Poll, Copy,
         Complete, Again, Expire, Finish, Return
    <3>2. Pending(u, c) /\ InLock(u) /\ c \in Chans /\ OneModed(c)
      BY <1>a, <1>b, <3>1 DEF Waiting
    <3>3. sendIrq[c] => sendIrq'[c]
      <4>1. CASE Trigger(t)
        BY <3>2, <4>1 DEF Trigger
      <4>2. CASE ~Trigger(t)
        BY <4>2 DEF InCall, CheckMode, Lock, TrySend, GiveUp, ClearHolder, Write, Poll, Copy,
           Complete, Again, Expire, Finish
      <4> QED
        BY <4>1, <4>2
    <3>4. tiny[c] # None => tiny'[c] # None
      <4>1. tiny' = tiny \/ Return(t)
        BY DEF InCall, CheckMode, Lock, TrySend, GiveUp, ClearHolder, Write, Trigger, Poll, Copy,
           Complete, Again, Expire, Finish
      <4> QED
        BY <3>2, <4>1, Distinct DEF Return, Aged
    <3>5. (recvIrq[c] => recvIrq'[c]) /\ notify'[c] = notify[c]
      <4>1. CASE Poll(t) \/ Complete(t)
        <5>1. call[t].chan # c
          BY <2>1, <3>2, <4>1, Sole DEF Poll, Complete, InLock
        <5> QED
          BY <3>2, <4>1, <5>1 DEF Poll, Complete
      <4>2. CASE ~Poll(t) /\ ~Complete(t)
        BY <4>2 DEF InCall, CheckMode, Lock, TrySend, GiveUp, ClearHolder, Write, Trigger, Copy, Again,
           Expire, Finish
      <4> QED
        BY <4>1, <4>2
    <3> QED
      BY <3>1, <3>2, <3>3, <3>4, <3>5 DEF Pending
  <2>2. CASE t = u /\ Trigger(t)
    <3>1. c \in Chans /\ sendIrq'[c]
      BY <2>2 DEF Trigger, Chans
    <3> QED
      BY <2>2, <3>1 DEF Trigger, Pending, Waiting, Return
  <2>3. CASE t = u /\ Poll(t)
    <3>1. Pending(u, c) /\ c \in Chans /\ pc[u] = "poll"
      BY <1>a, <1>b, <2>3 DEF Waiting, Poll
    <3> QED
      BY <2>3, <3>1 DEF Poll, Pending
  <2>4. CASE t = u /\ Again(t)
    <3>1. Pending(u, c)
      BY <1>b, <2>4 DEF Waiting, Again
    <3> QED
      BY <2>4, <3>1 DEF Again, Pending
  <2>5. CASE t = u /\ ~Trigger(t) /\ ~Poll(t) /\ ~Again(t)
    BY <2>5 DEF InCall, CheckMode, Lock, TrySend, GiveUp, ClearHolder, Write, Copy, Complete, Expire,
       Finish, Return, Waiting
  <2> QED
    BY <2>1, <2>2, <2>3, <2>4, <2>5
<1> QED
  BY <1>1, <1>2, <1>3, <1>4, <1>5 DEF Next

\* Identities move from place to place with the messages, and are aged on return.
LEMMA IdStep == ASSUME IType, Next, IdInv PROVE IdInv'
<1> SUFFICES ASSUME NEW c \in AckChans PROVE IdAt(c)'
  BY DEF IdInv
<1> USE DEF IType, TypeOK
<1>0. c \in Chans /\ c \notin MsgChans /\ IdAt(c)
  BY ChansDiffer DEF Chans, IdInv
<1>a. ASSUME UNCHANGED <<pc, call>>, NEW x, Live(c, x) PROVE Live(c, x)'
  BY <1>a DEF Live, Sent
<1>1. CASE \E d \in Chans : Tiny(d)
  <2> PICK d \in Chans : Tiny(d)
    BY <1>1
  <2>1. UNCHANGED <<pc, call, pinBuf, sendSlot>>
    BY DEF Tiny, TinyTake, TinyAck, TinySend, TinyReplied
  <2>2. /\ recvSlot'[c] \in {recvSlot[c], tiny[c]} /\ (tiny[c] = None => recvSlot'[c] = recvSlot[c])
        /\ tiny'[c] \in {tiny[c], None, sendSlot[c].id}
    BY <1>0 DEF Tiny, TinyTake, TinyAck, TinySend, TinyReplied
  <2> QED
    BY <1>0, <1>a, <2>1, <2>2 DEF IdAt
<1>2. CASE Isr
  <2>1. UNCHANGED <<pc, call, sendSlot, recvSlot, tiny>> /\ pinBuf'[c] \in {pinBuf[c], recvSlot[c]}
    BY <1>0, <1>2 DEF Isr, IsrRaise, IsrLock, IsrRead, IsrClear, IsrNotify, IsrExit
  <2> QED
    BY <1>0, <1>a, <2>1 DEF IdAt
<1>3. CASE \E d \in MsgChans : Receiver(d)
  <2>1. UNCHANGED <<pc, call, recvSlot, tiny, pinBuf>> /\ sendSlot'[c] = sendSlot[c]
    BY <1>0, <1>3 DEF Receiver, Recv, Callback, Reply
  <2> QED
    BY <1>0, <1>a, <2>1 DEF IdAt
<1>4. CASE \E t \in Threads, d \in AckChans, op \in Ops : \E mode \in Modes[d] :
             Call(t, d, op, mode)
  <2>1. UNCHANGED <<sendSlot, recvSlot, tiny, pinBuf>>
    BY <1>4 DEF Call
  <2>2. ASSUME NEW x, Live(c, x) PROVE Live(c, x)'
    BY <1>4, <2>2 DEF Call, Live, Sent
  <2> QED
    BY <1>0, <2>1, <2>2 DEF IdAt
<1>5. ASSUME NEW t \in Threads, Return(t) PROVE IdAt(c)'
  <2>1. ASSUME NEW x, Live(c, x), x # t PROVE Live(c, x)'
    BY <1>5, <2>1 DEF Live, Sent, Return
  <2>2. Live(c, Old)'
    BY DEF Live
  <2>3. /\ sendSlot'[c].id = IF sendSlot[c].id = t THEN Old ELSE sendSlot[c].id
        /\ recvSlot'[c] = IF recvSlot[c] = t THEN Old ELSE recvSlot[c]
        /\ pinBuf'[c] = IF pinBuf[c] = t THEN Old ELSE pinBuf[c]
        /\ tiny'[c] = IF tiny[c] = t THEN Old ELSE tiny[c]
    BY <1>0, <1>5 DEF Return, Aged
  <2> QED
    BY <1>0, <2>1, <2>2, <2>3 DEF IdAt
<1>6. CASE \E t \in Threads : InCall(t)
  <2> PICK t \in Threads : InCall(t)
    BY <1>6
  <2>1. ASSUME UNCHANGED call, pc' = [pc EXCEPT ![t] = pc'[t]], Sent(t) => Sent(t)',
               NEW x, Live(c, x)
        PROVE  Live(c, x)'
    BY <2>1 DEF Live, Sent
  <2>2. CASE CheckMode(t) \/ Lock(t) \/ TrySend(t) \/ Poll(t) \/ Complete(t) \/ Again(t) \/ Expire(t)
    <3>1. /\ UNCHANGED <<call, sendSlot, recvSlot, tiny, pinBuf>> /\ pc' = [pc EXCEPT ![t] = pc'[t]]
          /\ Sent(t) => Sent(t)'
      BY <2>2 DEF CheckMode, Lock, Take, TrySend, Poll, Complete, Again, Expire, Sent
    <3> QED
      BY <1>0, <2>1, <3>1 DEF IdAt
  <2>3. CASE ClearHolder(t) \/ Finish(t)
    BY <1>5, <2>3 DEF ClearHolder, Finish
  <2>4. CASE GiveUp(t)
    <3>1. CASE Compl(t)
      <4>1. /\ UNCHANGED <<call, sendSlot, recvSlot, tiny, pinBuf>>
            /\ pc' = [pc EXCEPT ![t] = pc'[t]] /\ ~Sent(t)
        BY <2>4, <3>1 DEF GiveUp, Sent
      <4> QED
        BY <1>0, <2>1, <4>1 DEF IdAt
    <3>2. CASE ~Compl(t)
      BY <1>5, <2>4, <3>2 DEF GiveUp
    <3> QED
      BY <3>1, <3>2
  <2>5. CASE Write(t)
    <3>1. /\ UNCHANGED <<call, recvSlot, tiny, pinBuf>> /\ pc' = [pc EXCEPT ![t] = pc'[t]]
          /\ Sent(t)' /\ pc[t] # "idle"
      BY <2>5 DEF Write, Sent
    <3>2. Live(c, sendSlot[c].id)'
      <4>1. CASE c = call[t].chan
        <5>1. sendSlot'[c].id = t
          BY <1>0, <2>5, <4>1 DEF Write
        <5> QED
          BY <3>1, <4>1, <5>1 DEF Live
      <4>2. CASE c # call[t].chan
        <5>1. sendSlot'[c] = sendSlot[c]
          BY <1>0, <2>5, <4>2 DEF Write
        <5> QED
          BY <1>0, <2>1, <3>1, <5>1 DEF IdAt
      <4> QED
        BY <4>1, <4>2
    <3> QED
      BY <1>0, <2>1, <3>1, <3>2 DEF IdAt
  <2>6. CASE Trigger(t)
    <3>1. CASE Compl(t)
      <4>1. /\ UNCHANGED <<call, sendSlot, recvSlot, tiny, pinBuf>>
            /\ pc' = [pc EXCEPT ![t] = pc'[t]] /\ Sent(t)'
        BY <2>6, <3>1 DEF Trigger, Sent
      <4> QED
        BY <1>0, <2>1, <4>1 DEF IdAt
    <3>2. CASE ~Compl(t)
      BY <1>5, <2>6, <3>2 DEF Trigger
    <3> QED
      BY <3>1, <3>2
  <2>7. CASE Copy(t)
    <3>1. /\ UNCHANGED <<call, sendSlot, recvSlot, tiny>> /\ pc' = [pc EXCEPT ![t] = pc'[t]] /\ Sent(t)'
          /\ pinBuf'[c] \in {pinBuf[c], recvSlot[c]}
      BY <1>0, <2>7 DEF Copy, Sent
    <3> QED
      BY <1>0, <2>1, <3>1 DEF IdAt
  <2> QED
    BY <2>2, <2>3, <2>4, <2>5, <2>6, <2>7 DEF InCall
<1> QED
  BY <1>1, <1>2, <1>3, <1>4, <1>6 DEF Next
-----------------------------------------------------------------------------
(* The theorems.                                                           *)

IpiInv == IType /\ ExclInv /\ IsrInv /\ SlotInv /\ TokenInv /\ FoundInv /\ HolderInv
            /\ NoLostWakeup /\ IdInv

\* The invariant holds initially.
LEMMA IpiInitInv == Init => IpiInv
<1> SUFFICES ASSUME Init PROVE IpiInv
  OBVIOUS
<1>1. IType
  BY IpiInitType
<1>2. \A t \in Threads : pc[t] = "idle"
  BY DEF Init
<1>3. IsrInv
  BY DEF Init, IsrInv, IsrOwnsPins
<1>4. TokenInv
  BY ChansDiffer DEF Init, TokenInv, TokenAt, InSlot, InTiny, InRecv, InIsr, InNotify, Chans
<1>6. IdInv
  BY ChansDiffer DEF Init, IdInv, IdAt, Live, Chans
<1>5. ExclInv /\ SlotInv /\ FoundInv /\ HolderInv /\ NoLostWakeup
  BY <1>2 DEF ExclInv, InLock, SlotInv, SlotAt, Waiting, FoundInv, HolderInv, HolderAt, NoLostWakeup
<1> QED
  BY <1>1, <1>3, <1>4, <1>5, <1>6 DEF IpiInv

\* The invariant is inductive.
LEMMA IpiNextInv == ASSUME IpiInv, [Next]_vars PROVE IpiInv'
<1>1. CASE Next
  BY <1>1, IpiNextType, ExclStep, IsrStep, SlotStep, TokenStep, FoundStep, HolderStep, WakeupStep, IdStep
     DEF IpiInv
<1>2. CASE UNCHANGED vars
  <2>1. IType'
    BY IpiNextType DEF IpiInv
  <2>2. (ExclInv /\ IsrInv /\ SlotInv)'
    BY <1>2 DEF IpiInv, vars, ExclInv, Owner, InLock, Polling, IsrInv, IsrOwnsPins, SlotInv, SlotAt,
       Compl, Waiting
  <2>3. (TokenInv /\ FoundInv)'
    BY <1>2 DEF IpiInv, vars, TokenInv, TokenAt, InSlot, InTiny, InRecv, InIsr, InNotify, Waits,
       FoundInv, FoundAt
  <2>4. (HolderInv /\ NoLostWakeup)'
    BY <1>2 DEF IpiInv, vars, HolderInv, HolderAt, InLock, Compl, NoLostWakeup, Waiting
  <2>5. IdInv'
    BY <1>2 DEF IpiInv, vars, IdInv, IdAt, Live, Sent
  <2> QED
    BY <2>1, <2>2, <2>3, <2>4, <2>5 DEF IpiInv
<1> QED
  BY <1>1, <1>2

\* mtk_mbox_isr never clears a bit that it has not served, whatever the callers do
\* and in whatever modes they call (IsrOwnsPins).
THEOREM PinsOwned == Spec => []IsrOwnsPins
<1>1. Init => IType /\ IsrInv
  BY IpiInitType, IpiInitInv DEF IpiInv
<1>2. IType /\ IsrInv /\ [Next]_vars => IsrInv'
  <2> SUFFICES ASSUME IType, IsrInv, [Next]_vars PROVE IsrInv'
    OBVIOUS
  <2>1. CASE Next
    BY <2>1, IsrStep
  <2>2. CASE UNCHANGED vars
    BY <2>2 DEF vars, IsrInv, IsrOwnsPins
  <2> QED
    BY <2>1, <2>2
<1>3. IsrInv => IsrOwnsPins
  BY DEF IsrInv
<1> QED
  BY <1>1, <1>2, <1>3, IpiNextType, PTL DEF Spec

\* On every channel whose callers use one mode, whatever the others use, a successful
\* mtk_ipi_send_compl returns with the acknowledgement of its own message or, after a
\* time-out of the channel, with that of a call that has returned (AckIsMine).
THEOREM AcksMatch == Spec => []AckIsMine
<1>1. IpiInv /\ [Next]_vars => IpiInv'
  BY IpiNextInv
<1>2. IpiInv => AckIsMine
  <2> SUFFICES ASSUME IpiInv, NEW t \in Threads, pc[t] = "done", OneModed(call[t].chan)
               PROVE  LET c == call[t].chan IN
                      pinBuf[c] = t \/ ("timeout" \in upset[c] /\ pinBuf[c] = Old)
    BY DEF AckIsMine
  <2>1. CASE "timeout" \notin upset[call[t].chan]
    BY <2>1 DEF IpiInv, FoundInv, FoundAt
  <2>2. InLock(t) /\ call[t].chan \in AckChans
    BY DEF IpiInv, IType, TypeOK, InLock
  <2>3. Live(call[t].chan, pinBuf[call[t].chan])
    BY <2>2 DEF IpiInv, IdInv, IdAt
  <2>4. pinBuf[call[t].chan] \in {Old, t}
    BY <2>2, <2>3, Sole DEF IpiInv, Live, Sent, InLock
  <2> QED
    BY <2>1, <2>4
<1> QED
  BY <1>1, <1>2, IpiInitInv, PTL DEF Spec

\* On every channel whose callers use one mode, whatever the others use,
\* mtk_ipi_send_compl never waits for nothing before the first failed call of the
\* channel (NoLostWakeup).
THEOREM WakeupsArrive == Spec => []NoLostWakeup
<1>1. IpiInv /\ [Next]_vars => IpiInv'
  BY IpiNextInv
<1>2. IpiInv => NoLostWakeup
  BY DEF IpiInv
<1> QED
  BY <1>1, <1>2, IpiInitInv, PTL DEF Spec

\* The holder of a channel of one mode is kept while a caller waits.
HolderKeptTill(fail) ==
  \A t \in Threads :
    Waiting(t) /\ OneModed(call[t].chan) /\ fail \notin upset[call[t].chan] =>
      holder[call[t].chan] > 0

\* On every channel whose callers use one mode, what mtk_tinysys_ipi.h says of holder
\* is true until a call gives up on a busy pin: its late clearing of holder is the only
\* step that takes the holder from a caller that waits.  Time-outs do not, since they
\* clear it under the lock.
THEOREM HolderCounted == Spec => []HolderKeptTill("busy")
<1>1. IpiInv /\ [Next]_vars => IpiInv'
  BY IpiNextInv
<1>2. IpiInv => HolderKeptTill("busy")
  <2> SUFFICES ASSUME IpiInv, NEW t \in Threads, Waiting(t), OneModed(call[t].chan),
                      "busy" \notin upset[call[t].chan]
               PROVE  holder[call[t].chan] > 0
    BY DEF HolderKeptTill
  <2>1. InLock(t) /\ Compl(t)
    BY DEF IpiInv, SlotInv, SlotAt, Waiting, InLock
  <2> QED
    BY <2>1 DEF IpiInv, HolderInv, HolderAt
<1> QED
  BY <1>1, <1>2, IpiInitInv, PTL DEF Spec
=============================================================================
