----------------------- MODULE TinysysIpiOrderProofs -----------------------
(***************************************************************************)
(* Proof that TinysysIpi hands the messages of its receiving channels over *)
(* in order, for every set of threads and channels and every ring size.    *)
(***************************************************************************)
EXTENDS TinysysIpiProofs

USE DEF wires, remote, handler, callers, receiver, Set, Goto, Ids, Msgs, Calls,
        mtk_mbox_read_recv_irq, mtk_mbox_clr_irq, mtk_mbox_check_send_irq, mtk_mbox_read,
        mtk_mbox_set_lock

-----------------------------------------------------------------------------
(* The parts of the inductive invariant                                    *)

\* mtk_mbox_isr has served the pin and not yet cleared its bit.
Served(c) == isr = "read" /\ c \in status \ todo

\* With the callback in mtk_mbox_isr, the message in the slot is the next one
\* until the handler has served it; otherwise all messages are handed over.
CbAt(c) ==
  IF recvIrq[c] /\ ~Served(c) THEN recvSlot[c] = tiny[c] /\ tiny[c] = Succ(seen[c])
                              ELSE seen[c] = tiny[c]
CbInv == \A c \in IsrCb : CbAt(c)

\* Message i is the last one sent, and the next to be handed over.
Fresh(c, i) == i = tiny[c] /\ tiny[c] = Succ(seen[c])

\* With a tinysys that waits for the reply there is one message at a time: in
\* the slot, in the handler, in the completion or with the receiving thread;
\* then its reply is about to be sent, or on the way.
ReplyAt(c) ==
  /\ recvIrq[c] => /\ Fresh(c, recvSlot[c]) /\ await[c] /\ ~sendIrq[c]
                   /\ ~InIsr(c) /\ notify[c] = 0 /\ rpc[c] = "wait"
  /\ InIsr(c) => /\ Fresh(c, pinBuf[c]) /\ await[c] /\ ~sendIrq[c]
                 /\ notify[c] = 0 /\ rpc[c] = "wait"
  /\ notify[c] # 0 => /\ Fresh(c, pinBuf[c]) /\ await[c] /\ ~sendIrq[c]
                      /\ notify[c] = 1 /\ rpc[c] = "wait"
  /\ rpc[c] = "cb" => Fresh(c, pinBuf[c]) /\ await[c] /\ ~sendIrq[c]
  /\ rpc[c] = "reply" => seen[c] = tiny[c] /\ await[c] /\ ~sendIrq[c]
  /\ sendIrq[c] => seen[c] = tiny[c] /\ await[c]
  /\ ~await[c] => seen[c] = tiny[c]
ReplyInv == \A c \in Replying \ IsrCb : ReplyAt(c)

-----------------------------------------------------------------------------
(* What callers do on the sending channels                                 *)

\* A returning call changes no message of a receiving channel: those are
\* numbered, and only what carries the thread's identity becomes Old.
LEMMA ReturnKeeps ==
  ASSUME IType, NEW t \in Threads, NEW c \in MsgChans, Return(t)
  PROVE  /\ tiny'[c] = tiny[c]
         /\ recvSlot[c] = tiny[c] => recvSlot'[c] = recvSlot[c]
         /\ pinBuf[c] = tiny[c] => pinBuf'[c] = pinBuf[c]
<1>1. tiny[c] \notin Threads /\ c \in Chans
  BY Distinct DEF IType, TypeOK, Chans
<1> QED
  BY <1>1 DEF Return, Aged

\* No step of a caller touches a receiving channel otherwise.
LEMMA CallerKeeps ==
  ASSUME IType, NEW t \in Threads, InCall(t), NEW c \in MsgChans
  PROVE  /\ UNCHANGED <<await, isr, status, todo, rpc, seen>>
         /\ sendIrq'[c] = sendIrq[c] /\ recvIrq'[c] = recvIrq[c] /\ notify'[c] = notify[c]
         /\ tiny'[c] = tiny[c]
         /\ recvSlot[c] = tiny[c] => recvSlot'[c] = recvSlot[c]
         /\ pinBuf[c] = tiny[c] => pinBuf'[c] = pinBuf[c]
<1> USE DEF IType, TypeOK
<1>1. c \in Chans /\ (pc[t] # "idle" => call[t].chan \in Chans /\ call[t].chan # c)
  BY ChansDiffer DEF Chans
<1>2. CASE CheckMode(t) \/ Lock(t) \/ TrySend(t) \/ Write(t) \/ Again(t) \/ Expire(t)
  BY <1>2 DEF CheckMode, Lock, TrySend, Write, Again, Expire
<1>3. CASE ClearHolder(t) \/ Finish(t)
  <2>1. Return(t)
    BY <1>3 DEF ClearHolder, Finish
  <2> QED
    BY <1>3, <2>1, ReturnKeeps DEF ClearHolder, Finish
<1>4. CASE GiveUp(t)
  <2>1. CASE Return(t)
    BY <1>4, <2>1, ReturnKeeps DEF GiveUp
  <2>2. CASE UNCHANGED <<sendSlot, recvSlot, tiny, pinBuf, call>>
    BY <1>4, <2>2 DEF GiveUp
  <2> QED
    BY <1>4, <2>1, <2>2 DEF GiveUp
<1>5. CASE Trigger(t)
  <2>0. sendIrq'[c] = sendIrq[c]
    BY <1>1, <1>5 DEF Trigger
  <2>1. CASE Return(t)
    BY <1>5, <2>0, <2>1, ReturnKeeps DEF Trigger
  <2>2. CASE UNCHANGED <<sendSlot, recvSlot, tiny, pinBuf, mutex, spin, call>>
    BY <1>5, <2>0, <2>2 DEF Trigger
  <2> QED
    BY <1>5, <2>1, <2>2 DEF Trigger
<1>6. CASE Poll(t)
  BY <1>1, <1>6 DEF Poll
<1>7. CASE Copy(t)
  BY <1>1, <1>7 DEF Copy
<1>8. CASE Complete(t)
  BY <1>1, <1>8 DEF Complete
<1> QED
  BY <1>2, <1>3, <1>4, <1>5, <1>6, <1>7, <1>8 DEF InCall

-----------------------------------------------------------------------------
(* Every step keeps the order                                              *)

\* mtk_mbox_isr hands over what is in the slot, once, and then clears the bit.
LEMMA CbStep ==
  ASSUME IType, IsrInv, Next, NEW c \in IsrCb, CbAt(c)
  PROVE  CbAt(c)'
<1> USE DEF IType, TypeOK, CbAt, Served
<1>1. c \in MsgChans /\ c \in Chans
  BY KindsOfMsgChans DEF Chans
<1>2. Served(c) => recvIrq[c]
  BY DEF IsrInv, IsrOwnsPins
<1>3. CASE \E d \in Chans : TinyTake(d) \/ TinyAck(d) \/ TinyReplied(d)
  BY <1>1, <1>3, ChansDiffer DEF TinyTake, TinyAck, TinyReplied
<1>4. CASE \E d \in Chans : TinySend(d)
  BY <1>1, <1>2, <1>4 DEF TinySend
<1>5. CASE IsrRaise \/ IsrLock \/ IsrExit
  BY <1>1, <1>5 DEF IsrRaise, IsrLock, IsrExit
<1>6. CASE \E d \in Chans : IsrRead(d)
  BY <1>1, <1>6 DEF IsrRead, IsrInv, IsrOwnsPins
<1>7. CASE IsrClear
  BY <1>1, <1>7 DEF IsrClear
<1>8. CASE \E d \in Chans : IsrNotify(d)
  BY <1>1, <1>8 DEF IsrNotify
<1>9. CASE \E t \in Threads, d \in AckChans, op \in Ops : \E mode \in Modes[d] :
             Call(t, d, op, mode)
  BY <1>9 DEF Call
<1>10. CASE \E t \in Threads : InCall(t)
  BY <1>1, <1>10, CallerKeeps
<1>11. CASE \E d \in MsgChans : Receiver(d)
  BY <1>1, <1>11 DEF Receiver, Recv, Callback, Reply
<1> QED
  BY <1>3, <1>4, <1>5, <1>6, <1>7, <1>8, <1>9, <1>10, <1>11 DEF Next, Tiny, Isr

\* The message a tinysys waits to be answered moves from place to place.
LEMMA ReplyStep ==
  ASSUME IType, IsrInv, Next, NEW c \in Replying \ IsrCb, ReplyAt(c)
  PROVE  ReplyAt(c)'
<1> USE DEF IType, TypeOK, ReplyAt, InIsr, Fresh
<1>1. c \in MsgChans /\ c \in Chans
  BY KindsOfMsgChans DEF Chans
<1>2. CASE \E d \in Chans : TinyTake(d) \/ TinyAck(d)
  BY <1>1, <1>2, ChansDiffer DEF TinyTake, TinyAck
<1>3. CASE \E d \in Chans : TinySend(d)
  <2> PICK d \in Chans : TinySend(d)
    BY <1>3
  <2>1. CASE d = c
    <3>1. ~recvIrq[c] /\ ~await[c]
      BY <2>1 DEF TinySend
    <3>2. await'[c]
      BY <1>1, <2>1 DEF TinySend
    <3>3. tiny'[c] = Succ(tiny[c]) /\ recvSlot'[c] = Succ(tiny[c])
      BY <1>1, <2>1 DEF TinySend
    <3>4. ~sendIrq[c] /\ ~InIsr(c) /\ notify[c] = 0 /\ rpc[c] = "wait" /\ seen[c] = tiny[c]
      BY <1>1, <3>1
    <3>5. UNCHANGED <<sendIrq, notify, rpc, seen, isr, todo>>
      BY DEF TinySend
    <3> QED
      BY <3>2, <3>3, <3>4, <3>5
  <2>2. CASE d # c
    <3>1. recvIrq'[c] = recvIrq[c] /\ recvSlot'[c] = recvSlot[c] /\ tiny'[c] = tiny[c]
      BY <1>1, <2>2 DEF TinySend
    <3>2. await'[c] = await[c]
      BY <1>1, <2>2 DEF TinySend
    <3>3. UNCHANGED <<sendIrq, notify, rpc, seen, isr, todo, pinBuf>>
      BY DEF TinySend
    <3> QED
      BY <3>1, <3>2, <3>3
  <2> QED
    BY <2>1, <2>2
<1>4. CASE \E d \in Chans : TinyReplied(d)
  BY <1>1, <1>4 DEF TinyReplied
<1>5. CASE IsrRaise \/ IsrLock \/ IsrExit
  BY <1>1, <1>5 DEF IsrRaise, IsrLock, IsrExit
<1>6. CASE \E d \in Chans : IsrRead(d)
  BY <1>1, <1>6 DEF IsrRead, IsrInv, IsrOwnsPins
<1>7. CASE IsrClear
  BY <1>1, <1>7 DEF IsrClear, IsrInv, IsrOwnsPins
<1>8. CASE \E d \in Chans : IsrNotify(d)
  BY <1>1, <1>8 DEF IsrNotify
<1>9. CASE \E t \in Threads, d \in AckChans, op \in Ops : \E mode \in Modes[d] :
             Call(t, d, op, mode)
  BY <1>9 DEF Call
<1>10. CASE \E t \in Threads : InCall(t)
  BY <1>1, <1>10, CallerKeeps
<1>11. CASE \E d \in MsgChans : Recv(d)
  BY <1>1, <1>11 DEF Recv
<1>12. CASE \E d \in MsgChans : Callback(d)
  BY <1>1, <1>12 DEF Callback
<1>13. CASE \E d \in MsgChans : Reply(d)
  BY <1>1, <1>13 DEF Reply
<1> QED
  BY <1>2, <1>3, <1>4, <1>5, <1>6, <1>7, <1>8, <1>9, <1>10, <1>11, <1>12, <1>13
     DEF Next, Tiny, Isr, Receiver

-----------------------------------------------------------------------------
(* The theorem                                                             *)

OrderInv == IType /\ IsrInv /\ CbInv /\ ReplyInv

\* Every channel starts with all its messages handed over.
LEMMA OrderInit == Init => OrderInv
<1> SUFFICES ASSUME Init PROVE OrderInv
  OBVIOUS
<1>1. IType /\ IsrInv
  BY IpiInitType, IpiInitInv DEF IpiInv
<1>2. CbInv
  BY KindsOfMsgChans DEF Init, CbInv, CbAt, Chans
<1>3. ReplyInv
  BY KindsOfMsgChans DEF Init, ReplyInv, ReplyAt, Fresh, InIsr, Chans
<1> QED
  BY <1>1, <1>2, <1>3 DEF OrderInv

\* Every step keeps the order of the messages.
LEMMA OrderNext == OrderInv /\ [Next]_vars => OrderInv'
<1> SUFFICES ASSUME OrderInv, [Next]_vars PROVE OrderInv'
  OBVIOUS
<1>1. CASE Next
  <2>1. IType' /\ IsrInv'
    BY <1>1, IpiNextType, IsrStep DEF OrderInv
  <2>2. CbInv'
    BY <1>1, CbStep DEF OrderInv, CbInv
  <2>3. ReplyInv'
    BY <1>1, ReplyStep DEF OrderInv, ReplyInv
  <2> QED
    BY <2>1, <2>2, <2>3 DEF OrderInv
<1>2. CASE UNCHANGED vars
  <2>1. IType'
    BY IpiNextType DEF OrderInv
  <2>2. IsrInv' /\ CbInv'
    BY <1>2 DEF OrderInv, vars, IsrInv, IsrOwnsPins, CbInv, CbAt, Served
  <2>3. ReplyInv'
    BY <1>2 DEF OrderInv, vars, ReplyInv, ReplyAt, Fresh, InIsr
  <2> QED
    BY <2>1, <2>2, <2>3 DEF OrderInv
<1> QED
  BY <1>1, <1>2

\* On a channel with its callback in mtk_mbox_isr, and on one served with
\* mtk_ipi_recv_reply, no message is skipped and none is handed over twice,
\* whatever the callers of the sending channels do and in whatever modes they
\* call (HandledInOrder).
THEOREM MessagesInOrder == Spec => []HandledInOrder
<1>1. OrderInv => HandledInOrder
  <2> SUFFICES ASSUME OrderInv PROVE HandledInOrder
    OBVIOUS
  <2>1. ASSUME NEW c \in Replying \ IsrCb, rpc[c] = "cb" PROVE pinBuf[c] = Succ(seen[c])
    BY <2>1 DEF OrderInv, ReplyInv, ReplyAt, Fresh
  <2>2. ASSUME NEW c \in IsrCb, isr = "read", c \in todo PROVE recvSlot[c] = Succ(seen[c])
    <3>1. recvIrq[c] /\ ~Served(c)
      BY <2>2 DEF OrderInv, IsrInv, IsrOwnsPins, Served
    <3> QED
      BY <3>1 DEF OrderInv, CbInv, CbAt
  <2> QED
    BY <2>1, <2>2 DEF HandledInOrder
<1> QED
  BY <1>1, OrderInit, OrderNext, PTL DEF Spec
=============================================================================
