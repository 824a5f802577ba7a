-------------------------- MODULE TrustedMemProofs --------------------------
(***************************************************************************)
(* Theorems about TrustedMem, for any number of threads and handles.       *)
(***************************************************************************)
EXTENDS TrustedMem, FiniteSetTheorems, TLAPS

-----------------------------------------------------------------------------
(* Type correctness *)

\* The managers start with variables of the right types.
LEMMA InitType == Init => TypeOK
<1> SUFFICES ASSUME Init PROVE TypeOK
  OBVIOUS
<1>1. pending \in BOOLEAN /\ opened \in BOOLEAN /\ granted \in BOOLEAN /\ failed \subseteq Failures
  BY Zenon DEF Init
<1>2. ssmr \in {"ON", "OFF", "DISABLED"}
  BY DEF Init
<1>3. QED
  BY <1>1, <1>2 DEF Init, TypeOK, Procs, Stages, ThreadPcs, WorkerPcs, FreePcs, OnPcs, OffPcs

\* Every step of a thread or of the deferred off work keeps them.
LEMMA NextType == TypeOK /\ [Next]_vars => TypeOK'
<1> SUFFICES ASSUME TypeOK, [Next]_vars PROVE TypeOK'
  OBVIOUS
<1> USE ProcAssumption DEF TypeOK, Procs, Stages, Failures, ThreadPcs, WorkerPcs, FreePcs,
      OnPcs, OffPcs, At, Goto, workVars, ssmrVars, peerVars
<1>1. ASSUME NEW t \in Threads, AllocStart(t) PROVE TypeOK'
  BY <1>1 DEF AllocStart
<1>2. ASSUME NEW t \in Threads, CancelBegin(t) PROVE TypeOK'
  BY <1>2 DEF CancelBegin
<1>3. ASSUME NEW t \in Threads, CancelEnd(t) PROVE TypeOK'
  BY <1>3 DEF CancelEnd
<1>4. ASSUME NEW t \in Threads, Online(t) PROVE TypeOK'
  BY <1>4 DEF Online
<1>5. ASSUME NEW t \in Threads, SsmrGet(t) PROVE TypeOK'
  <2>1. CASE TryOnReturns(t, "idle")
    <3>1. /\ lock' \in Procs \cup {NoOne} /\ chunk' \in [Handles -> Stages]
          /\ mine' \in [Threads -> Handles \cup {NoHandle}]
      BY <2>1 DEF TryOnReturns, HandOver
    <3>2. pc' = [pc EXCEPT ![t] = "idle"]
      BY <2>1 DEF TryOnReturns, HandOver
    <3>3. QED
      BY <1>5, <3>1, <3>2 DEF SsmrGet
  <2>2. CASE Goto(t, "open") /\ UNCHANGED <<lock, chunk, mine>>
    BY <1>5, <2>2 DEF SsmrGet
  <2>3. QED
    BY <1>5, <2>1, <2>2 DEF SsmrGet
<1>6. ASSUME NEW t \in Threads, SessionOpen(t) PROVE TypeOK'
  <2>1. opened' \in BOOLEAN
    BY <1>6 DEF SessionOpen
  <2>2. \E l \in {"grant", "undo_ssmr"} : pc' = [pc EXCEPT ![t] = l]
    BY <1>6 DEF SessionOpen
  <2>3. UNCHANGED <<state, valid_ref_count, lock, pending, canceler, ssmr, failed, granted,
                    ref_chunks, teeChunks, chunk, mine>>
    BY <1>6 DEF SessionOpen
  <2>4. QED
    BY <2>1, <2>2, <2>3
<1>7. ASSUME NEW t \in Threads, MemAdd(t) PROVE TypeOK'
  <2>1. granted' \in BOOLEAN /\ state' \in {"ON", "OFF"} /\ failed' \subseteq Failures
    BY <1>7 DEF MemAdd
  <2> HIDE DEF Failures
  <2>2. CASE TryOnReturns(t, "ready")
    <3>1. /\ lock' \in Procs \cup {NoOne} /\ chunk' \in [Handles -> Stages]
          /\ mine' \in [Threads -> Handles \cup {NoHandle}]
      BY <2>2 DEF TryOnReturns, HandOver
    <3>2. \E l \in {"idle", "ready"} : pc' = [pc EXCEPT ![t] = l]
      BY <2>2 DEF TryOnReturns, HandOver
    <3>3. QED
      BY <1>7, <2>1, <3>1, <3>2 DEF MemAdd
  <2>3. CASE Goto(t, "undo_close") /\ UNCHANGED <<state, granted, lock, chunk, mine>>
    BY <1>7, <2>1, <2>3 DEF MemAdd
  <2>4. QED
    BY <1>7, <2>2, <2>3 DEF MemAdd
<1>8. ASSUME NEW t \in Threads, UndoClose(t) PROVE TypeOK'
  <2>1. opened' \in BOOLEAN /\ failed' \subseteq Failures
    BY <1>8, ConfigAssumption DEF UndoClose
  <2>2. \E l \in {"undo_ssmr"} : pc' = [pc EXCEPT ![t] = l]
    BY <1>8 DEF UndoClose
  <2>3. UNCHANGED <<state, valid_ref_count, lock, pending, canceler, ssmr, granted,
                    ref_chunks, teeChunks, chunk, mine>>
    BY <1>8 DEF UndoClose
  <2>4. QED
    BY <2>1, <2>2, <2>3
<1>9. ASSUME NEW t \in Threads, UndoSsmr(t) PROVE TypeOK'
  BY <1>9 DEF UndoSsmr, TryOnReturns, HandOver
<1>10. ASSUME NEW t \in Threads, AllocReady(t) PROVE TypeOK'
  BY <1>10 DEF AllocReady
<1>11. ASSUME NEW t \in Threads, MemAlloc(t) PROVE TypeOK'
  BY <1>11 DEF MemAlloc
<1>12. ASSUME NEW t \in Threads, RefInc(t) PROVE TypeOK'
  BY <1>12 DEF RefInc, HandOver
<1>13. ASSUME NEW t \in Threads, FreeStart(t) PROVE TypeOK'
  BY <1>13 DEF FreeStart
<1>14. ASSUME NEW t \in Threads, IsRegionOn(t) PROVE TypeOK'
  BY <1>14 DEF IsRegionOn, Lose
<1>15. ASSUME NEW t \in Threads, FreeReady(t) PROVE TypeOK'
  BY <1>15 DEF FreeReady, Lose
<1>16. ASSUME NEW t \in Threads, MemFree(t) PROVE TypeOK'
  <2>1. ref_chunks' \in Nat
    BY <1>16 DEF MemFree
  <2>2. QED
    BY <1>16, <2>1 DEF MemFree, Lose
<1>17. ASSUME NEW t \in Threads, RefDec(t) PROVE TypeOK'
  <2>1. valid_ref_count' \in Nat
    BY <1>17 DEF RefDec
  <2>2. chunk' \in [Handles -> Stages] /\ mine' \in [Threads -> Handles \cup {NoHandle}]
    BY <1>17 DEF RefDec
  <2>3. QED
    BY <1>17, <2>1, <2>2 DEF RefDec
<1>18. ASSUME NEW t \in Threads, Offline(t) PROVE TypeOK'
  BY <1>18 DEF Offline
<1>19. CASE DeferOffWork
  <2>1. CASE WorkRun
    BY <2>1 DEF WorkRun
  <2>2. CASE DeferOff
    BY <2>2 DEF DeferOff
  <2>3. CASE MemRemove
    <3>1. /\ granted' \in BOOLEAN /\ teeChunks' \subseteq Handles
          /\ lock' \in Procs \cup {NoOne}
      BY <2>3 DEF MemRemove, TryOffFails
    <3>2. \E l \in {"close", "idle"} : pc' = [pc EXCEPT ![Worker] = l]
      BY <2>3 DEF MemRemove, TryOffFails
    <3>3. QED
      BY <2>3, <3>1, <3>2 DEF MemRemove
  <2>4. CASE SessionClose
    <3>1. opened' \in BOOLEAN
      BY <2>4, ConfigAssumption DEF SessionClose
    <3>2. \E l \in {"ssmr_put", "idle"} : pc' = [pc EXCEPT ![Worker] = l]
      BY <2>4 DEF SessionClose, TryOffFails
    <3>3. lock' \in Procs \cup {NoOne}
      BY <2>4 DEF SessionClose, TryOffFails
    <3>4. QED
      BY <2>4, <3>1, <3>2, <3>3 DEF SessionClose
  <2>5. CASE SsmrPut
    BY <2>5 DEF SsmrPut
  <2>6. QED
    BY <1>19, <2>1, <2>2, <2>3, <2>4, <2>5 DEF DeferOffWork
<1>20. CASE UNCHANGED vars
  BY <1>20 DEF vars
<1>21. QED
  BY <1>1, <1>2, <1>3, <1>4, <1>5, <1>6, <1>7, <1>8, <1>9, <1>10, <1>11, <1>12, <1>13,
     <1>14, <1>15, <1>16, <1>17, <1>18, <1>19, <1>20 DEF Next, Alloc, Unref, PowerOn

\* Type correctness of the whole subsystem.
THEOREM Typing == Spec => []TypeOK
  BY InitType, NextType, PTL DEF Spec

-----------------------------------------------------------------------------
(* The inductive invariant *)

\* REGMGR_LOCK is held exactly at the program points inside its long critical
\* sections.
LockInv ==
    /\ \A t \in Threads : pc[t] \in OnPcs <=> lock = t
    /\ pc[Worker] \in OffPcs <=> lock = Worker

\* How far the holder of the lock has come fixes who owns the region.
PowerInv ==
    /\ granted => ssmr = "OFF" /\ opened /\ state = "ON"
    /\ \A t \in Threads :
          /\ pc[t] \in OnPcs => state = "OFF"
          /\ pc[t] \in OnPcs \ {"ssmr_get"} => ssmr = "OFF"
          /\ pc[t] = "grant" => opened
    /\ pc[Worker] \in OffPcs => state = "ON"
    /\ pc[Worker] \in {"close", "ssmr_put"} => ~granted

\* The handle a thread works on, and the stage it has brought it to.
WorksOn(t, stage) == mine[t] \in Handles /\ chunk[mine[t]] = stage
MineInv ==
    /\ \A t \in Threads :
          /\ pc[t] = "inc" => WorksOn(t, "new")
          /\ pc[t] \in FreePcs => WorksOn(t, "freeing")
          /\ pc[t] = "dec" => WorksOn(t, "unref")
          /\ pc[t] \in OnPcs => mine[t] = NoHandle \/ WorksOn(t, "ref")
          /\ pc[t] \notin {"inc", "dec"} \cup FreePcs \cup OnPcs => mine[t] = NoHandle
    /\ \A t, u \in Threads : t # u /\ mine[t] = mine[u] => mine[t] = NoHandle

\* With a trusted OS that refuses to reclaim memory in use, it knows every
\* chunk between its allocation and its free, and owns memory while it knows one.
TeeInv ==
    ReclaimRefusesBusy =>
        /\ \A h \in Handles : chunk[h] \in {"new", "ref", "held", "freeing"} => h \in teeChunks
        /\ teeChunks # {} => granted

\* REGMGR_LOCK is taken and released where LockInv says.
LEMMA LockStep == TypeOK /\ LockInv /\ [Next]_vars => LockInv'
<1> SUFFICES ASSUME TypeOK, LockInv, [Next]_vars PROVE LockInv'
  OBVIOUS
<1> USE ProcAssumption DEF TypeOK, LockInv, Procs, ThreadPcs, WorkerPcs, FreePcs,
      OnPcs, OffPcs, At, Goto, workVars, ssmrVars, peerVars
<1>1. ASSUME NEW t \in Threads, AllocStart(t) PROVE LockInv'
  BY <1>1 DEF AllocStart
<1>2. ASSUME NEW t \in Threads, CancelBegin(t) PROVE LockInv'
  BY <1>2 DEF CancelBegin
<1>3. ASSUME NEW t \in Threads, CancelEnd(t) PROVE LockInv'
  BY <1>3 DEF CancelEnd
<1>4. ASSUME NEW t \in Threads, Online(t) PROVE LockInv'
  BY <1>4 DEF Online
<1>5. ASSUME NEW t \in Threads, SsmrGet(t) PROVE LockInv'
  BY <1>5 DEF SsmrGet, TryOnReturns, HandOver
<1>6. ASSUME NEW t \in Threads, SessionOpen(t) PROVE LockInv'
  BY <1>6 DEF SessionOpen
<1>7. ASSUME NEW t \in Threads, MemAdd(t) PROVE LockInv'
  BY <1>7 DEF MemAdd, TryOnReturns, HandOver
<1>8. ASSUME NEW t \in Threads, UndoClose(t) PROVE LockInv'
  BY <1>8 DEF UndoClose
<1>9. ASSUME NEW t \in Threads, UndoSsmr(t) PROVE LockInv'
  BY <1>9 DEF UndoSsmr, TryOnReturns, HandOver
<1>10. ASSUME NEW t \in Threads, AllocReady(t) PROVE LockInv'
  BY <1>10 DEF AllocReady
<1>11. ASSUME NEW t \in Threads, MemAlloc(t) PROVE LockInv'
  BY <1>11 DEF MemAlloc
<1>12. ASSUME NEW t \in Threads, RefInc(t) PROVE LockInv'
  BY <1>12 DEF RefInc, HandOver
<1>13. ASSUME NEW t \in Threads, FreeStart(t) PROVE LockInv'
  BY <1>13 DEF FreeStart
<1>14. ASSUME NEW t \in Threads, IsRegionOn(t) PROVE LockInv'
  BY <1>14 DEF IsRegionOn, Lose
<1>15. ASSUME NEW t \in Threads, FreeReady(t) PROVE LockInv'
  BY <1>15 DEF FreeReady, Lose
<1>16. ASSUME NEW t \in Threads, MemFree(t) PROVE LockInv'
  BY <1>16 DEF MemFree, Lose
<1>17. ASSUME NEW t \in Threads, RefDec(t) PROVE LockInv'
  BY <1>17 DEF RefDec
<1>18. ASSUME NEW t \in Threads, Offline(t) PROVE LockInv'
  BY <1>18 DEF Offline
<1>19. CASE WorkRun
  BY <1>19 DEF WorkRun
<1>20. CASE DeferOff
  BY <1>20 DEF DeferOff
<1>21. CASE MemRemove
  BY <1>21 DEF MemRemove, TryOffFails, CanReclaim
<1>22. CASE SessionClose
  BY <1>22 DEF SessionClose, TryOffFails
<1>23. CASE SsmrPut
  BY <1>23 DEF SsmrPut
<1>24. CASE UNCHANGED vars
  BY <1>24 DEF vars
<1>25. QED
  BY <1>1, <1>2, <1>3, <1>4, <1>5, <1>6, <1>7, <1>8, <1>9, <1>10, <1>11, <1>12, <1>13,
     <1>14, <1>15, <1>16, <1>17, <1>18, <1>19, <1>20, <1>21, <1>22, <1>23, <1>24
     DEF Next, Alloc, Unref, PowerOn, DeferOffWork

\* The steps of power on and power off keep the owners of the region in order.
LEMMA PowerStep == TypeOK /\ LockInv /\ PowerInv /\ [Next]_vars => PowerInv'
<1> SUFFICES ASSUME TypeOK, LockInv, PowerInv, [Next]_vars PROVE PowerInv'
  OBVIOUS
<1> USE ProcAssumption DEF TypeOK, LockInv, PowerInv, Procs, ThreadPcs, WorkerPcs, FreePcs,
      OnPcs, OffPcs, At, Goto, workVars, ssmrVars, peerVars
<1>1. ASSUME NEW t \in Threads, AllocStart(t) PROVE PowerInv'
  BY <1>1 DEF AllocStart
<1>2. ASSUME NEW t \in Threads, CancelBegin(t) PROVE PowerInv'
  BY <1>2 DEF CancelBegin
<1>3. ASSUME NEW t \in Threads, CancelEnd(t) PROVE PowerInv'
  BY <1>3 DEF CancelEnd
<1>4. ASSUME NEW t \in Threads, Online(t) PROVE PowerInv'
  BY <1>4 DEF Online
<1>5. ASSUME NEW t \in Threads, SsmrGet(t) PROVE PowerInv'
  BY <1>5 DEF SsmrGet, TryOnReturns, HandOver
<1>6. ASSUME NEW t \in Threads, SessionOpen(t) PROVE PowerInv'
  BY <1>6 DEF SessionOpen
<1>7. ASSUME NEW t \in Threads, MemAdd(t) PROVE PowerInv'
  BY <1>7 DEF MemAdd, TryOnReturns, HandOver
<1>8. ASSUME NEW t \in Threads, UndoClose(t) PROVE PowerInv'
  BY <1>8 DEF UndoClose
<1>9. ASSUME NEW t \in Threads, UndoSsmr(t) PROVE PowerInv'
  BY <1>9 DEF UndoSsmr, TryOnReturns, HandOver
<1>10. ASSUME NEW t \in Threads, AllocReady(t) PROVE PowerInv'
  BY <1>10 DEF AllocReady
<1>11. ASSUME NEW t \in Threads, MemAlloc(t) PROVE PowerInv'
  BY <1>11 DEF MemAlloc
<1>12. ASSUME NEW t \in Threads, RefInc(t) PROVE PowerInv'
  BY <1>12 DEF RefInc, HandOver
<1>13. ASSUME NEW t \in Threads, FreeStart(t) PROVE PowerInv'
  BY <1>13 DEF FreeStart
<1>14. ASSUME NEW t \in Threads, IsRegionOn(t) PROVE PowerInv'
  BY <1>14 DEF IsRegionOn, Lose
<1>15. ASSUME NEW t \in Threads, FreeReady(t) PROVE PowerInv'
  BY <1>15 DEF FreeReady, Lose
<1>16. ASSUME NEW t \in Threads, MemFree(t) PROVE PowerInv'
  BY <1>16 DEF MemFree, Lose
<1>17. ASSUME NEW t \in Threads, RefDec(t) PROVE PowerInv'
  BY <1>17 DEF RefDec
<1>18. ASSUME NEW t \in Threads, Offline(t) PROVE PowerInv'
  BY <1>18 DEF Offline
<1>19. CASE WorkRun
  BY <1>19 DEF WorkRun
<1>20. CASE DeferOff
  BY <1>20 DEF DeferOff
<1>21. CASE MemRemove
  BY <1>21 DEF MemRemove, TryOffFails, CanReclaim
<1>22. CASE SessionClose
  BY <1>22 DEF SessionClose, TryOffFails
<1>23. CASE SsmrPut
  BY <1>23 DEF SsmrPut
<1>24. CASE UNCHANGED vars
  BY <1>24 DEF vars
<1>25. QED
  BY <1>1, <1>2, <1>3, <1>4, <1>5, <1>6, <1>7, <1>8, <1>9, <1>10, <1>11, <1>12, <1>13,
     <1>14, <1>15, <1>16, <1>17, <1>18, <1>19, <1>20, <1>21, <1>22, <1>23, <1>24
     DEF Next, Alloc, Unref, PowerOn, DeferOffWork

\* A handle is worked on by one thread at a time.
LEMMA MineStep == TypeOK /\ LockInv /\ MineInv /\ [Next]_vars => MineInv'
<1> SUFFICES ASSUME TypeOK, LockInv, MineInv, [Next]_vars PROVE MineInv'
  OBVIOUS
<1> USE ProcAssumption, HandleAssumption DEF TypeOK, LockInv, MineInv, WorksOn, Stages, Procs, ThreadPcs, WorkerPcs, FreePcs,
      OnPcs, OffPcs, At, Goto, workVars, ssmrVars, peerVars
<1>1. ASSUME NEW t \in Threads, AllocStart(t) PROVE MineInv'
  BY <1>1 DEF AllocStart
<1>2. ASSUME NEW t \in Threads, CancelBegin(t) PROVE MineInv'
  BY <1>2 DEF CancelBegin
<1>3. ASSUME NEW t \in Threads, CancelEnd(t) PROVE MineInv'
  BY <1>3 DEF CancelEnd
<1>4. ASSUME NEW t \in Threads, Online(t) PROVE MineInv'
  BY <1>4 DEF Online
<1>5. ASSUME NEW t \in Threads, SsmrGet(t) PROVE MineInv'
  BY <1>5 DEF SsmrGet, TryOnReturns, HandOver
<1>6. ASSUME NEW t \in Threads, SessionOpen(t) PROVE MineInv'
  BY <1>6 DEF SessionOpen
<1>7. ASSUME NEW t \in Threads, MemAdd(t) PROVE MineInv'
  BY <1>7 DEF MemAdd, TryOnReturns, HandOver
<1>8. ASSUME NEW t \in Threads, UndoClose(t) PROVE MineInv'
  BY <1>8 DEF UndoClose
<1>9. ASSUME NEW t \in Threads, UndoSsmr(t) PROVE MineInv'
  BY <1>9 DEF UndoSsmr, TryOnReturns, HandOver
<1>10. ASSUME NEW t \in Threads, AllocReady(t) PROVE MineInv'
  BY <1>10 DEF AllocReady
<1>11. ASSUME NEW t \in Threads, MemAlloc(t) PROVE MineInv'
  BY <1>11 DEF MemAlloc
<1>12. ASSUME NEW t \in Threads, RefInc(t) PROVE MineInv'
  BY <1>12 DEF RefInc, HandOver
<1>13. ASSUME NEW t \in Threads, FreeStart(t) PROVE MineInv'
  BY <1>13 DEF FreeStart
<1>14. ASSUME NEW t \in Threads, IsRegionOn(t) PROVE MineInv'
  BY <1>14 DEF IsRegionOn, Lose
<1>15. ASSUME NEW t \in Threads, FreeReady(t) PROVE MineInv'
  BY <1>15 DEF FreeReady, Lose
<1>16. ASSUME NEW t \in Threads, MemFree(t) PROVE MineInv'
  BY <1>16 DEF MemFree, Lose
<1>17. ASSUME NEW t \in Threads, RefDec(t) PROVE MineInv'
  BY <1>17 DEF RefDec
<1>18. ASSUME NEW t \in Threads, Offline(t) PROVE MineInv'
  BY <1>18 DEF Offline
<1>19. CASE WorkRun
  BY <1>19 DEF WorkRun
<1>20. CASE DeferOff
  BY <1>20 DEF DeferOff
<1>21. CASE MemRemove
  BY <1>21 DEF MemRemove, TryOffFails, CanReclaim
<1>22. CASE SessionClose
  BY <1>22 DEF SessionClose, TryOffFails
<1>23. CASE SsmrPut
  BY <1>23 DEF SsmrPut
<1>24. CASE UNCHANGED vars
  BY <1>24 DEF vars
<1>25. QED
  BY <1>1, <1>2, <1>3, <1>4, <1>5, <1>6, <1>7, <1>8, <1>9, <1>10, <1>11, <1>12, <1>13,
     <1>14, <1>15, <1>16, <1>17, <1>18, <1>19, <1>20, <1>21, <1>22, <1>23, <1>24
     DEF Next, Alloc, Unref, PowerOn, DeferOffWork

\* The trusted OS keeps every chunk that has not been freed.
LEMMA TeeStep == TypeOK /\ LockInv /\ PowerInv /\ MineInv /\ TeeInv /\ [Next]_vars => TeeInv'
<1> SUFFICES ASSUME TypeOK, LockInv, PowerInv, MineInv, TeeInv, [Next]_vars PROVE TeeInv'
  OBVIOUS
<1> USE ProcAssumption, HandleAssumption DEF TypeOK, LockInv, PowerInv, MineInv, TeeInv, WorksOn, Stages,
      Procs, ThreadPcs, WorkerPcs, FreePcs,
      OnPcs, OffPcs, At, Goto, workVars, ssmrVars, peerVars
<1>1. ASSUME NEW t \in Threads, AllocStart(t) PROVE TeeInv'
  BY <1>1 DEF AllocStart
<1>2. ASSUME NEW t \in Threads, CancelBegin(t) PROVE TeeInv'
  BY <1>2 DEF CancelBegin
<1>3. ASSUME NEW t \in Threads, CancelEnd(t) PROVE TeeInv'
  BY <1>3 DEF CancelEnd
<1>4. ASSUME NEW t \in Threads, Online(t) PROVE TeeInv'
  BY <1>4 DEF Online
<1>5. ASSUME NEW t \in Threads, SsmrGet(t) PROVE TeeInv'
  BY <1>5 DEF SsmrGet, TryOnReturns, HandOver
<1>6. ASSUME NEW t \in Threads, SessionOpen(t) PROVE TeeInv'
  BY <1>6 DEF SessionOpen
<1>7. ASSUME NEW t \in Threads, MemAdd(t) PROVE TeeInv'
  BY <1>7 DEF MemAdd, TryOnReturns, HandOver
<1>8. ASSUME NEW t \in Threads, UndoClose(t) PROVE TeeInv'
  BY <1>8 DEF UndoClose
<1>9. ASSUME NEW t \in Threads, UndoSsmr(t) PROVE TeeInv'
  BY <1>9 DEF UndoSsmr, TryOnReturns, HandOver
<1>10. ASSUME NEW t \in Threads, AllocReady(t) PROVE TeeInv'
  BY <1>10 DEF AllocReady
<1>11. ASSUME NEW t \in Threads, MemAlloc(t) PROVE TeeInv'
  BY <1>11 DEF MemAlloc
<1>12. ASSUME NEW t \in Threads, RefInc(t) PROVE TeeInv'
  BY <1>12 DEF RefInc, HandOver
<1>13. ASSUME NEW t \in Threads, FreeStart(t) PROVE TeeInv'
  BY <1>13 DEF FreeStart
<1>14. ASSUME NEW t \in Threads, IsRegionOn(t) PROVE TeeInv'
  BY <1>14 DEF IsRegionOn, Lose
<1>15. ASSUME NEW t \in Threads, FreeReady(t) PROVE TeeInv'
  BY <1>15 DEF FreeReady, Lose
<1>16. ASSUME NEW t \in Threads, MemFree(t) PROVE TeeInv'
  BY <1>16 DEF MemFree, Lose
<1>17. ASSUME NEW t \in Threads, RefDec(t) PROVE TeeInv'
  BY <1>17 DEF RefDec
<1>18. ASSUME NEW t \in Threads, Offline(t) PROVE TeeInv'
  BY <1>18 DEF Offline
<1>19. CASE WorkRun
  BY <1>19 DEF WorkRun
<1>20. CASE DeferOff
  BY <1>20 DEF DeferOff
<1>21. CASE MemRemove
  BY <1>21 DEF MemRemove, TryOffFails, CanReclaim
<1>22. CASE SessionClose
  BY <1>22 DEF SessionClose, TryOffFails
<1>23. CASE SsmrPut
  BY <1>23 DEF SsmrPut
<1>24. CASE UNCHANGED vars
  BY <1>24 DEF vars
<1>25. QED
  BY <1>1, <1>2, <1>3, <1>4, <1>5, <1>6, <1>7, <1>8, <1>9, <1>10, <1>11, <1>12, <1>13,
     <1>14, <1>15, <1>16, <1>17, <1>18, <1>19, <1>20, <1>21, <1>22, <1>23, <1>24
     DEF Next, Alloc, Unref, PowerOn, DeferOffWork

\* A chunk is counted once when it enters its stages and once when it leaves them.
LEMMA CountStep == TypeOK /\ MineInv /\ RefCounts /\ [Next]_vars => RefCounts'
<1> SUFFICES ASSUME TypeOK, MineInv, RefCounts, [Next]_vars PROVE RefCounts'
  OBVIOUS
<1> USE ProcAssumption, HandleAssumption DEF TypeOK, MineInv, WorksOn, RefCounts, Stages,
      Procs, ThreadPcs, WorkerPcs, FreePcs,
      OnPcs, OffPcs, At, Goto, workVars, ssmrVars, peerVars
<1>0. IsFiniteSet(Counted) /\ IsFiniteSet(NotFreed)
  BY FS_Subset DEF Counted, NotFreed
<1>1. ASSUME NEW t \in Threads, AllocStart(t) PROVE RefCounts'
  <2>1. Counted' = Counted /\ NotFreed' = NotFreed
    BY <1>1 DEF AllocStart, Counted, NotFreed
  <2>2. QED
    BY <1>1, <2>1 DEF AllocStart
<1>2. ASSUME NEW t \in Threads, CancelBegin(t) PROVE RefCounts'
  <2>1. Counted' = Counted /\ NotFreed' = NotFreed
    BY <1>2 DEF CancelBegin, Counted, NotFreed
  <2>2. QED
    BY <1>2, <2>1 DEF CancelBegin
<1>3. ASSUME NEW t \in Threads, CancelEnd(t) PROVE RefCounts'
  <2>1. Counted' = Counted /\ NotFreed' = NotFreed
    BY <1>3 DEF CancelEnd, Counted, NotFreed
  <2>2. QED
    BY <1>3, <2>1 DEF CancelEnd
<1>4. ASSUME NEW t \in Threads, Online(t) PROVE RefCounts'
  <2>1. Counted' = Counted /\ NotFreed' = NotFreed
    BY <1>4 DEF Online, Counted, NotFreed
  <2>2. QED
    BY <1>4, <2>1 DEF Online
<1>5. ASSUME NEW t \in Threads, SsmrGet(t) PROVE RefCounts'
  <2>1. Counted' = Counted /\ NotFreed' = NotFreed
    BY <1>5 DEF SsmrGet, TryOnReturns, HandOver, Counted, NotFreed
  <2>2. QED
    BY <1>5, <2>1 DEF SsmrGet, TryOnReturns, HandOver
<1>6. ASSUME NEW t \in Threads, SessionOpen(t) PROVE RefCounts'
  <2>1. Counted' = Counted /\ NotFreed' = NotFreed
    BY <1>6 DEF SessionOpen, Counted, NotFreed
  <2>2. QED
    BY <1>6, <2>1 DEF SessionOpen
<1>7. ASSUME NEW t \in Threads, MemAdd(t) PROVE RefCounts'
  <2>1. Counted' = Counted /\ NotFreed' = NotFreed
    BY <1>7 DEF MemAdd, TryOnReturns, HandOver, Counted, NotFreed
  <2>2. QED
    BY <1>7, <2>1 DEF MemAdd, TryOnReturns, HandOver
<1>8. ASSUME NEW t \in Threads, UndoClose(t) PROVE RefCounts'
  <2>1. Counted' = Counted /\ NotFreed' = NotFreed
    BY <1>8 DEF UndoClose, Counted, NotFreed
  <2>2. QED
    BY <1>8, <2>1 DEF UndoClose
<1>9. ASSUME NEW t \in Threads, UndoSsmr(t) PROVE RefCounts'
  <2>1. Counted' = Counted /\ NotFreed' = NotFreed
    BY <1>9 DEF UndoSsmr, TryOnReturns, HandOver, Counted, NotFreed
  <2>2. QED
    BY <1>9, <2>1 DEF UndoSsmr, TryOnReturns, HandOver
<1>10. ASSUME NEW t \in Threads, AllocReady(t) PROVE RefCounts'
  <2>1. Counted' = Counted /\ NotFreed' = NotFreed
    BY <1>10 DEF AllocReady, Counted, NotFreed
  <2>2. QED
    BY <1>10, <2>1 DEF AllocReady
<1>11. ASSUME NEW t \in Threads, MemAlloc(t) PROVE RefCounts'
  <2>1. CASE UNCHANGED chunk /\ ref_chunks' = ref_chunks
    BY <1>11, <2>1 DEF MemAlloc, Counted, NotFreed
  <2>2. ASSUME NEW h \in Handles, chunk[h] = "none", chunk' = [chunk EXCEPT ![h] = "new"],
               ref_chunks' = ref_chunks + 1, valid_ref_count' = valid_ref_count
        PROVE RefCounts'
    <3>1. Counted' = Counted /\ NotFreed' = NotFreed \cup {h} /\ h \notin NotFreed
      BY <2>2 DEF Counted, NotFreed
    <3>2. Cardinality(NotFreed') = Cardinality(NotFreed) + 1
      BY <1>0, <3>1, FS_AddElement
    <3>3. QED
      BY <2>2, <3>1, <3>2
  <2>3. QED
    BY <1>11, <2>1, <2>2 DEF MemAlloc
<1>12. ASSUME NEW t \in Threads, RefInc(t) PROVE RefCounts'
  <2>1. PICK h \in Handles : h = mine[t] /\ chunk[h] = "new"
    BY <1>12 DEF RefInc
  <2>2. PICK s \in {"held", "ref"} : chunk' = [chunk EXCEPT ![h] = s]
    BY <1>12, <2>1 DEF RefInc, HandOver
  <2>3. Counted' = Counted \cup {h} /\ h \notin Counted /\ NotFreed' = NotFreed
    BY <2>1, <2>2 DEF Counted, NotFreed
  <2>4. Cardinality(Counted') = Cardinality(Counted) + 1
    BY <1>0, <2>3, FS_AddElement
  <2>5. QED
    BY <1>12, <2>3, <2>4 DEF RefInc
<1>13. ASSUME NEW t \in Threads, FreeStart(t) PROVE RefCounts'
  <2>1. Counted' = Counted /\ NotFreed' = NotFreed
    BY <1>13 DEF FreeStart, Counted, NotFreed
  <2>2. QED
    BY <1>13, <2>1 DEF FreeStart
<1>14. ASSUME NEW t \in Threads, IsRegionOn(t) PROVE RefCounts'
  <2>1. Counted' = Counted /\ NotFreed' = NotFreed
    BY <1>14 DEF IsRegionOn, Lose, Counted, NotFreed
  <2>2. QED
    BY <1>14, <2>1 DEF IsRegionOn, Lose
<1>15. ASSUME NEW t \in Threads, FreeReady(t) PROVE RefCounts'
  <2>1. Counted' = Counted /\ NotFreed' = NotFreed
    BY <1>15 DEF FreeReady, Lose, Counted, NotFreed
  <2>2. QED
    BY <1>15, <2>1 DEF FreeReady, Lose
<1>16. ASSUME NEW t \in Threads, MemFree(t) PROVE RefCounts'
  <2>1. PICK h \in Handles : h = mine[t] /\ chunk[h] = "freeing"
    BY <1>16 DEF MemFree
  <2>2. CASE Lose(t) /\ ref_chunks' = ref_chunks
    <3>1. Counted' = Counted /\ NotFreed' = NotFreed
      BY <2>1, <2>2 DEF Lose, Counted, NotFreed
    <3>2. QED
      BY <1>16, <2>2, <3>1 DEF MemFree
  <2>3. CASE /\ chunk' = [chunk EXCEPT ![h] = "unref"]
             /\ ref_chunks' = IF ref_chunks = 0 THEN 0 ELSE ref_chunks - 1
    <3>1. Counted' = Counted /\ NotFreed' = NotFreed \ {h} /\ h \in NotFreed
      BY <2>1, <2>3 DEF Counted, NotFreed
    <3>2. /\ Cardinality(NotFreed') = Cardinality(NotFreed) - 1
          /\ Cardinality(NotFreed) # 0
      BY <1>0, <3>1, FS_RemoveElement, FS_EmptySet
    <3>3. valid_ref_count' = valid_ref_count
      BY <1>16 DEF MemFree
    <3>4. QED
      BY <2>3, <3>1, <3>2, <3>3
  <2>4. QED
    BY <1>16, <2>1, <2>2, <2>3 DEF MemFree
<1>17. ASSUME NEW t \in Threads, RefDec(t) PROVE RefCounts'
  <2>1. PICK h \in Handles : h = mine[t] /\ chunk[h] = "unref"
    BY <1>17 DEF RefDec
  <2>2. Counted' = Counted \ {h} /\ h \in Counted /\ NotFreed' = NotFreed
    BY <1>17, <2>1 DEF RefDec, Counted, NotFreed
  <2>3. /\ Cardinality(Counted') = Cardinality(Counted) - 1
        /\ Cardinality(Counted) # 0
    BY <1>0, <2>2, FS_RemoveElement, FS_EmptySet
  <2>4. valid_ref_count' = valid_ref_count - 1 /\ ref_chunks' = ref_chunks
    BY <1>17, <2>3 DEF RefDec
  <2>5. QED
    BY <2>2, <2>3, <2>4
<1>18. ASSUME NEW t \in Threads, Offline(t) PROVE RefCounts'
  <2>1. Counted' = Counted /\ NotFreed' = NotFreed
    BY <1>18 DEF Offline, Counted, NotFreed
  <2>2. QED
    BY <1>18, <2>1 DEF Offline
<1>19. CASE WorkRun
  <2>1. Counted' = Counted /\ NotFreed' = NotFreed
    BY <1>19 DEF WorkRun, Counted, NotFreed
  <2>2. QED
    BY <1>19, <2>1 DEF WorkRun
<1>20. CASE DeferOff
  <2>1. Counted' = Counted /\ NotFreed' = NotFreed
    BY <1>20 DEF DeferOff, Counted, NotFreed
  <2>2. QED
    BY <1>20, <2>1 DEF DeferOff
<1>21. CASE MemRemove
  <2>1. Counted' = Counted /\ NotFreed' = NotFreed
    BY <1>21 DEF MemRemove, TryOffFails, CanReclaim, Counted, NotFreed
  <2>2. QED
    BY <1>21, <2>1 DEF MemRemove, TryOffFails, CanReclaim
<1>22. CASE SessionClose
  <2>1. Counted' = Counted /\ NotFreed' = NotFreed
    BY <1>22 DEF SessionClose, TryOffFails, Counted, NotFreed
  <2>2. QED
    BY <1>22, <2>1 DEF SessionClose, TryOffFails
<1>23. CASE SsmrPut
  <2>1. Counted' = Counted /\ NotFreed' = NotFreed
    BY <1>23 DEF SsmrPut, Counted, NotFreed
  <2>2. QED
    BY <1>23, <2>1 DEF SsmrPut
<1>24. CASE UNCHANGED vars
  BY <1>24 DEF vars, Counted, NotFreed
<1>25. QED
  BY <1>1, <1>2, <1>3, <1>4, <1>5, <1>6, <1>7, <1>8, <1>9, <1>10, <1>11, <1>12, <1>13,
     <1>14, <1>15, <1>16, <1>17, <1>18, <1>19, <1>20, <1>21, <1>22, <1>23, <1>24
     DEF Next, Alloc, Unref, PowerOn, DeferOffWork

-----------------------------------------------------------------------------
(* The theorems *)

\* The conjunction that is inductive.
IInv == TypeOK /\ LockInv /\ PowerInv /\ MineInv /\ TeeInv /\ RefCounts

\* The managers start in it.
LEMMA InitInv == Init => IInv
<1> SUFFICES ASSUME Init PROVE IInv
  OBVIOUS
<1>1. TypeOK
  BY InitType
<1>2. LockInv /\ PowerInv /\ MineInv /\ TeeInv
  BY ProcAssumption DEF Init, LockInv, PowerInv, MineInv, TeeInv, Procs, OnPcs, OffPcs, FreePcs
<1>3. Counted = {} /\ NotFreed = {}
  BY DEF Init, Counted, NotFreed
<1>4. RefCounts
  BY <1>3, FS_EmptySet DEF Init, RefCounts
<1>5. QED
  BY <1>1, <1>2, <1>4 DEF IInv

\* Every step keeps it.
LEMMA NextInv == IInv /\ [Next]_vars => IInv'
  BY NextType, LockStep, PowerStep, MineStep, TeeStep, CountStep DEF IInv

\* The invariant holds in every reachable state.
THEOREM Invariance == Spec => []IInv
  BY InitInv, NextInv, PTL DEF Spec

\* Both reference counters are exact: the zero tests of regmgr_region_ref_dec
\* and of peer_mgr_chunk_free_locked never hide an unbalanced decrement.
THEOREM CountersExact == Spec => []RefCounts
<1>1. IInv => RefCounts
  BY DEF IInv
<1>2. QED
  BY <1>1, Invariance, PTL

\* Whatever calls fail, memory the trusted OS owns is not returned to Linux
\* and the session it was granted over is not closed.
THEOREM HandBackSafe == Spec => []NoEarlyHandBack
<1>1. IInv => NoEarlyHandBack
  BY DEF IInv, PowerInv, NoEarlyHandBack
<1>2. QED
  BY <1>1, Invariance, PTL

\* Whatever calls fail, a handle returned by alloc stays valid until it is
\* freed, for every number of threads racing with the deferred off work.
THEOREM HandlesStayValid == Spec => []HandleValid
<1>1. IInv => HandleValid
  BY DEF IInv, PowerInv, TeeInv, HandleValid, InUse
<1>2. QED
  BY <1>1, Invariance, PTL

-----------------------------------------------------------------------------
(* TrustedMem implements SecureRegion *)

\* Every step of the subsystem is a step of SecureRegion or leaves the owner
\* of the region and the delivered handles alone.
LEMMA AbstractStep ==
  ASSUME ReclaimRefusesBusy, IInv, [Next]_vars
  PROVE [Abstract!Next]_<<Owner, InUse>>
<1> USE ProcAssumption, HandleAssumption DEF Procs, ThreadPcs, WorkerPcs, FreePcs,
      OnPcs, OffPcs, At, Goto, workVars, ssmrVars, peerVars, WorksOn
<1> DEFINE Stutter == Owner' = Owner /\ InUse' = InUse
<1>1. ASSUME NEW t \in Threads, pc[t] \in OnPcs PROVE mine[t] = NoHandle
  BY <1>1 DEF IInv, PowerInv, MineInv, TeeInv, TypeOK
<1>2. ASSUME NEW t \in Threads,
             AllocStart(t) \/ CancelBegin(t) \/ CancelEnd(t) \/ Online(t) \/ SessionOpen(t)
               \/ UndoClose(t) \/ AllocReady(t) \/ Offline(t)
      PROVE Stutter
  BY <1>2 DEF Owner, InUse, AllocStart, CancelBegin, CancelEnd, Online, SessionOpen, UndoClose,
     AllocReady, Offline
<1>3. ASSUME NEW t \in Threads, SsmrGet(t) PROVE Stutter \/ Abstract!Carve
  BY <1>1, <1>3 DEF Owner, InUse, SsmrGet, TryOnReturns, IInv, PowerInv, Abstract!Carve, Abstract!Move
<1>4. ASSUME NEW t \in Threads, MemAdd(t) PROVE Stutter \/ Abstract!Grant
  BY <1>1, <1>4 DEF Owner, InUse, MemAdd, TryOnReturns, IInv, PowerInv, Abstract!Grant, Abstract!Move
<1>5. ASSUME NEW t \in Threads, UndoSsmr(t) PROVE Stutter \/ Abstract!Restore
  BY <1>1, <1>5 DEF Owner, InUse, UndoSsmr, TryOnReturns, IInv, PowerInv, Abstract!Restore, Abstract!Move
<1>6. ASSUME NEW t \in Threads, MemAlloc(t) PROVE Stutter
  BY <1>6 DEF Owner, InUse, MemAlloc, IInv, TypeOK
<1>7. ASSUME NEW t \in Threads, RefInc(t) PROVE \E h \in Handles : Abstract!Deliver(h)
  <2>1. mine[t] \in Handles /\ chunk[mine[t]] = "new" /\ Owner = "tee" /\ state = "ON"
    BY <1>7 DEF RefInc, IInv, MineInv, TeeInv, PowerInv, Owner
  <2>2. Owner' = Owner
    BY <1>7 DEF RefInc, Owner
  <2>3. InUse' = InUse \cup {mine[t]} /\ mine[t] \notin InUse
    BY <1>7, <2>1 DEF RefInc, HandOver, InUse, IInv, TypeOK
  <2>4. QED
    BY <2>1, <2>2, <2>3 DEF Abstract!Deliver
<1>8. ASSUME NEW t \in Threads, FreeStart(t) PROVE Stutter
  BY <1>8 DEF Owner, InUse, FreeStart, IInv, TypeOK
<1>9. ASSUME NEW t \in Threads, IsRegionOn(t) \/ FreeReady(t) \/ MemFree(t)
      PROVE Stutter \/ \E h \in Handles : Abstract!Release(h)
  <2>1. mine[t] \in InUse /\ mine[t] \in Handles
    BY <1>9 DEF IsRegionOn, FreeReady, MemFree, IInv, MineInv, InUse
  <2>2. Owner' = Owner
    BY <1>9 DEF IsRegionOn, FreeReady, MemFree, Owner
  <2>3. InUse' = InUse \/ InUse' = InUse \ {mine[t]}
    BY <1>9, <2>1 DEF IsRegionOn, FreeReady, MemFree, Lose, InUse, IInv, TypeOK
  <2>4. QED
    BY <2>1, <2>2, <2>3 DEF Abstract!Release
<1>10. ASSUME NEW t \in Threads, RefDec(t) PROVE Stutter
  BY <1>10 DEF Owner, InUse, RefDec, IInv, TypeOK, MineInv
<1>11. CASE WorkRun \/ DeferOff \/ SessionClose
  BY <1>11 DEF Owner, InUse, WorkRun, DeferOff, SessionClose
<1>12. CASE MemRemove
  <2>1. teeChunks = {} => InUse = {}
    BY DEF IInv, TeeInv, InUse
  <2>2. InUse' = InUse
    BY <1>12 DEF MemRemove, InUse
  <2>3. CASE CanReclaim /\ granted' = FALSE
    BY <1>12, <2>1, <2>2, <2>3 DEF MemRemove, CanReclaim, Owner, IInv, PowerInv, Abstract!Next,
       Abstract!Reclaim, Abstract!Move
  <2>4. CASE granted' = granted
    BY <1>12, <2>2, <2>4 DEF MemRemove, Owner
  <2>5. QED
    BY <1>12, <2>3, <2>4 DEF MemRemove
<1>13. CASE SsmrPut
  BY <1>13 DEF SsmrPut, Owner, InUse, IInv, PowerInv, Abstract!Next, Abstract!Restore, Abstract!Move
<1>14. CASE UNCHANGED vars
  BY <1>14 DEF vars, Owner, InUse
<1>15. QED
  BY <1>2, <1>3, <1>4, <1>5, <1>6, <1>7, <1>8, <1>9, <1>10, <1>11, <1>12, <1>13, <1>14
     DEF Next, Alloc, Unref, PowerOn, DeferOffWork, Abstract!Next

\* With a trusted OS that does not reclaim memory in use, the subsystem keeps
\* the ownership promise of SecureRegion, whichever other calls fail.
THEOREM Refinement == ASSUME ReclaimRefusesBusy PROVE Spec => AbstractSpec
<1>1. Init => Abstract!Init
  BY DEF Init, Abstract!Init, Owner, InUse
<1>2. IInv /\ [Next]_vars => [Abstract!Next]_<<Owner, InUse>>
  BY AbstractStep
<1>3. QED
  BY <1>1, <1>2, Invariance, PTL DEF Spec, AbstractSpec, Abstract!Spec
=============================================================================
