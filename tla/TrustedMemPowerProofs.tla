----------------------- MODULE TrustedMemPowerProofs -----------------------
(***************************************************************************)
(* Theorems about TrustedMem that relate the region manager, the session   *)
(* and the SSMR to each other and to the deferred off work, for any number *)
(* of threads and handles.                                                 *)
(***************************************************************************)
EXTENDS TrustedMemProofs

-----------------------------------------------------------------------------
(* The parts of the inductive invariant *)

\* A region that is on has been taken from Linux.
OnInv == state = "ON" => ssmr = "OFF"

\* Poweroff stops after it has reclaimed the memory only when closing the
\* session fails, so but for that a region that is on is granted except inside
\* poweroff; a session outlives the region only where it is kept alive on
\* purpose or could not be closed.
GrantInv ==
    /\ "close" \in failed => "session_close" \in FaultOps
    /\ state = "ON" /\ pc[Worker] \notin {"close", "ssmr_put"} => granted \/ "close" \in failed
    /\ state = "ON" /\ pc[Worker] # "ssmr_put" => opened
    /\ pc[Worker] = "ssmr_put" /\ opened => SessionKeepAlive
    /\ state = "OFF" /\ opened =>
          \/ SessionKeepAlive \/ "close" \in failed
          \/ \E t \in Threads : pc[t] \in {"grant", "undo_close"}

\* Memory taken from Linux for a region that is off is in the hands of a thread
\* inside poweron, unless the SSMR reported an unusable region.
UndoInv ==
    state = "OFF" /\ ssmr = "OFF" =>
        "addr" \in failed \/ \E t \in Threads : pc[t] \in OnPcs \ {"ssmr_get"}

\* The count the deferred off work has tested stays zero under REGMGR_LOCK.
HeldInv == pc[Worker] \in OffPcs => Counted = {}

\* The thread inside cancel_delayed_work_sync is the one that blocks queueing.
CancelInv == \A t \in Threads : pc[t] = "flush" <=> canceler = t

\* A chunk that is not counted yet is on its way to regmgr_region_ref_inc.
NewInv == \A h \in Handles : chunk[h] = "new" => \E t \in Threads : mine[t] = h /\ pc[t] = "inc"

\* The trusted OS knows no chunk that was freed.
KnownInv == \A h \in teeChunks : chunk[h] \in {"new", "ref", "held", "freeing", "leaked"}

-----------------------------------------------------------------------------
(* Every step keeps them *)

\* The SSMR is turned on only when the region is off or goes off.
LEMMA OnStep == TypeOK /\ LockInv /\ PowerInv /\ OnInv /\ [Next]_vars => OnInv'
<1> SUFFICES ASSUME TypeOK, LockInv, PowerInv, OnInv, [Next]_vars PROVE OnInv'
  OBVIOUS
<1> USE ProcAssumption, HandleAssumption DEF TypeOK, LockInv, PowerInv, OnInv, Procs, ThreadPcs,
      WorkerPcs, FreePcs, OnPcs, OffPcs, At, Goto, workVars, ssmrVars, peerVars
<1>1. ASSUME NEW t \in Threads, AllocStart(t) PROVE OnInv'
  BY <1>1 DEF AllocStart
<1>2. ASSUME NEW t \in Threads, CancelBegin(t) PROVE OnInv'
  BY <1>2 DEF CancelBegin
<1>3. ASSUME NEW t \in Threads, CancelEnd(t) PROVE OnInv'
  BY <1>3 DEF CancelEnd
<1>4. ASSUME NEW t \in Threads, Online(t) PROVE OnInv'
  BY <1>4 DEF Online
<1>5. ASSUME NEW t \in Threads, SsmrGet(t) PROVE OnInv'
  BY <1>5 DEF SsmrGet, TryOnReturns, HandOver
<1>6. ASSUME NEW t \in Threads, SessionOpen(t) PROVE OnInv'
  BY <1>6 DEF SessionOpen
<1>7. ASSUME NEW t \in Threads, MemAdd(t) PROVE OnInv'
  BY <1>7 DEF MemAdd, TryOnReturns, HandOver
<1>8. ASSUME NEW t \in Threads, UndoClose(t) PROVE OnInv'
  BY <1>8 DEF UndoClose
<1>9. ASSUME NEW t \in Threads, UndoSsmr(t) PROVE OnInv'
  BY <1>9 DEF UndoSsmr, TryOnReturns, HandOver
<1>10. ASSUME NEW t \in Threads, AllocReady(t) PROVE OnInv'
  BY <1>10 DEF AllocReady
<1>11. ASSUME NEW t \in Threads, MemAlloc(t) PROVE OnInv'
  BY <1>11 DEF MemAlloc
<1>12. ASSUME NEW t \in Threads, RefInc(t) PROVE OnInv'
  BY <1>12 DEF RefInc, HandOver
<1>13. ASSUME NEW t \in Threads, FreeStart(t) PROVE OnInv'
  BY <1>13 DEF FreeStart
<1>14. ASSUME NEW t \in Threads, IsRegionOn(t) PROVE OnInv'
  BY <1>14 DEF IsRegionOn, Lose
<1>15. ASSUME NEW t \in Threads, FreeReady(t) PROVE OnInv'
  BY <1>15 DEF FreeReady, Lose
<1>16. ASSUME NEW t \in Threads, MemFree(t) PROVE OnInv'
  BY <1>16 DEF MemFree, Lose
<1>17. ASSUME NEW t \in Threads, RefDec(t) PROVE OnInv'
  BY <1>17 DEF RefDec
<1>18. ASSUME NEW t \in Threads, Offline(t) PROVE OnInv'
  BY <1>18 DEF Offline
<1>19. CASE WorkRun
  BY <1>19 DEF WorkRun
<1>20. CASE DeferOff
  BY <1>20 DEF DeferOff
<1>21. CASE MemRemove
  BY <1>21 DEF MemRemove, TryOffFails, CanReclaim
<1>22. CASE SessionClose
  BY <1>22 DEF SessionClose, TryOffFails
<1>23. CASE SsmrPut
  BY <1>23 DEF SsmrPut
<1>24. CASE UNCHANGED vars
  BY <1>24 DEF vars
<1>25. QED
  BY <1>1, <1>2, <1>3, <1>4, <1>5, <1>6, <1>7, <1>8, <1>9, <1>10, <1>11, <1>12, <1>13,
     <1>14, <1>15, <1>16, <1>17, <1>18, <1>19, <1>20, <1>21, <1>22, <1>23, <1>24
     DEF Next, Alloc, Unref, PowerOn, DeferOffWork

\* Power on, its undo path and power off move state, grant and session together.
LEMMA GrantStep == TypeOK /\ LockInv /\ PowerInv /\ OnInv /\ GrantInv /\ [Next]_vars => GrantInv'
<1> SUFFICES ASSUME TypeOK, LockInv, PowerInv, OnInv, GrantInv, [Next]_vars PROVE GrantInv'
  OBVIOUS
<1> USE ProcAssumption, HandleAssumption DEF TypeOK, LockInv, PowerInv, OnInv, GrantInv, MayFail, Procs, ThreadPcs,
      WorkerPcs, FreePcs, OnPcs, OffPcs, At, Goto, workVars, ssmrVars, peerVars
<1>1. ASSUME NEW t \in Threads, AllocStart(t) PROVE GrantInv'
  BY <1>1 DEF AllocStart
<1>2. ASSUME NEW t \in Threads, CancelBegin(t) PROVE GrantInv'
  BY <1>2 DEF CancelBegin
<1>3. ASSUME NEW t \in Threads, CancelEnd(t) PROVE GrantInv'
  BY <1>3 DEF CancelEnd
<1>4. ASSUME NEW t \in Threads, Online(t) PROVE GrantInv'
  BY <1>4 DEF Online
<1>5. ASSUME NEW t \in Threads, SsmrGet(t) PROVE GrantInv'
  BY <1>5 DEF SsmrGet, TryOnReturns, HandOver
<1>6. ASSUME NEW t \in Threads, SessionOpen(t) PROVE GrantInv'
  BY <1>6 DEF SessionOpen
<1>7. ASSUME NEW t \in Threads, MemAdd(t) PROVE GrantInv'
  BY <1>7 DEF MemAdd, TryOnReturns, HandOver
<1>8. ASSUME NEW t \in Threads, UndoClose(t) PROVE GrantInv'
  BY <1>8 DEF UndoClose
<1>9. ASSUME NEW t \in Threads, UndoSsmr(t) PROVE GrantInv'
  BY <1>9 DEF UndoSsmr, TryOnReturns, HandOver
<1>10. ASSUME NEW t \in Threads, AllocReady(t) PROVE GrantInv'
  BY <1>10 DEF AllocReady
<1>11. ASSUME NEW t \in Threads, MemAlloc(t) PROVE GrantInv'
  BY <1>11 DEF MemAlloc
<1>12. ASSUME NEW t \in Threads, RefInc(t) PROVE GrantInv'
  BY <1>12 DEF RefInc, HandOver
<1>13. ASSUME NEW t \in Threads, FreeStart(t) PROVE GrantInv'
  BY <1>13 DEF FreeStart
<1>14. ASSUME NEW t \in Threads, IsRegionOn(t) PROVE GrantInv'
  BY <1>14 DEF IsRegionOn, Lose
<1>15. ASSUME NEW t \in Threads, FreeReady(t) PROVE GrantInv'
  BY <1>15 DEF FreeReady, Lose
<1>16. ASSUME NEW t \in Threads, MemFree(t) PROVE GrantInv'
  BY <1>16 DEF MemFree, Lose
<1>17. ASSUME NEW t \in Threads, RefDec(t) PROVE GrantInv'
  BY <1>17 DEF RefDec
<1>18. ASSUME NEW t \in Threads, Offline(t) PROVE GrantInv'
  BY <1>18 DEF Offline
<1>19. CASE WorkRun
  BY <1>19 DEF WorkRun
<1>20. CASE DeferOff
  BY <1>20 DEF DeferOff
<1>21. CASE MemRemove
  BY <1>21 DEF MemRemove, TryOffFails, CanReclaim
<1>22. CASE SessionClose
  BY <1>22 DEF SessionClose, TryOffFails
<1>23. CASE SsmrPut
  BY <1>23 DEF SsmrPut
<1>24. CASE UNCHANGED vars
  BY <1>24 DEF vars
<1>25. QED
  BY <1>1, <1>2, <1>3, <1>4, <1>5, <1>6, <1>7, <1>8, <1>9, <1>10, <1>11, <1>12, <1>13,
     <1>14, <1>15, <1>16, <1>17, <1>18, <1>19, <1>20, <1>21, <1>22, <1>23, <1>24
     DEF Next, Alloc, Unref, PowerOn, DeferOffWork

\* Every failure of power on after the SSMR went off goes through its undo path.
LEMMA UndoStep == TypeOK /\ LockInv /\ PowerInv /\ OnInv /\ UndoInv /\ [Next]_vars => UndoInv'
<1> SUFFICES ASSUME TypeOK, LockInv, PowerInv, OnInv, UndoInv, [Next]_vars PROVE UndoInv'
  OBVIOUS
<1> USE ProcAssumption, HandleAssumption DEF TypeOK, LockInv, PowerInv, OnInv, UndoInv, MayFail, Procs, ThreadPcs,
      WorkerPcs, FreePcs, OnPcs, OffPcs, At, Goto, workVars, ssmrVars, peerVars
<1>1. ASSUME NEW t \in Threads, AllocStart(t) PROVE UndoInv'
  BY <1>1 DEF AllocStart
<1>2. ASSUME NEW t \in Threads, CancelBegin(t) PROVE UndoInv'
  BY <1>2 DEF CancelBegin
<1>3. ASSUME NEW t \in Threads, CancelEnd(t) PROVE UndoInv'
  BY <1>3 DEF CancelEnd
<1>4. ASSUME NEW t \in Threads, Online(t) PROVE UndoInv'
  BY <1>4 DEF Online
<1>5. ASSUME NEW t \in Threads, SsmrGet(t) PROVE UndoInv'
  BY <1>5 DEF SsmrGet, TryOnReturns, HandOver
<1>6. ASSUME NEW t \in Threads, SessionOpen(t) PROVE UndoInv'
  BY <1>6 DEF SessionOpen
<1>7. ASSUME NEW t \in Threads, MemAdd(t) PROVE UndoInv'
  BY <1>7 DEF MemAdd, TryOnReturns, HandOver
<1>8. ASSUME NEW t \in Threads, UndoClose(t) PROVE UndoInv'
  BY <1>8 DEF UndoClose
<1>9. ASSUME NEW t \in Threads, UndoSsmr(t) PROVE UndoInv'
  BY <1>9 DEF UndoSsmr, TryOnReturns, HandOver
<1>10. ASSUME NEW t \in Threads, AllocReady(t) PROVE UndoInv'
  BY <1>10 DEF AllocReady
<1>11. ASSUME NEW t \in Threads, MemAlloc(t) PROVE UndoInv'
  BY <1>11 DEF MemAlloc
<1>12. ASSUME NEW t \in Threads, RefInc(t) PROVE UndoInv'
  BY <1>12 DEF RefInc, HandOver
<1>13. ASSUME NEW t \in Threads, FreeStart(t) PROVE UndoInv'
  BY <1>13 DEF FreeStart
<1>14. ASSUME NEW t \in Threads, IsRegionOn(t) PROVE UndoInv'
  BY <1>14 DEF IsRegionOn, Lose
<1>15. ASSUME NEW t \in Threads, FreeReady(t) PROVE UndoInv'
  BY <1>15 DEF FreeReady, Lose
<1>16. ASSUME NEW t \in Threads, MemFree(t) PROVE UndoInv'
  BY <1>16 DEF MemFree, Lose
<1>17. ASSUME NEW t \in Threads, RefDec(t) PROVE UndoInv'
  BY <1>17 DEF RefDec
<1>18. ASSUME NEW t \in Threads, Offline(t) PROVE UndoInv'
  BY <1>18 DEF Offline
<1>19. CASE WorkRun
  BY <1>19 DEF WorkRun
<1>20. CASE DeferOff
  BY <1>20 DEF DeferOff
<1>21. CASE MemRemove
  BY <1>21 DEF MemRemove, TryOffFails, CanReclaim
<1>22. CASE SessionClose
  BY <1>22 DEF SessionClose, TryOffFails
<1>23. CASE SsmrPut
  BY <1>23 DEF SsmrPut
<1>24. CASE UNCHANGED vars
  BY <1>24 DEF vars
<1>25. QED
  BY <1>1, <1>2, <1>3, <1>4, <1>5, <1>6, <1>7, <1>8, <1>9, <1>10, <1>11, <1>12, <1>13,
     <1>14, <1>15, <1>16, <1>17, <1>18, <1>19, <1>20, <1>21, <1>22, <1>23, <1>24
     DEF Next, Alloc, Unref, PowerOn, DeferOffWork

\* No chunk is counted while the deferred off work is inside poweroff.
LEMMA HeldStep == TypeOK /\ LockInv /\ MineInv /\ RefCounts /\ HeldInv /\ [Next]_vars => HeldInv'
<1> SUFFICES ASSUME TypeOK, LockInv, MineInv, RefCounts, HeldInv, [Next]_vars PROVE HeldInv'
  OBVIOUS
<1> USE ProcAssumption, HandleAssumption DEF TypeOK, LockInv, MineInv, RefCounts, HeldInv, WorksOn, Stages, Counted, Procs, ThreadPcs,
      WorkerPcs, FreePcs, OnPcs, OffPcs, At, Goto, workVars, ssmrVars, peerVars
<1>0. valid_ref_count = 0 => Counted = {}
  BY FS_Subset, FS_EmptySet
<1>1. ASSUME NEW t \in Threads, AllocStart(t) PROVE HeldInv'
  BY <1>1 DEF AllocStart
<1>2. ASSUME NEW t \in Threads, CancelBegin(t) PROVE HeldInv'
  BY <1>2 DEF CancelBegin
<1>3. ASSUME NEW t \in Threads, CancelEnd(t) PROVE HeldInv'
  BY <1>3 DEF CancelEnd
<1>4. ASSUME NEW t \in Threads, Online(t) PROVE HeldInv'
  BY <1>4 DEF Online
<1>5. ASSUME NEW t \in Threads, SsmrGet(t) PROVE HeldInv'
  BY <1>5 DEF SsmrGet, TryOnReturns, HandOver
<1>6. ASSUME NEW t \in Threads, SessionOpen(t) PROVE HeldInv'
  BY <1>6 DEF SessionOpen
<1>7. ASSUME NEW t \in Threads, MemAdd(t) PROVE HeldInv'
  BY <1>7 DEF MemAdd, TryOnReturns, HandOver
<1>8. ASSUME NEW t \in Threads, UndoClose(t) PROVE HeldInv'
  BY <1>8 DEF UndoClose
<1>9. ASSUME NEW t \in Threads, UndoSsmr(t) PROVE HeldInv'
  BY <1>9 DEF UndoSsmr, TryOnReturns, HandOver
<1>10. ASSUME NEW t \in Threads, AllocReady(t) PROVE HeldInv'
  BY <1>10 DEF AllocReady
<1>11. ASSUME NEW t \in Threads, MemAlloc(t) PROVE HeldInv'
  BY <1>11 DEF MemAlloc
<1>12. ASSUME NEW t \in Threads, RefInc(t) PROVE HeldInv'
  BY <1>12 DEF RefInc, HandOver
<1>13. ASSUME NEW t \in Threads, FreeStart(t) PROVE HeldInv'
  BY <1>13 DEF FreeStart
<1>14. ASSUME NEW t \in Threads, IsRegionOn(t) PROVE HeldInv'
  BY <1>14 DEF IsRegionOn, Lose
<1>15. ASSUME NEW t \in Threads, FreeReady(t) PROVE HeldInv'
  BY <1>15 DEF FreeReady, Lose
<1>16. ASSUME NEW t \in Threads, MemFree(t) PROVE HeldInv'
  BY <1>16 DEF MemFree, Lose
<1>17. ASSUME NEW t \in Threads, RefDec(t) PROVE HeldInv'
  BY <1>17 DEF RefDec
<1>18. ASSUME NEW t \in Threads, Offline(t) PROVE HeldInv'
  BY <1>18 DEF Offline
<1>19. CASE WorkRun
  BY <1>19 DEF WorkRun
<1>20. CASE DeferOff
  BY <1>0, <1>20 DEF DeferOff
<1>21. CASE MemRemove
  BY <1>21 DEF MemRemove, TryOffFails, CanReclaim
<1>22. CASE SessionClose
  BY <1>22 DEF SessionClose, TryOffFails
<1>23. CASE SsmrPut
  BY <1>23 DEF SsmrPut
<1>24. CASE UNCHANGED vars
  BY <1>24 DEF vars
<1>25. QED
  BY <1>1, <1>2, <1>3, <1>4, <1>5, <1>6, <1>7, <1>8, <1>9, <1>10, <1>11, <1>12, <1>13,
     <1>14, <1>15, <1>16, <1>17, <1>18, <1>19, <1>20, <1>21, <1>22, <1>23, <1>24
     DEF Next, Alloc, Unref, PowerOn, DeferOffWork

\* The region is on when ref_inc returns, and power off meets no held chunk.
LEMMA HeldOnStep == TypeOK /\ LockInv /\ PowerInv /\ MineInv /\ HeldInv /\ HeldRegionOn /\ [Next]_vars => HeldRegionOn'
<1> SUFFICES ASSUME TypeOK, LockInv, PowerInv, MineInv, HeldInv, HeldRegionOn, [Next]_vars PROVE HeldRegionOn'
  OBVIOUS
<1> USE ProcAssumption, HandleAssumption DEF TypeOK, LockInv, PowerInv, MineInv, HeldInv, HeldRegionOn, WorksOn, Stages, Counted, InUse, Procs, ThreadPcs,
      WorkerPcs, FreePcs, OnPcs, OffPcs, At, Goto, workVars, ssmrVars, peerVars
<1>1. ASSUME NEW t \in Threads, AllocStart(t) PROVE HeldRegionOn'
  BY <1>1 DEF AllocStart
<1>2. ASSUME NEW t \in Threads, CancelBegin(t) PROVE HeldRegionOn'
  BY <1>2 DEF CancelBegin
<1>3. ASSUME NEW t \in Threads, CancelEnd(t) PROVE HeldRegionOn'
  BY <1>3 DEF CancelEnd
<1>4. ASSUME NEW t \in Threads, Online(t) PROVE HeldRegionOn'
  BY <1>4 DEF Online
<1>5. ASSUME NEW t \in Threads, SsmrGet(t) PROVE HeldRegionOn'
  BY <1>5 DEF SsmrGet, TryOnReturns, HandOver
<1>6. ASSUME NEW t \in Threads, SessionOpen(t) PROVE HeldRegionOn'
  BY <1>6 DEF SessionOpen
<1>7. ASSUME NEW t \in Threads, MemAdd(t) PROVE HeldRegionOn'
  BY <1>7 DEF MemAdd, TryOnReturns, HandOver
<1>8. ASSUME NEW t \in Threads, UndoClose(t) PROVE HeldRegionOn'
  BY <1>8 DEF UndoClose
<1>9. ASSUME NEW t \in Threads, UndoSsmr(t) PROVE HeldRegionOn'
  BY <1>9 DEF UndoSsmr, TryOnReturns, HandOver
<1>10. ASSUME NEW t \in Threads, AllocReady(t) PROVE HeldRegionOn'
  BY <1>10 DEF AllocReady
<1>11. ASSUME NEW t \in Threads, MemAlloc(t) PROVE HeldRegionOn'
  BY <1>11 DEF MemAlloc
<1>12. ASSUME NEW t \in Threads, RefInc(t) PROVE HeldRegionOn'
  BY <1>12 DEF RefInc, HandOver
<1>13. ASSUME NEW t \in Threads, FreeStart(t) PROVE HeldRegionOn'
  BY <1>13 DEF FreeStart
<1>14. ASSUME NEW t \in Threads, IsRegionOn(t) PROVE HeldRegionOn'
  BY <1>14 DEF IsRegionOn, Lose
<1>15. ASSUME NEW t \in Threads, FreeReady(t) PROVE HeldRegionOn'
  BY <1>15 DEF FreeReady, Lose
<1>16. ASSUME NEW t \in Threads, MemFree(t) PROVE HeldRegionOn'
  BY <1>16 DEF MemFree, Lose
<1>17. ASSUME NEW t \in Threads, RefDec(t) PROVE HeldRegionOn'
  BY <1>17 DEF RefDec
<1>18. ASSUME NEW t \in Threads, Offline(t) PROVE HeldRegionOn'
  BY <1>18 DEF Offline
<1>19. CASE WorkRun
  BY <1>19 DEF WorkRun
<1>20. CASE DeferOff
  BY <1>20 DEF DeferOff
<1>21. CASE MemRemove
  BY <1>21 DEF MemRemove, TryOffFails, CanReclaim
<1>22. CASE SessionClose
  BY <1>22 DEF SessionClose, TryOffFails
<1>23. CASE SsmrPut
  BY <1>23 DEF SsmrPut
<1>24. CASE UNCHANGED vars
  BY <1>24 DEF vars
<1>25. QED
  BY <1>1, <1>2, <1>3, <1>4, <1>5, <1>6, <1>7, <1>8, <1>9, <1>10, <1>11, <1>12, <1>13,
     <1>14, <1>15, <1>16, <1>17, <1>18, <1>19, <1>20, <1>21, <1>22, <1>23, <1>24
     DEF Next, Alloc, Unref, PowerOn, DeferOffWork

\* One thread at a time is inside cancel_delayed_work_sync.
LEMMA CancelStep == TypeOK /\ CancelInv /\ [Next]_vars => CancelInv'
<1> SUFFICES ASSUME TypeOK, CancelInv, [Next]_vars PROVE CancelInv'
  OBVIOUS
<1> USE ProcAssumption, HandleAssumption DEF TypeOK, CancelInv, Procs, ThreadPcs,
      WorkerPcs, FreePcs, OnPcs, OffPcs, At, Goto, workVars, ssmrVars, peerVars
<1>1. ASSUME NEW t \in Threads, AllocStart(t) PROVE CancelInv'
  BY <1>1 DEF AllocStart
<1>2. ASSUME NEW t \in Threads, CancelBegin(t) PROVE CancelInv'
  BY <1>2 DEF CancelBegin
<1>3. ASSUME NEW t \in Threads, CancelEnd(t) PROVE CancelInv'
  BY <1>3 DEF CancelEnd
<1>4. ASSUME NEW t \in Threads, Online(t) PROVE CancelInv'
  BY <1>4 DEF Online
<1>5. ASSUME NEW t \in Threads, SsmrGet(t) PROVE CancelInv'
  BY <1>5 DEF SsmrGet, TryOnReturns, HandOver
<1>6. ASSUME NEW t \in Threads, SessionOpen(t) PROVE CancelInv'
  BY <1>6 DEF SessionOpen
<1>7. ASSUME NEW t \in Threads, MemAdd(t) PROVE CancelInv'
  BY <1>7 DEF MemAdd, TryOnReturns, HandOver
<1>8. ASSUME NEW t \in Threads, UndoClose(t) PROVE CancelInv'
  BY <1>8 DEF UndoClose
<1>9. ASSUME NEW t \in Threads, UndoSsmr(t) PROVE CancelInv'
  BY <1>9 DEF UndoSsmr, TryOnReturns, HandOver
<1>10. ASSUME NEW t \in Threads, AllocReady(t) PROVE CancelInv'
  BY <1>10 DEF AllocReady
<1>11. ASSUME NEW t \in Threads, MemAlloc(t) PROVE CancelInv'
  BY <1>11 DEF MemAlloc
<1>12. ASSUME NEW t \in Threads, RefInc(t) PROVE CancelInv'
  BY <1>12 DEF RefInc, HandOver
<1>13. ASSUME NEW t \in Threads, FreeStart(t) PROVE CancelInv'
  BY <1>13 DEF FreeStart
<1>14. ASSUME NEW t \in Threads, IsRegionOn(t) PROVE CancelInv'
  BY <1>14 DEF IsRegionOn, Lose
<1>15. ASSUME NEW t \in Threads, FreeReady(t) PROVE CancelInv'
  BY <1>15 DEF FreeReady, Lose
<1>16. ASSUME NEW t \in Threads, MemFree(t) PROVE CancelInv'
  BY <1>16 DEF MemFree, Lose
<1>17. ASSUME NEW t \in Threads, RefDec(t) PROVE CancelInv'
  BY <1>17 DEF RefDec
<1>18. ASSUME NEW t \in Threads, Offline(t) PROVE CancelInv'
  BY <1>18 DEF Offline
<1>19. CASE WorkRun
  BY <1>19 DEF WorkRun
<1>20. CASE DeferOff
  BY <1>20 DEF DeferOff
<1>21. CASE MemRemove
  BY <1>21 DEF MemRemove, TryOffFails, CanReclaim
<1>22. CASE SessionClose
  BY <1>22 DEF SessionClose, TryOffFails
<1>23. CASE SsmrPut
  BY <1>23 DEF SsmrPut
<1>24. CASE UNCHANGED vars
  BY <1>24 DEF vars
<1>25. QED
  BY <1>1, <1>2, <1>3, <1>4, <1>5, <1>6, <1>7, <1>8, <1>9, <1>10, <1>11, <1>12, <1>13,
     <1>14, <1>15, <1>16, <1>17, <1>18, <1>19, <1>20, <1>21, <1>22, <1>23, <1>24
     DEF Next, Alloc, Unref, PowerOn, DeferOffWork

\* Only ref_inc ends the stage of a new chunk.
LEMMA NewStep == TypeOK /\ LockInv /\ MineInv /\ NewInv /\ [Next]_vars => NewInv'
<1> SUFFICES ASSUME TypeOK, LockInv, MineInv, NewInv, [Next]_vars PROVE NewInv'
  OBVIOUS
<1> USE ProcAssumption, HandleAssumption DEF TypeOK, LockInv, MineInv, NewInv, WorksOn, Stages, Procs, ThreadPcs,
      WorkerPcs, FreePcs, OnPcs, OffPcs, At, Goto, workVars, ssmrVars, peerVars
<1>1. ASSUME NEW t \in Threads, AllocStart(t) PROVE NewInv'
  BY <1>1 DEF AllocStart
<1>2. ASSUME NEW t \in Threads, CancelBegin(t) PROVE NewInv'
  BY <1>2 DEF CancelBegin
<1>3. ASSUME NEW t \in Threads, CancelEnd(t) PROVE NewInv'
  BY <1>3 DEF CancelEnd
<1>4. ASSUME NEW t \in Threads, Online(t) PROVE NewInv'
  BY <1>4 DEF Online
<1>5. ASSUME NEW t \in Threads, SsmrGet(t) PROVE NewInv'
  BY <1>5 DEF SsmrGet, TryOnReturns, HandOver
<1>6. ASSUME NEW t \in Threads, SessionOpen(t) PROVE NewInv'
  BY <1>6 DEF SessionOpen
<1>7. ASSUME NEW t \in Threads, MemAdd(t) PROVE NewInv'
  BY <1>7 DEF MemAdd, TryOnReturns, HandOver
<1>8. ASSUME NEW t \in Threads, UndoClose(t) PROVE NewInv'
  BY <1>8 DEF UndoClose
<1>9. ASSUME NEW t \in Threads, UndoSsmr(t) PROVE NewInv'
  BY <1>9 DEF UndoSsmr, TryOnReturns, HandOver
<1>10. ASSUME NEW t \in Threads, AllocReady(t) PROVE NewInv'
  BY <1>10 DEF AllocReady
<1>11. ASSUME NEW t \in Threads, MemAlloc(t) PROVE NewInv'
  BY <1>11 DEF MemAlloc
<1>12. ASSUME NEW t \in Threads, RefInc(t) PROVE NewInv'
  BY <1>12 DEF RefInc, HandOver
<1>13. ASSUME NEW t \in Threads, FreeStart(t) PROVE NewInv'
  BY <1>13 DEF FreeStart
<1>14. ASSUME NEW t \in Threads, IsRegionOn(t) PROVE NewInv'
  BY <1>14 DEF IsRegionOn, Lose
<1>15. ASSUME NEW t \in Threads, FreeReady(t) PROVE NewInv'
  BY <1>15 DEF FreeReady, Lose
<1>16. ASSUME NEW t \in Threads, MemFree(t) PROVE NewInv'
  BY <1>16 DEF MemFree, Lose
<1>17. ASSUME NEW t \in Threads, RefDec(t) PROVE NewInv'
  BY <1>17 DEF RefDec
<1>18. ASSUME NEW t \in Threads, Offline(t) PROVE NewInv'
  BY <1>18 DEF Offline
<1>19. CASE WorkRun
  BY <1>19 DEF WorkRun
<1>20. CASE DeferOff
  BY <1>20 DEF DeferOff
<1>21. CASE MemRemove
  BY <1>21 DEF MemRemove, TryOffFails, CanReclaim
<1>22. CASE SessionClose
  BY <1>22 DEF SessionClose, TryOffFails
<1>23. CASE SsmrPut
  BY <1>23 DEF SsmrPut
<1>24. CASE UNCHANGED vars
  BY <1>24 DEF vars
<1>25. QED
  BY <1>1, <1>2, <1>3, <1>4, <1>5, <1>6, <1>7, <1>8, <1>9, <1>10, <1>11, <1>12, <1>13,
     <1>14, <1>15, <1>16, <1>17, <1>18, <1>19, <1>20, <1>21, <1>22, <1>23, <1>24
     DEF Next, Alloc, Unref, PowerOn, DeferOffWork

\* A chunk leaves the stages of an allocated one when the trusted OS forgets it.
LEMMA KnownStep == TypeOK /\ LockInv /\ MineInv /\ KnownInv /\ [Next]_vars => KnownInv'
<1> SUFFICES ASSUME TypeOK, LockInv, MineInv, KnownInv, [Next]_vars PROVE KnownInv'
  OBVIOUS
<1> USE ProcAssumption, HandleAssumption DEF TypeOK, LockInv, MineInv, KnownInv, WorksOn, Stages, Procs, ThreadPcs,
      WorkerPcs, FreePcs, OnPcs, OffPcs, At, Goto, workVars, ssmrVars, peerVars
<1>1. ASSUME NEW t \in Threads, AllocStart(t) PROVE KnownInv'
  BY <1>1 DEF AllocStart
<1>2. ASSUME NEW t \in Threads, CancelBegin(t) PROVE KnownInv'
  BY <1>2 DEF CancelBegin
<1>3. ASSUME NEW t \in Threads, CancelEnd(t) PROVE KnownInv'
  BY <1>3 DEF CancelEnd
<1>4. ASSUME NEW t \in Threads, Online(t) PROVE KnownInv'
  BY <1>4 DEF Online
<1>5. ASSUME NEW t \in Threads, SsmrGet(t) PROVE KnownInv'
  BY <1>5 DEF SsmrGet, TryOnReturns, HandOver
<1>6. ASSUME NEW t \in Threads, SessionOpen(t) PROVE KnownInv'
  BY <1>6 DEF SessionOpen
<1>7. ASSUME NEW t \in Threads, MemAdd(t) PROVE KnownInv'
  BY <1>7 DEF MemAdd, TryOnReturns, HandOver
<1>8. ASSUME NEW t \in Threads, UndoClose(t) PROVE KnownInv'
  BY <1>8 DEF UndoClose
<1>9. ASSUME NEW t \in Threads, UndoSsmr(t) PROVE KnownInv'
  BY <1>9 DEF UndoSsmr, TryOnReturns, HandOver
<1>10. ASSUME NEW t \in Threads, AllocReady(t) PROVE KnownInv'
  BY <1>10 DEF AllocReady
<1>11. ASSUME NEW t \in Threads, MemAlloc(t) PROVE KnownInv'
  BY <1>11 DEF MemAlloc
<1>12. ASSUME NEW t \in Threads, RefInc(t) PROVE KnownInv'
  BY <1>12 DEF RefInc, HandOver
<1>13. ASSUME NEW t \in Threads, FreeStart(t) PROVE KnownInv'
  BY <1>13 DEF FreeStart
<1>14. ASSUME NEW t \in Threads, IsRegionOn(t) PROVE KnownInv'
  BY <1>14 DEF IsRegionOn, Lose
<1>15. ASSUME NEW t \in Threads, FreeReady(t) PROVE KnownInv'
  BY <1>15 DEF FreeReady, Lose
<1>16. ASSUME NEW t \in Threads, MemFree(t) PROVE KnownInv'
  BY <1>16 DEF MemFree, Lose
<1>17. ASSUME NEW t \in Threads, RefDec(t) PROVE KnownInv'
  BY <1>17 DEF RefDec
<1>18. ASSUME NEW t \in Threads, Offline(t) PROVE KnownInv'
  BY <1>18 DEF Offline
<1>19. CASE WorkRun
  BY <1>19 DEF WorkRun
<1>20. CASE DeferOff
  BY <1>20 DEF DeferOff
<1>21. CASE MemRemove
  BY <1>21 DEF MemRemove, TryOffFails, CanReclaim
<1>22. CASE SessionClose
  BY <1>22 DEF SessionClose, TryOffFails
<1>23. CASE SsmrPut
  BY <1>23 DEF SsmrPut
<1>24. CASE UNCHANGED vars
  BY <1>24 DEF vars
<1>25. QED
  BY <1>1, <1>2, <1>3, <1>4, <1>5, <1>6, <1>7, <1>8, <1>9, <1>10, <1>11, <1>12, <1>13,
     <1>14, <1>15, <1>16, <1>17, <1>18, <1>19, <1>20, <1>21, <1>22, <1>23, <1>24
     DEF Next, Alloc, Unref, PowerOn, DeferOffWork

-----------------------------------------------------------------------------
(* No lost wake-up *)

\* Whoever leaves the points at which it will count a chunk or queue the work
\* has counted one, or left the work queued or the canceller to go on.
LEMMA OffStep ==
  /\ TypeOK /\ LockInv /\ PowerInv /\ MineInv /\ RefCounts /\ OnInv /\ GrantInv /\ HeldInv
  /\ CancelInv /\ NewInv /\ KnownInv /\ OffScheduled /\ [Next]_vars
  => OffScheduled'
<1> SUFFICES ASSUME TypeOK, LockInv, PowerInv, MineInv, RefCounts, OnInv, GrantInv, HeldInv,
                    CancelInv, NewInv, KnownInv, OffScheduled, [Next]_vars
             PROVE OffScheduled'
  OBVIOUS
<1> USE ProcAssumption, HandleAssumption DEF TypeOK, LockInv, PowerInv, OffScheduled, WillCountOrQueue, WorksOn, Procs, ThreadPcs,
      WorkerPcs, FreePcs, OnPcs, OffPcs, At, Goto, workVars, ssmrVars, peerVars
<1>0. \A h \in Handles : chunk[h] = "ref" => valid_ref_count # 0
  BY FS_Subset, FS_EmptySet DEF RefCounts, Counted
<1>1. ASSUME NEW t \in Threads, AllocStart(t) PROVE OffScheduled'
  BY <1>1 DEF AllocStart
<1>2. ASSUME NEW t \in Threads, CancelBegin(t) PROVE OffScheduled'
  BY <1>2 DEF CancelBegin
<1>3. ASSUME NEW t \in Threads, CancelEnd(t) PROVE OffScheduled'
  BY <1>3 DEF CancelEnd
<1>4. ASSUME NEW t \in Threads, Online(t) PROVE OffScheduled'
  BY <1>4 DEF Online
<1>5. ASSUME NEW t \in Threads, SsmrGet(t) PROVE OffScheduled'
  BY <1>5 DEF SsmrGet, TryOnReturns, HandOver
<1>6. ASSUME NEW t \in Threads, SessionOpen(t) PROVE OffScheduled'
  BY <1>6 DEF SessionOpen
<1>7. ASSUME NEW t \in Threads, MemAdd(t) PROVE OffScheduled'
  <2>1. CASE mine[t] = NoHandle
    BY <1>7, <2>1 DEF MemAdd, TryOnReturns, HandOver, MineInv
  <2>2. CASE mine[t] # NoHandle
    BY <1>0, <1>7, <2>2 DEF MemAdd, TryOnReturns, HandOver, MineInv
  <2>3. QED
    BY <2>1, <2>2
<1>8. ASSUME NEW t \in Threads, UndoClose(t) PROVE OffScheduled'
  BY <1>8 DEF UndoClose
<1>9. ASSUME NEW t \in Threads, UndoSsmr(t) PROVE OffScheduled'
  BY <1>9 DEF UndoSsmr, TryOnReturns, HandOver
<1>10. ASSUME NEW t \in Threads, AllocReady(t) PROVE OffScheduled'
  BY <1>10 DEF AllocReady
<1>11. ASSUME NEW t \in Threads, MemAlloc(t) PROVE OffScheduled'
  BY <1>11 DEF MemAlloc
<1>12. ASSUME NEW t \in Threads, RefInc(t) PROVE OffScheduled'
  BY <1>12 DEF RefInc, HandOver
<1>13. ASSUME NEW t \in Threads, FreeStart(t) PROVE OffScheduled'
  BY <1>13 DEF FreeStart
<1>14. ASSUME NEW t \in Threads, IsRegionOn(t) PROVE OffScheduled'
  BY <1>14 DEF IsRegionOn, Lose
<1>15. ASSUME NEW t \in Threads, FreeReady(t) PROVE OffScheduled'
  BY <1>15 DEF FreeReady, Lose
<1>16. ASSUME NEW t \in Threads, MemFree(t) PROVE OffScheduled'
  BY <1>16 DEF MemFree, Lose
<1>17. ASSUME NEW t \in Threads, RefDec(t) PROVE OffScheduled'
  BY <1>17 DEF RefDec
<1>18. ASSUME NEW t \in Threads, Offline(t) PROVE OffScheduled'
  BY <1>18 DEF Offline, CancelInv
<1>19. CASE WorkRun
  BY <1>19 DEF WorkRun
<1>20. CASE DeferOff
  BY <1>20 DEF DeferOff
<1>21. CASE MemRemove
  <2>1. Counted = {}
    BY <1>21 DEF MemRemove, HeldInv
  <2>2. state = "ON"
    BY <1>21 DEF MemRemove, PowerInv
  <2>3. ASSUME NEW h \in teeChunks PROVE \E t \in Threads : pc[t] = "inc"
    BY <2>1, <2>3 DEF KnownInv, NewInv, Counted
  <2>4. CASE pc' = [pc EXCEPT ![Worker] = "close"]
    BY <2>4
  <2>5. CASE TryOffFails /\ ((CanReclaim /\ granted) => MayFail("memory_reclaim"))
    <3>1. SUFFICES ASSUME FaultOps \cap {"memory_reclaim", "session_close"} = {}
                   PROVE \E t \in Threads : pc[t] = "inc"
      BY <2>5 DEF TryOffFails
    <3>2. granted /\ opened
      BY <1>21, <2>2, <3>1 DEF MemRemove, GrantInv, PowerInv
    <3>3. teeChunks # {}
      BY <2>5, <3>1, <3>2 DEF CanReclaim, MayFail
    <3>4. QED
      BY <2>3, <3>3
  <2>6. QED
    BY <1>21, <2>4, <2>5 DEF MemRemove
<1>22. CASE SessionClose
  BY <1>22 DEF SessionClose, TryOffFails, MayFail
<1>23. CASE SsmrPut
  BY <1>23 DEF SsmrPut, OnInv
<1>24. CASE UNCHANGED vars
  BY <1>24 DEF vars
<1>25. QED
  BY <1>1, <1>2, <1>3, <1>4, <1>5, <1>6, <1>7, <1>8, <1>9, <1>10, <1>11, <1>12, <1>13,
     <1>14, <1>15, <1>16, <1>17, <1>18, <1>19, <1>20, <1>21, <1>22, <1>23, <1>24
     DEF Next, Alloc, Unref, PowerOn, DeferOffWork

-----------------------------------------------------------------------------
(* The theorems *)

\* The conjunction that is inductive together with IInv.
PowerIInv ==
    /\ OnInv /\ GrantInv /\ UndoInv
    /\ HeldInv /\ HeldRegionOn
    /\ CancelInv /\ NewInv /\ KnownInv /\ OffScheduled

\* The managers start in it.
LEMMA InitPower == Init => PowerIInv
<1> SUFFICES ASSUME Init PROVE PowerIInv
  OBVIOUS
<1> USE ProcAssumption DEF Init, Procs, OffPcs, OnPcs
<1>1. OnInv /\ GrantInv /\ UndoInv
  BY DEF OnInv, GrantInv, UndoInv
<1>2. HeldInv /\ HeldRegionOn
  BY DEF HeldInv, HeldRegionOn, InUse
<1>3. CancelInv /\ NewInv /\ KnownInv /\ OffScheduled
  BY DEF CancelInv, NewInv, KnownInv, OffScheduled
<1>4. QED
  BY <1>1, <1>2, <1>3 DEF PowerIInv

\* Every step keeps it.
LEMMA NextPower == IInv /\ PowerIInv /\ [Next]_vars => PowerIInv'
  BY OnStep, GrantStep, UndoStep, HeldStep, HeldOnStep, CancelStep, NewStep, KnownStep, OffStep
     DEF IInv, PowerIInv

\* The invariant holds in every reachable state.
THEOREM PowerInvariance == Spec => [](IInv /\ PowerIInv)
<1>1. IInv /\ PowerIInv /\ [Next]_vars => (IInv /\ PowerIInv)'
  BY NextInv, NextPower
<1>2. QED
  BY <1>1, InitInv, InitPower, PTL DEF Spec

\* Outside the critical sections of REGMGR_LOCK the three managers agree on
\* whether the region is on, for every way in which the external calls can
\* fail, but for what a failed session_close and an unusable SSMR address
\* leave behind.
THEOREM ManagersAgree == Spec => []PowerConsistent
<1>1. IInv /\ PowerIInv => PowerConsistent
  <2> SUFFICES ASSUME IInv, PowerIInv, lock = NoOne
               PROVE /\ state = "ON" => opened /\ ssmr = "OFF" /\ (granted \/ "close" \in failed)
                     /\ state = "OFF" => /\ ~granted
                                         /\ ssmr # "OFF" \/ "addr" \in failed
                                         /\ opened => SessionKeepAlive \/ "close" \in failed
    BY DEF PowerConsistent
  <2>1. pc[Worker] \notin OffPcs /\ \A t \in Threads : pc[t] \notin OnPcs
    BY ProcAssumption DEF IInv, LockInv
  <2>2. state = "ON" => opened /\ ssmr = "OFF" /\ (granted \/ "close" \in failed)
    BY <2>1 DEF IInv, PowerIInv, GrantInv, OnInv, PowerInv, OffPcs
  <2>3. state = "OFF" => ~granted
    BY DEF IInv, PowerInv
  <2>4. state = "OFF" => ssmr # "OFF" \/ "addr" \in failed
    BY <2>1 DEF PowerIInv, UndoInv
  <2>5. state = "OFF" => (opened => SessionKeepAlive \/ "close" \in failed)
    BY <2>1 DEF PowerIInv, GrantInv, OnPcs
  <2>6. QED
    BY <2>2, <2>3, <2>4, <2>5
<1>2. QED
  BY <1>1, PowerInvariance, PTL

\* Whatever the trusted OS does with memory in use, the region is on while a
\* caller holds a chunk, until a power on has failed.
THEOREM HeldMeansOn == Spec => []HeldRegionOn
<1>1. PowerIInv => HeldRegionOn
  BY DEF PowerIInv
<1>2. QED
  BY <1>1, PowerInvariance, PTL

\* A region that is on without references always has someone left to turn it
\* off: cancelling the deferred off work never loses the last request for it.
THEOREM OffNotLost == Spec => []OffScheduled
<1>1. PowerIInv => OffScheduled
  BY DEF PowerIInv
<1>2. QED
  BY <1>1, PowerInvariance, PTL
=============================================================================
