----------------------------- MODULE TrustedMem -----------------------------
(***************************************************************************)
(* The trusted memory subsystem of one memory device (trusted_mem/): the   *)
(* region manager (region_mgr.c), the peer session manager (peer_mgr.c),   *)
(* the SSMR glue (ssmr_mgr.c) and the chunk API above them (entry.c).      *)
(*                                                                         *)
(* Threads allocate and free chunks of secure memory.  The first           *)
(* allocation powers the region on: the physical region is taken from      *)
(* Linux (SSMR offline), a session with the trusted OS is opened, and the  *)
(* region is granted to it.  Every free schedules the deferred off work,   *)
(* which undoes those steps when no chunk is referenced.                   *)
(*                                                                         *)
(* Atomicity.  REGMGR_LOCK is the variable lock: its critical sections     *)
(* span several calls to the trusted OS and are several steps.  The        *)
(* session mutex protects one call each time, so one step is one           *)
(* MGR_SESSION_LOCK section; is_session_ready is a section of its own.     *)
(* opened, granted and ssmr are only written under REGMGR_LOCK here, so    *)
(* the ready test of the calls made under that lock needs no extra step.   *)
(***************************************************************************)
EXTENDS Naturals, FiniteSets

CONSTANTS
    Threads,            \* callers of trusted_mem_api_alloc and _unref
    Handles,            \* secure handles the trusted OS can give out
    Worker,             \* the single thread of defer_off_wq
    NoOne, NoHandle,    \* the absence of a process, of a handle
    SessionKeepAlive,   \* configs.session_keep_alive_enable
    ReclaimRefusesBusy, \* memory_reclaim fails while chunks are outstanding
    FaultOps            \* the external calls that may fail spontaneously

TeeOps == {"ssmr_offline", "ssmr_addr", "session_open", "session_close",
           "memory_grant", "memory_reclaim", "memory_free"}

ASSUME ProcAssumption == Worker \notin Threads /\ NoOne \notin Threads \cup {Worker}
ASSUME HandleAssumption == IsFiniteSet(Handles) /\ NoHandle \notin Handles
ASSUME ConfigAssumption ==
    SessionKeepAlive \in BOOLEAN /\ ReclaimRefusesBusy \in BOOLEAN
ASSUME FaultAssumption == FaultOps \subseteq TeeOps

VARIABLES
    state,           \* region_mgr_desc.state (is_device_busy and
                     \* active_mem_type change with it)
    valid_ref_count, \* region_mgr_desc.valid_ref_count
    lock,            \* the holder of REGMGR_LOCK
    pending,         \* defer_off_work is queued
    canceler,        \* the thread inside cancel_delayed_work_sync
    ssmr,            \* SSMR_Feature.state
    failed,          \* history: the failures that leave the managers apart
    opened,          \* trusted_peer_session.opened
    granted,         \* trusted_peer_session.mem_size is not 0
    ref_chunks,      \* trusted_peer_session.ref_chunks
    teeChunks,       \* the handles the trusted OS knows
    chunk,           \* how far each handle is in its life
    mine,            \* the handle a thread is working on
    pc               \* where each thread and the worker are

workVars == <<pending, canceler>>
ssmrVars == <<ssmr, failed>>
peerVars == <<opened, granted, ref_chunks, teeChunks>>
vars == <<state, valid_ref_count, lock, workVars, ssmrVars, peerVars, chunk, mine, pc>>

Procs == Threads \cup {Worker}

\* Program points of trusted_mem_region_poweron and _poweroff, under the lock.
OnPcs == {"ssmr_get", "open", "grant", "undo_close", "undo_ssmr"}
OffPcs == {"reclaim", "close", "ssmr_put"}

FreePcs == {"is_on", "free_ready", "free"}
ThreadPcs == {"idle", "cancel", "flush", "online", "ready", "alloc", "inc",
              "dec", "queue"} \cup FreePcs \cup OnPcs
WorkerPcs == {"idle", "off"} \cup OffPcs

\* The life of a handle: "new" is allocated but not counted, "ref" counted
\* while ref_inc is still powering the region on, "held" returned to the
\* caller, "freeing" passed to unref, "unref" freed but still counted,
\* "leaked" given up by its owner after an unref that failed.
Stages == {"none", "new", "ref", "held", "freeing", "unref", "leaked"}
Counted == {h \in Handles : chunk[h] \in {"ref", "held", "freeing", "unref", "leaked"}}
NotFreed == {h \in Handles : chunk[h] \in {"new", "ref", "held", "freeing", "leaked"}}
InUse == {h \in Handles : chunk[h] \in {"held", "freeing"}}

\* "on": some power on has failed.  "addr": one that left the SSMR off.
\* "close": the last session_close failed and no power on has succeeded since.
Failures == {"on", "addr", "close"}

TypeOK ==
    /\ state \in {"ON", "OFF"}
    /\ valid_ref_count \in Nat
    /\ lock \in Procs \cup {NoOne}
    /\ pending \in BOOLEAN
    /\ canceler \in Threads \cup {NoOne}
    /\ ssmr \in {"ON", "OFF", "DISABLED"}
    /\ failed \subseteq Failures
    /\ opened \in BOOLEAN
    /\ granted \in BOOLEAN
    /\ ref_chunks \in Nat
    /\ teeChunks \subseteq Handles
    /\ chunk \in [Handles -> Stages]
    /\ mine \in [Threads -> Handles \cup {NoHandle}]
    /\ pc \in [Procs -> ThreadPcs \cup WorkerPcs]
    /\ pc[Worker] \in WorkerPcs
    /\ \A t \in Threads : pc[t] \in ThreadPcs

\* create_reg_mgr_desc, create_peer_mgr_desc, memory_ssmr_init_feature.
Init ==
    /\ state = "OFF"
    /\ valid_ref_count = 0
    /\ lock = NoOne
    /\ pending = FALSE
    /\ canceler = NoOne
    /\ ssmr \in {"ON", "DISABLED"}
    /\ failed = {}
    /\ opened = FALSE
    /\ granted = FALSE
    /\ ref_chunks = 0
    /\ teeChunks = {}
    /\ chunk = [h \in Handles |-> "none"]
    /\ mine = [t \in Threads |-> NoHandle]
    /\ pc = [p \in Procs |-> "idle"]

-----------------------------------------------------------------------------
(* Helpers *)

MayFail(op) == op \in FaultOps
Goto(p, l) == pc' = [pc EXCEPT ![p] = l]
At(p, l) == pc[p] = l

\* regmgr_region_ref_inc returns: the caller of alloc gets its handle.
HandOver(t) ==
    /\ chunk' = [chunk EXCEPT ![mine[t]] = "held"]
    /\ mine' = [mine EXCEPT ![t] = NoHandle]
    /\ Goto(t, "idle")

\* regmgr_try_on returns and REGMGR_UNLOCK: regmgr_region_ref_inc does not
\* look at the result, regmgr_online returns it to the allocation.
TryOnReturns(t, next) ==
    /\ lock' = NoOne
    /\ IF mine[t] # NoHandle THEN HandOver(t)
                             ELSE Goto(t, next) /\ UNCHANGED <<chunk, mine>>

\* tmem_core_unref_chunk fails: ion_sec_heap_free ignores it and forgets the
\* handle.
Lose(t) ==
    /\ chunk' = [chunk EXCEPT ![mine[t]] = "leaked"]
    /\ mine' = [mine EXCEPT ![t] = NoHandle]
    /\ Goto(t, "idle")

-----------------------------------------------------------------------------
(* tmem_core_alloc_chunk_internal and regmgr_online *)

AllocStart(t) ==
    /\ At(t, "idle")
    /\ Goto(t, "cancel")
    /\ UNCHANGED <<state, valid_ref_count, lock, workVars, ssmrVars, peerVars, chunk, mine>>

\* cancel_delayed_work_sync takes the work away from the queue (or from
\* nobody) and keeps others from queueing it until it returns.
CancelBegin(t) ==
    /\ At(t, "cancel")
    /\ canceler = NoOne
    /\ pending' = FALSE
    /\ canceler' = t
    /\ Goto(t, "flush")
    /\ UNCHANGED <<state, valid_ref_count, lock, ssmrVars, peerVars, chunk, mine>>

\* ... and returns when the handler is not running.
CancelEnd(t) ==
    /\ At(t, "flush")
    /\ At(Worker, "idle")
    /\ canceler' = NoOne
    /\ Goto(t, "online")
    /\ UNCHANGED <<state, valid_ref_count, lock, pending, ssmrVars, peerVars, chunk, mine>>

Online(t) ==
    /\ At(t, "online")
    /\ lock = NoOne
    /\ IF state = "ON" THEN lock' = lock /\ Goto(t, "ready")
                       ELSE lock' = t /\ Goto(t, "ssmr_get")
    /\ UNCHANGED <<state, valid_ref_count, workVars, ssmrVars, peerVars, chunk, mine>>

-----------------------------------------------------------------------------
(* trusted_mem_region_poweron, called by regmgr_try_on under the lock *)

\* tmem_ssmr_get: SSMR must be ON and the region must be carved out; when its
\* address or size is not usable the SSMR stays OFF and nobody undoes it.
SsmrGet(t) ==
    /\ At(t, "ssmr_get")
    /\ \/ /\ ssmr = "ON"
          /\ ssmr' = "OFF"
          /\ Goto(t, "open")
          /\ UNCHANGED <<failed, lock, chunk, mine>>
       \/ /\ ssmr = "ON" => MayFail("ssmr_offline")
          /\ ssmr' = ssmr
          /\ failed' = failed \cup {"on"}
          /\ TryOnReturns(t, "idle")
       \/ /\ ssmr = "ON" /\ MayFail("ssmr_addr")
          /\ ssmr' = "OFF"
          /\ failed' = failed \cup {"on", "addr"}
          /\ TryOnReturns(t, "idle")
    /\ UNCHANGED <<state, valid_ref_count, workVars, peerVars>>

\* Mutant: poweron returns without the SSMR online of err_open_mtee_failed.
SessionOpen_NoUndo(t) ==
    /\ At(t, "open")
    /\ \/ opened' = TRUE /\ Goto(t, "grant") /\ UNCHANGED <<lock, chunk, mine>>
       \/ ~opened /\ MayFail("session_open") /\ opened' = opened /\ TryOnReturns(t, "idle")
    /\ UNCHANGED <<state, valid_ref_count, workVars, ssmrVars, granted, ref_chunks, teeChunks>>

\* peer_mgr_session_open_locked; an open session is as good as a new one.
SessionOpen(t) ==
    /\ At(t, "open")
    /\ \/ opened' = TRUE /\ Goto(t, "grant")
       \/ ~opened /\ MayFail("session_open") /\ opened' = opened /\ Goto(t, "undo_ssmr")
    /\ UNCHANGED <<state, valid_ref_count, lock, workVars, ssmrVars, granted,
                   ref_chunks, teeChunks, chunk, mine>>

\* peer_mgr_mem_add_locked, and the end of regmgr_try_on when it succeeds.
MemAdd(t) ==
    /\ At(t, "grant")
    /\ \/ /\ opened
          /\ granted' = TRUE
          /\ state' = "ON"
          /\ failed' = failed \ {"close"}
          /\ TryOnReturns(t, "ready")
       \/ /\ opened => MayFail("memory_grant")
          /\ Goto(t, "undo_close")
          /\ UNCHANGED <<state, failed, granted, lock, chunk, mine>>
    /\ UNCHANGED <<valid_ref_count, workVars, ssmr, opened, ref_chunks, teeChunks>>

\* peer_mgr_session_close_locked on the error path; its result is ignored.
UndoClose(t) ==
    /\ At(t, "undo_close")
    /\ \/ /\ opened' = (opened /\ SessionKeepAlive)
          /\ failed' = failed \ {"close"}
       \/ /\ opened /\ ~SessionKeepAlive /\ MayFail("session_close")
          /\ opened' = opened
          /\ failed' = failed \cup {"close"}
    /\ Goto(t, "undo_ssmr")
    /\ UNCHANGED <<state, valid_ref_count, lock, workVars, ssmr, granted,
                   ref_chunks, teeChunks, chunk, mine>>

UndoSsmr(t) ==
    /\ At(t, "undo_ssmr")
    /\ ssmr' = IF ssmr = "OFF" THEN "ON" ELSE ssmr
    /\ failed' = failed \cup {"on"}
    /\ TryOnReturns(t, "idle")
    /\ UNCHANGED <<state, valid_ref_count, workVars, peerVars>>

-----------------------------------------------------------------------------
(* peer_mgr_chunk_alloc_locked and regmgr_region_ref_inc *)

AllocReady(t) ==
    /\ At(t, "ready")
    /\ Goto(t, IF opened THEN "alloc" ELSE "queue")
    /\ UNCHANGED <<state, valid_ref_count, lock, workVars, ssmrVars, peerVars, chunk, mine>>

\* Mutant: a failed allocation returns without regmgr_offline.
MemAlloc_NoOffline(t) ==
    /\ At(t, "alloc")
    /\ Goto(t, "idle")
    /\ UNCHANGED <<state, valid_ref_count, lock, workVars, ssmrVars, peerVars, chunk, mine>>

\* The trusted OS finds room only in memory it was granted.  A failed
\* allocation ends in regmgr_offline.
MemAlloc(t) ==
    /\ At(t, "alloc")
    /\ \/ /\ opened /\ granted
          /\ \E h \in Handles \ teeChunks :
                /\ chunk[h] = "none"
                /\ chunk' = [chunk EXCEPT ![h] = "new"]
                /\ teeChunks' = teeChunks \cup {h}
                /\ mine' = [mine EXCEPT ![t] = h]
          /\ ref_chunks' = ref_chunks + 1
          /\ Goto(t, "inc")
       \/ /\ Goto(t, "queue")
          /\ UNCHANGED <<chunk, mine, teeChunks, ref_chunks>>
    /\ UNCHANGED <<state, valid_ref_count, lock, workVars, ssmrVars, opened, granted>>

\* Mutant: the reference is counted without the second regmgr_try_on.
RefInc_NoTryOn(t) ==
    /\ At(t, "inc")
    /\ lock = NoOne
    /\ valid_ref_count' = valid_ref_count + 1
    /\ HandOver(t)
    /\ UNCHANGED <<state, lock, workVars, ssmrVars, peerVars>>

RefInc(t) ==
    /\ At(t, "inc")
    /\ lock = NoOne
    /\ valid_ref_count' = valid_ref_count + 1
    /\ IF state = "ON"
         THEN lock' = lock /\ HandOver(t)
         ELSE /\ lock' = t
              /\ chunk' = [chunk EXCEPT ![mine[t]] = "ref"]
              /\ mine' = mine
              /\ Goto(t, "ssmr_get")
    /\ UNCHANGED <<state, workVars, ssmrVars, peerVars>>

-----------------------------------------------------------------------------
(* tmem_core_unref_chunk *)

FreeStart(t) ==
    /\ At(t, "idle")
    /\ \E h \in Handles :
          /\ chunk[h] = "held"
          /\ chunk' = [chunk EXCEPT ![h] = "freeing"]
          /\ mine' = [mine EXCEPT ![t] = h]
    /\ Goto(t, "is_on")
    /\ UNCHANGED <<state, valid_ref_count, lock, workVars, ssmrVars, peerVars>>

\* is_regmgr_region_on
IsRegionOn(t) ==
    /\ At(t, "is_on")
    /\ lock = NoOne
    /\ IF state = "ON" THEN Goto(t, "free_ready") /\ UNCHANGED <<chunk, mine>>
                       ELSE Lose(t)
    /\ UNCHANGED <<state, valid_ref_count, lock, workVars, ssmrVars, peerVars>>

\* peer_mgr_chunk_free_locked: the ready test, then the call.
FreeReady(t) ==
    /\ At(t, "free_ready")
    /\ IF opened THEN Goto(t, "free") /\ UNCHANGED <<chunk, mine>>
                 ELSE Lose(t)
    /\ UNCHANGED <<state, valid_ref_count, lock, workVars, ssmrVars, peerVars>>

\* Mutant: unref goes on to ref_dec when memory_free has failed.
MemFree_IgnoresResult(t) ==
    /\ At(t, "free")
    /\ chunk' = [chunk EXCEPT ![mine[t]] = IF @ = "freeing" THEN "unref" ELSE @]
    /\ Goto(t, "dec")
    /\ UNCHANGED <<state, valid_ref_count, lock, workVars, ssmrVars, peerVars, mine>>

MemFree(t) ==
    /\ At(t, "free")
    /\ \/ /\ opened /\ mine[t] \in teeChunks
          /\ teeChunks' = teeChunks \ {mine[t]}
          /\ chunk' = [chunk EXCEPT ![mine[t]] = "unref"]
          /\ mine' = mine
          /\ ref_chunks' = IF ref_chunks = 0 THEN 0 ELSE ref_chunks - 1
          /\ Goto(t, "dec")
       \/ /\ (opened /\ mine[t] \in teeChunks) => MayFail("memory_free")
          /\ Lose(t)
          /\ UNCHANGED <<teeChunks, ref_chunks>>
    /\ UNCHANGED <<state, valid_ref_count, lock, workVars, ssmrVars, opened, granted>>

\* Mutant: unref returns without regmgr_offline.
RefDec_NoOffline(t) ==
    /\ At(t, "dec")
    /\ lock = NoOne
    /\ valid_ref_count' = valid_ref_count - 1
    /\ chunk' = [chunk EXCEPT ![mine[t]] = "none"]
    /\ mine' = [mine EXCEPT ![t] = NoHandle]
    /\ Goto(t, "idle")
    /\ UNCHANGED <<state, lock, workVars, ssmrVars, peerVars>>

RefDec(t) ==
    /\ At(t, "dec")
    /\ lock = NoOne
    /\ valid_ref_count' = IF valid_ref_count = 0 THEN 0 ELSE valid_ref_count - 1
    /\ chunk' = [chunk EXCEPT ![mine[t]] = "none"]
    /\ mine' = [mine EXCEPT ![t] = NoHandle]
    /\ Goto(t, "queue")
    /\ UNCHANGED <<state, lock, workVars, ssmrVars, peerVars>>

\* regmgr_offline: queue_delayed_work does nothing when the work is queued
\* or is being cancelled.
Offline(t) ==
    /\ At(t, "queue")
    /\ pending' = (pending \/ canceler = NoOne)
    /\ Goto(t, "idle")
    /\ UNCHANGED <<state, valid_ref_count, lock, canceler, ssmrVars, peerVars, chunk, mine>>

-----------------------------------------------------------------------------
(* regmgr_defer_off_handler, regmgr_try_off and trusted_mem_region_poweroff *)

WorkRun ==
    /\ At(Worker, "idle")
    /\ pending
    /\ pending' = FALSE
    /\ Goto(Worker, "off")
    /\ UNCHANGED <<state, valid_ref_count, lock, canceler, ssmrVars, peerVars, chunk, mine>>

\* Mutant: poweroff closes the session before it reclaims the memory.
DeferOff_CloseFirst ==
    /\ At(Worker, "off")
    /\ lock = NoOne
    /\ IF valid_ref_count = 0 /\ state = "ON"
         THEN lock' = Worker /\ Goto(Worker, "close")
         ELSE lock' = lock /\ Goto(Worker, "idle")
    /\ UNCHANGED <<state, valid_ref_count, workVars, ssmrVars, peerVars, chunk, mine>>

DeferOff ==
    /\ At(Worker, "off")
    /\ lock = NoOne
    /\ IF valid_ref_count = 0 /\ state = "ON"
         THEN lock' = Worker /\ Goto(Worker, "reclaim")
         ELSE lock' = lock /\ Goto(Worker, "idle")
    /\ UNCHANGED <<state, valid_ref_count, workVars, ssmrVars, peerVars, chunk, mine>>

\* Mutant: the error path of the handler leaves REGMGR_LOCK held.
TryOffFails_NoUnlock == lock' = lock /\ Goto(Worker, "idle")

\* regmgr_try_off fails: the state stays ON.
TryOffFails == lock' = NoOne /\ Goto(Worker, "idle")

CanReclaim == opened /\ (ReclaimRefusesBusy => teeChunks = {})

\* Mutant: poweroff goes on when memory_reclaim has failed.
MemRemove_IgnoresResult ==
    /\ At(Worker, "reclaim")
    /\ granted' = (granted /\ ~CanReclaim)
    /\ teeChunks' = IF CanReclaim THEN {} ELSE teeChunks
    /\ Goto(Worker, "close")
    /\ UNCHANGED <<state, valid_ref_count, lock, workVars, ssmrVars, opened, ref_chunks, chunk, mine>>

\* peer_mgr_mem_remove_locked.  What the trusted OS answers when it holds no
\* memory is not known.
MemRemove ==
    /\ At(Worker, "reclaim")
    /\ \/ /\ CanReclaim
          /\ granted' = FALSE
          /\ teeChunks' = {}
          /\ lock' = lock
          /\ Goto(Worker, "close")
       \/ /\ (CanReclaim /\ granted) => MayFail("memory_reclaim")
          /\ TryOffFails
          /\ UNCHANGED <<granted, teeChunks>>
    /\ UNCHANGED <<state, valid_ref_count, workVars, ssmrVars, opened, ref_chunks, chunk, mine>>

\* peer_mgr_session_close_locked; a session already closed is accepted.
SessionClose ==
    /\ At(Worker, "close")
    /\ \/ /\ opened' = (opened /\ SessionKeepAlive)
          /\ failed' = failed \ {"close"}
          /\ lock' = lock
          /\ Goto(Worker, "ssmr_put")
       \/ /\ opened /\ ~SessionKeepAlive /\ MayFail("session_close")
          /\ opened' = opened
          /\ failed' = failed \cup {"close"}
          /\ TryOffFails
    /\ UNCHANGED <<state, valid_ref_count, workVars, ssmr, granted, ref_chunks,
                   teeChunks, chunk, mine>>

\* Mutant: _ssmr_online_internal does not leave its transient state.
SsmrPut_StuckOning ==
    /\ At(Worker, "ssmr_put")
    /\ ssmr' = "ONING_WAIT"
    /\ state' = "OFF"
    /\ lock' = NoOne
    /\ Goto(Worker, "idle")
    /\ UNCHANGED <<failed, valid_ref_count, workVars, peerVars, chunk, mine>>

\* tmem_ssmr_put, which needs the SSMR to be OFF, and the end of regmgr_try_off.
SsmrPut ==
    /\ At(Worker, "ssmr_put")
    /\ ssmr' = IF ssmr = "OFF" THEN "ON" ELSE ssmr
    /\ state' = IF ssmr = "OFF" THEN "OFF" ELSE state
    /\ lock' = NoOne
    /\ Goto(Worker, "idle")
    /\ UNCHANGED <<failed, valid_ref_count, workVars, peerVars, chunk, mine>>

-----------------------------------------------------------------------------

PowerOn(t) == SsmrGet(t) \/ SessionOpen(t) \/ MemAdd(t) \/ UndoClose(t) \/ UndoSsmr(t)
Alloc(t) == CancelBegin(t) \/ CancelEnd(t) \/ Online(t) \/ PowerOn(t)
            \/ AllocReady(t) \/ MemAlloc(t) \/ RefInc(t)
Unref(t) == IsRegionOn(t) \/ FreeReady(t) \/ MemFree(t) \/ RefDec(t) \/ Offline(t)
DeferOffWork == WorkRun \/ DeferOff \/ MemRemove \/ SessionClose \/ SsmrPut

Next ==
    \/ \E t \in Threads : AllocStart(t) \/ FreeStart(t) \/ Alloc(t) \/ Unref(t)
    \/ DeferOffWork

Spec == Init /\ [][Next]_vars

\* A thread inside a call keeps running, REGMGR_LOCK is handed to its waiters
\* in turn, cancellers are woken in turn, and the work queue runs queued work.
\* Nobody has to start an allocation or a free.
Fairness ==
    /\ \A t \in Threads :
          /\ WF_vars(PowerOn(t) \/ CancelEnd(t) \/ AllocReady(t) \/ MemAlloc(t)
                     \/ FreeReady(t) \/ MemFree(t) \/ Offline(t))
          /\ SF_vars(CancelBegin(t))
          /\ SF_vars(Online(t) \/ RefInc(t) \/ IsRegionOn(t) \/ RefDec(t))
    /\ WF_vars(WorkRun \/ MemRemove \/ SessionClose \/ SsmrPut)
    /\ SF_vars(DeferOff)

LiveSpec == Spec /\ Fairness
-----------------------------------------------------------------------------
(* Properties *)

\* The two counters are exact in every interleaving: valid_ref_count counts
\* the chunks between ref_inc and ref_dec, ref_chunks (commented "chunks that
\* are not freed yet!") those the trusted OS allocated and did not free.  So
\* the branches "invalid regmgr ref cnt decrease" and "system error" are dead.
RefCounts ==
    /\ valid_ref_count = Cardinality(Counted)
    /\ ref_chunks = Cardinality(NotFreed)

\* The physical region is not given back to Linux, and the session is not
\* closed, while the trusted OS owns the memory, whichever calls fail.
NoEarlyHandBack == granted => ssmr = "OFF" /\ opened

\* A handle returned by alloc names a live chunk of the trusted OS in a region
\* that is on, until its owner frees it: the deferred off work never pulls the
\* region from under an allocation that raced with it, whichever calls fail.
\* It rests on a trusted OS that refuses to reclaim memory with chunks in it.
HandleValid ==
    ReclaimRefusesBusy =>
        \A h \in InUse : h \in teeChunks /\ granted /\ opened /\ state = "ON"

\* Even when the trusted OS reclaims memory with chunks in it, the region is
\* on whenever a caller holds a chunk: the deferred off work tests the count
\* and turns the region off in one section of the lock, and
\* regmgr_region_ref_inc turns it on again after it.  It holds until a power
\* on fails: ref_inc ignores the result.
HeldRegionOn == "on" \notin failed => \A h \in InUse : state = "ON"

\* The three managers agree whenever nobody is inside a critical section: the
\* region is ON exactly when the memory is granted over an open session and
\* taken from Linux, whichever calls fail.  The exceptions are the three states
\* the code leaves behind and no other: a region ON without memory, or OFF with
\* a session, only after a session_close that failed (poweroff stops there,
\* poweron's error path ignores it), and memory that is neither Linux's nor
\* the region's only after an unusable SSMR address, which nobody undoes.
PowerConsistent ==
    lock = NoOne =>
        /\ state = "ON" => opened /\ ssmr = "OFF" /\ (granted \/ "close" \in failed)
        /\ state = "OFF" => /\ ~granted
                            /\ ssmr # "OFF" \/ "addr" \in failed
                            /\ opened => SessionKeepAlive \/ "close" \in failed

\* No wake-up is lost between regmgr_online, which cancels the deferred off
\* work, and the threads that queue it: a region that is on without references
\* has the work queued or running, or a thread in the middle of a call that
\* will count a chunk or queue the work.
WillCountOrQueue(t) == pc[t] \in {"flush", "online", "ready", "alloc", "inc", "queue"}
OffScheduled ==
    (state = "ON" /\ valid_ref_count = 0
        /\ FaultOps \cap {"memory_reclaim", "session_close"} = {}) =>
        \/ pending
        \/ pc[Worker] # "idle"
        \/ \E t \in Threads : WillCountOrQueue(t)

\* Once every chunk is freed and every call has returned, the region is
\* eventually powered off and its memory returned to Linux.
Quiet == InUse = {} /\ \A t \in Threads : pc[t] = "idle"
EventuallyOff == (Quiet /\ state = "ON") ~> (state = "OFF" \/ ~Quiet)

\* Every alloc and unref returns: no thread waits for ever for REGMGR_LOCK or
\* for the deferred off work it cancels.
CallsReturn == \A t \in Threads : pc[t] # "idle" ~> pc[t] = "idle"

\* The subsystem keeps the promise of SecureRegion; a handle is live from the
\* return of alloc to the free by the trusted OS.
Owner == IF ssmr # "OFF" THEN "linux" ELSE IF granted THEN "tee" ELSE "transit"
Abstract == INSTANCE SecureRegion WITH owner <- Owner, live <- InUse
AbstractSpec == Abstract!Spec
=============================================================================
