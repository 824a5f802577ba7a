-------------------------------- MODULE Lbat --------------------------------
(***************************************************************************)
(* The low-battery service, pmic_lbat_service.c.  A user registers three   *)
(* thresholds hv >= lv1 >= lv2 and a callback.  The thresholds waited for  *)
(* are kept in two sorted lists; the first of each is programmed into the  *)
(* comparators of the PMIC.  The bat_h and bat_l handlers run one after    *)
(* the other in the interrupt thread of mt6358-irq.c, the debounce works   *)
(* in a single-threaded work queue, suspend and resume in a third thread   *)
(* that does not take lbat_mutex.                                          *)
(*                                                                         *)
(* A section of lbat_mutex is one step.  The code reads a list only        *)
(* through its first entry and through membership, so a list is a set; of  *)
(* two entries with the same voltage the one added last comes first, and   *)
(* which of the others follows is left open.  The enable bit common to     *)
(* both comparators goes with the bits of the sides.                       *)
(***************************************************************************)
EXTENDS Integers, FiniteSets

CONSTANTS
  Users,     \* callers of lbat_user_register
  Params,    \* the voltages each of them passes, in mV
  DebTimes,  \* the pairs of hv_deb_times and lv_deb_times each of them may set
  PmSleep,   \* CONFIG_PM_SLEEP: the system suspends and resumes
  Adc,       \* readings the battery voltage takes, raw
  None

Sides == {"hv", "lv"}
Kinds == {"hv", "lv1", "lv2"}
Thds == Users \X Kinds

THD_VOLT_MAX == 5400
THD_VOLT_MIN == 2650
USER_SIZE == 16

ASSUME ParamsType == Params \in [Users -> [Kinds -> Nat]]
ASSUME DebTimesType == DebTimes \in [Users -> SUBSET [Sides -> Nat]]
ASSUME PmSleepType == PmSleep \in BOOLEAN
ASSUME AdcType == Adc \subseteq Nat /\ Adc # {}
ASSUME NoneIsNew == None \notin Thds \cup Users
ASSUME TableFits == IsFiniteSet(Users) /\ Cardinality(Users) <= USER_SIZE

VARIABLES
  users,    \* lbat_user_table
  lb,       \* of each side: list, cur (cur_hv_ptr, cur_lv_ptr), volt (volt_max, volt_min)
  en,       \* max_en and min_en
  times,    \* of each user: hv_deb_times and lv_deb_times
  deb,      \* of each user: deb_thd_ptr
  cnt,      \* of each user: deb_cnt
  queued,   \* users whose deb_work is queued
  running,  \* the user whose deb_work has started
  mutex,    \* lbat_mutex outside its sections: "free", or "leaked"
  pending,  \* bits of the PMIC's interrupt status register
  status,   \* bits the interrupt thread has read
  todo,     \* those it has still to handle
  ipc,      \* where the interrupt thread is
  pm,       \* stage of suspend and resume
  saw,      \* result of the test resume has just made
  adc,      \* the battery voltage, raw
  told,     \* history: the last callback of each user
  ev,       \* history: the reading that raised each bit
  upset     \* history: "late" registrations and "stale" resumes

vars == <<users, lb, en, times, deb, cnt, queued, running, mutex, pending, status, todo,
          ipc, pm, saw, adc, told, ev, upset>>
debounce == <<deb, cnt, queued, running>>
irq == <<status, todo, ipc>>
power == <<pm, saw>>

TypeOK ==
  /\ users \subseteq Users
  /\ lb \in [list : [Sides -> SUBSET Thds], cur : [Sides -> Thds \cup {None}], volt : [Sides -> Nat]]
  /\ en \in [Sides -> BOOLEAN]
  /\ times \in [Users -> [Sides -> Nat]]
  /\ deb \in [Users -> Thds \cup {None}] /\ cnt \in [Users -> Nat]
  /\ queued \subseteq Users /\ running \in Users \cup {None}
  /\ mutex \in {"free", "leaked"}
  /\ pending \subseteq Sides /\ status \subseteq Sides /\ todo \subseteq Sides
  /\ ipc \in {"idle", "test", "off", "lock"}
  /\ pm \in {"awake", "suspend", "asleep", "max", "min"} /\ saw \in BOOLEAN
  /\ adc \in Adc /\ ev \in [Sides -> Nat]
  /\ told \in [Users -> Kinds \cup {"none"}]
  /\ upset \subseteq {"late", "stale"}

\* After pmic_lbat_service_probe.
Init ==
  /\ users = {}
  /\ lb = [list |-> [s \in Sides |-> {}], cur |-> [s \in Sides |-> None], volt |-> [s \in Sides |-> 0]]
  /\ en = [s \in Sides |-> FALSE]
  /\ times = [u \in Users |-> [s \in Sides |-> 0]]
  /\ deb = [u \in Users |-> None] /\ cnt = [u \in Users |-> 0]
  /\ queued = {} /\ running = None /\ mutex = "free"
  /\ pending = {} /\ status = {} /\ todo = {} /\ ipc = "idle"
  /\ pm = "awake" /\ saw = FALSE
  /\ adc \in Adc
  /\ told = [u \in Users |-> "none"]
  /\ ev = [s \in Sides |-> 0] /\ upset = {}
-----------------------------------------------------------------------------
(* Voltages.  VOLT_FULL * r_ratio[0] / r_ratio[1] is 6300 mV, LBAT_RES 12.  *)

\* Mutant: an offset taken off first.
VOLT_TO_RAW_Offset(mv) == ((mv - 3400) * 4096) \div 6300

VOLT_TO_RAW(mv) == (mv * 4096) \div 6300
lbat_read_volt == (adc * 6300) \div 4096

Volt(t) == Params[t[1]][t[2]]
SideOf(t) == IF t[2] = "hv" THEN "hv" ELSE "lv"

\* The comparator of a side fires for reading a when it is programmed to v.
Beyond(s, a, v) == IF s = "hv" THEN a >= v ELSE a <= v
-----------------------------------------------------------------------------
(* The lists.                                                              *)

\* hv_list_cmp and lv_list_cmp: a does not come after b.
NotAfter(s, a, b) == IF s = "hv" THEN Volt(a) <= Volt(b) ELSE Volt(a) >= Volt(b)
Firsts(s, L) == {a \in L : \A b \in L : NotAfter(s, a, b)}

\* The first entry of L after t was added at its head and L was sorted.
list_first_entry(s, L, t, c) ==
  IF t \in Firsts(s, L) THEN t
  ELSE IF c \in Firsts(s, L) THEN c ELSE CHOOSE a \in Firsts(s, L) : TRUE

modify_lbat_list(q, t) ==
  LET s == SideOf(t)
      L == q.list[s] \cup {t}
      f == list_first_entry(s, L, t, q.cur[s])
  IN [list |-> [q.list EXCEPT ![s] = L],
      cur  |-> [q.cur EXCEPT ![s] = f],
      volt |-> [q.volt EXCEPT ![s] = IF f = q.cur[s] THEN @ ELSE VOLT_TO_RAW(Volt(f))]]

\* Mutant: the entry stays on its list.
list_del_init_Forgotten(q, t) == q

list_del_init(q, t) == [q EXCEPT !.list[SideOf(t)] = @ \ {t}]

\* Mutants: lv2 is not waited for after lv1; lv2 takes the place of lv1.
lbat_set_next_thd_NoLv2(q, t) ==
  LET u == t[1]
      q1 == modify_lbat_list(q, <<u, IF t[2] = "hv" THEN "lv1" ELSE "hv">>)
  IN CASE t[2] = "hv" -> list_del_init(q1, <<u, "lv2">>)
       [] t[2] = "lv1" -> q1
       [] t[2] = "lv2" -> q

lbat_set_next_thd_Lv2First(q, t) ==
  LET u == t[1]
  IN CASE t[2] = "hv" -> modify_lbat_list(q, <<u, "lv2">>)
       [] t[2] = "lv1" -> modify_lbat_list(modify_lbat_list(q, <<u, "hv">>), <<u, "lv2">>)
       [] t[2] = "lv2" -> q

\* What is waited for after the callback for t.
lbat_set_next_thd(q, t) ==
  LET u == t[1]
      q1 == modify_lbat_list(q, <<u, IF t[2] = "hv" THEN "lv1" ELSE "hv">>)
      lv2 == <<u, "lv2">>
  IN CASE t[2] = "hv"  -> list_del_init(q1, lv2)
       [] t[2] = "lv1" -> IF lv2 \in q1.list["lv"] THEN q1 ELSE modify_lbat_list(q1, lv2)
       [] t[2] = "lv2" -> q

\* lbat_irq_disable, then lbat_irq_enable.
Rearmed(q) == [s \in Sides |-> q.cur[s] # None]

Tell(t) == told' = [told EXCEPT ![t[1]] = t[2]]
-----------------------------------------------------------------------------
(* lbat_user_register and lbat_user_set_debounce.                           *)

Accepted(u) ==
  LET p == Params[u] IN
    /\ p["hv"] < THD_VOLT_MAX /\ p["lv1"] > THD_VOLT_MIN
    /\ p["hv"] >= p["lv1"] /\ p["lv1"] >= p["lv2"] /\ p["lv2"] # 0

\* Mutant: the successful path does not release lbat_mutex either.
Register_KeepsMutex(u) ==
  /\ mutex = "free" /\ u \notin users /\ Accepted(u)
  /\ lb' = modify_lbat_list(lb, <<u, "lv1">>)
  /\ en' = IF users = {} THEN [s \in Sides |-> en[s] \/ lb'.cur[s] # None] ELSE en
  /\ users' = users \cup {u} /\ mutex' = "leaked"
  /\ UNCHANGED <<times, debounce, pending, irq, power, adc, told, ev, upset>>

Register(u) ==
  /\ mutex = "free" /\ u \notin users /\ Accepted(u)
  /\ lb' = modify_lbat_list(lb, <<u, "lv1">>)
  /\ en' = IF users = {} THEN [s \in Sides |-> en[s] \/ lb'.cur[s] # None] ELSE en
  /\ users' = users \cup {u}
  /\ upset' = IF users # {} /\ lb.cur["lv"] = None THEN upset \cup {"late"} ELSE upset
  /\ UNCHANGED <<times, debounce, mutex, pending, irq, power, adc, told, ev>>

\* The error paths return between mutex_lock and mutex_unlock.
RegisterError(u) ==
  /\ mutex = "free" /\ u \notin users /\ ~Accepted(u)
  /\ mutex' = "leaked"
  /\ UNCHANGED <<users, lb, en, times, debounce, pending, irq, power, adc, told, ev, upset>>

\* No lock: the four stores may come between any two steps of a handler.  The
\* callers do it once, when they have registered.
SetDebounce(u) ==
  /\ u \in users /\ times[u] = [s \in Sides |-> 0]
  /\ \E d \in DebTimes[u] : times' = [times EXCEPT ![u] = d]
  /\ UNCHANGED <<users, lb, en, debounce, mutex, pending, irq, power, adc, told, ev, upset>>
-----------------------------------------------------------------------------
(* The battery and the comparators, which sample all the time.              *)

BatteryMoves ==
  /\ adc' \in Adc \ {adc}
  /\ UNCHANGED <<users, lb, en, times, debounce, mutex, pending, irq, power, told, ev, upset>>

Detect(s) ==
  /\ en[s] /\ s \notin pending /\ Beyond(s, adc, lb.volt[s])
  /\ pending' = pending \cup {s} /\ ev' = [ev EXCEPT ![s] = adc]
  /\ UNCHANGED <<users, lb, en, times, debounce, mutex, irq, power, adc, told, upset>>
-----------------------------------------------------------------------------
(* The interrupt thread: mt6358_irq_sp_handler reads the status, calls      *)
(* bat_h_int_handler and bat_l_int_handler for the bits that are set, in    *)
(* this order, and then clears the bits it has read.                        *)

Turn == IF "hv" \in todo THEN "hv" ELSE "lv"

IrqRead ==
  /\ ipc = "idle" /\ pending # {}
  /\ status' = pending /\ todo' = pending /\ ipc' = "test"
  /\ UNCHANGED <<users, lb, en, times, debounce, mutex, pending, power, adc, told, ev, upset>>

\* The test of cur_hv_ptr or cur_lv_ptr before mutex_lock.
IrqTest ==
  /\ ipc = "test" /\ todo # {}
  /\ ipc' = IF lb.cur[Turn] = None THEN "off" ELSE "lock"
  /\ UNCHANGED <<users, lb, en, times, debounce, mutex, pending, status, todo, power, adc, told, ev, upset>>

IrqNone ==
  /\ ipc = "off"
  /\ en' = [en EXCEPT ![Turn] = FALSE]
  /\ todo' = todo \ {Turn} /\ ipc' = "test"
  /\ UNCHANGED <<users, lb, times, debounce, mutex, pending, status, power, adc, told, ev, upset>>

\* Mutant: the threshold that was removed stays current.
NextCur_Kept(q, s) == lb' = q

\* The end of a handler: the first entry of what is left of its list becomes current.
NextCur(q, s) ==
  \/ /\ q.list[s] = {}
     /\ lb' = [q EXCEPT !.cur[s] = None]
  \/ \E f \in Firsts(s, q.list[s]) : lb' = [q EXCEPT !.cur[s] = f, !.volt[s] = VOLT_TO_RAW(Volt(f))]

\* Mutant: the debounce work is not queued.
BatInt_NotQueued(s) ==
  LET t == lb.cur[s]
      u == t[1]
      q == list_del_init(lb, t)
  IN /\ ipc = "lock" /\ s = Turn /\ mutex = "free"
     /\ \/ /\ times[u][s] > 0
           /\ deb' = [deb EXCEPT ![u] = t] /\ NextCur(q, s) /\ UNCHANGED told
        \/ /\ times[u][s] = 0
           /\ Tell(t) /\ NextCur(lbat_set_next_thd(q, t), s) /\ UNCHANGED deb
     /\ en' = Rearmed(lb')
     /\ todo' = todo \ {s} /\ ipc' = "test"
     /\ UNCHANGED <<users, times, cnt, queued, running, mutex, pending, status, power, adc, ev, upset>>

\* bat_h_int_handler and bat_l_int_handler from mutex_lock on, s being their side.
BatInt(s) ==
  LET t == lb.cur[s]
      u == t[1]
      q == list_del_init(lb, t)
  IN /\ ipc = "lock" /\ s = Turn /\ mutex = "free"
     /\ \/ /\ times[u][s] > 0
           /\ deb' = [deb EXCEPT ![u] = t] /\ cnt' = [cnt EXCEPT ![u] = 0]
           /\ queued' = queued \cup {u}
           /\ NextCur(q, s)
           /\ UNCHANGED told
        \/ /\ times[u][s] = 0
           /\ Tell(t)
           /\ NextCur(lbat_set_next_thd(q, t), s)
           /\ UNCHANGED <<deb, cnt, queued>>
     /\ en' = Rearmed(lb')
     /\ todo' = todo \ {s} /\ ipc' = "test"
     /\ UNCHANGED <<users, times, running, mutex, pending, status, power, adc, ev, upset>>

\* Mutant: the bits are not cleared.
IrqAck_NotCleared ==
  /\ ipc = "test" /\ todo = {}
  /\ status' = {} /\ ipc' = "idle"
  /\ UNCHANGED <<users, lb, en, times, debounce, mutex, pending, todo, power, adc, told, ev, upset>>

IrqAck ==
  /\ ipc = "test" /\ todo = {}
  /\ pending' = pending \ status /\ status' = {} /\ ipc' = "idle"
  /\ ev' = [s \in Sides |-> IF s \in status THEN 0 ELSE ev[s]]
  /\ UNCHANGED <<users, lb, en, times, debounce, mutex, todo, power, adc, told, upset>>
-----------------------------------------------------------------------------
(* The work queue: lbat_deb_handler.  A work that has started and waits for *)
(* lbat_mutex is no longer queued, and can be queued again.                 *)

WorkStart(u) ==
  /\ running = None /\ u \in queued
  /\ running' = u /\ queued' = queued \ {u}
  /\ UNCHANGED <<users, lb, en, times, deb, cnt, mutex, pending, irq, power, adc, told, ev, upset>>

\* The voltage has gone back over the threshold under debounce.
Bounced(t) == IF SideOf(t) = "hv" THEN lbat_read_volt < Volt(t) ELSE lbat_read_volt > Volt(t)

\* Mutant: the comparators are not enabled for the thresholds put back.
DebReset_NotRearmed(u) ==
  /\ deb' = [deb EXCEPT ![u] = None] /\ cnt' = [cnt EXCEPT ![u] = 0]
  /\ UNCHANGED <<en, queued>>

\* Label done.
DebReset(u) ==
  /\ deb' = [deb EXCEPT ![u] = None] /\ cnt' = [cnt EXCEPT ![u] = 0]
  /\ en' = Rearmed(lb')
  /\ UNCHANGED queued

DebHandler(u) ==
  LET t == deb[u] IN
  /\ running = u /\ mutex = "free"
  /\ running' = None
  /\ \/ /\ t # None /\ Bounced(t)                                      \* ignore the event
        /\ lb' = modify_lbat_list(lb, t)
        /\ DebReset(u) /\ UNCHANGED told
     \/ /\ t # None /\ ~Bounced(t)
        /\ cnt[u] + 1 < times[u][SideOf(t)]                            \* look again
        /\ cnt' = [cnt EXCEPT ![u] = @ + 1] /\ queued' = queued \cup {u}
        /\ UNCHANGED <<lb, en, deb, told>>
     \/ /\ t # None /\ ~Bounced(t)
        /\ cnt[u] + 1 >= times[u][SideOf(t)]                           \* report it
        /\ Tell(t) /\ lb' = lbat_set_next_thd(lb, t)
        /\ DebReset(u)
     \/ /\ t = None                                                    \* not match
        /\ UNCHANGED <<lb, en, deb, cnt, queued, told>>
  /\ UNCHANGED <<users, times, mutex, pending, irq, power, adc, ev, upset>>
-----------------------------------------------------------------------------
(* lbat_service_suspend and lbat_service_resume, without lbat_mutex.        *)

\* lbat_irq_disable clears one enable bit after the other; a handler may come
\* in between and set both again.
SuspendClear(s, from, to) ==
  /\ pm = from /\ pm' = to
  /\ en' = [en EXCEPT ![s] = FALSE]
  /\ UNCHANGED <<users, lb, times, debounce, mutex, pending, irq, saw, adc, told, ev, upset>>

Suspend == PmSleep /\ SuspendClear("hv", "awake", "suspend")
SuspendMin == SuspendClear("lv", "suspend", "asleep")

\* lbat_irq_enable tests cur_hv_ptr ...
Resume ==
  /\ pm = "asleep"
  /\ pm' = "max" /\ saw' = (lb.cur["hv"] # None)
  /\ UNCHANGED <<users, lb, en, times, debounce, mutex, pending, irq, adc, told, ev, upset>>

\* ... sets a bit by a test that may be out of date by now.
ResumeSet(s) ==
  /\ en' = [en EXCEPT ![s] = @ \/ saw]
  /\ upset' = IF saw /\ lb.cur[s] = None THEN upset \cup {"stale"} ELSE upset
  /\ UNCHANGED <<users, lb, times, debounce, mutex, pending, irq, adc, told, ev>>

ResumeMax ==
  /\ pm = "max"
  /\ pm' = "min" /\ saw' = (lb.cur["lv"] # None)
  /\ ResumeSet("hv")

ResumeMin ==
  /\ pm = "min"
  /\ pm' = "awake" /\ saw' = FALSE
  /\ ResumeSet("lv")
-----------------------------------------------------------------------------
Next ==
  \/ \E u \in Users : Register(u) \/ RegisterError(u) \/ SetDebounce(u) \/ WorkStart(u) \/ DebHandler(u)
  \/ BatteryMoves
  \/ \E s \in Sides : Detect(s) \/ BatInt(s)
  \/ IrqRead \/ IrqTest \/ IrqNone \/ IrqAck
  \/ Suspend \/ SuspendMin \/ Resume \/ ResumeMax \/ ResumeMin

Spec == Init /\ [][Next]_vars

\* The comparators sample, the interrupt thread runs, and the work queue
\* takes the works in the order in which they were queued.
Fairness ==
  /\ \A s \in Sides : WF_vars(Detect(s)) /\ WF_vars(BatInt(s))
  /\ WF_vars(IrqRead) /\ WF_vars(IrqTest) /\ WF_vars(IrqNone) /\ WF_vars(IrqAck)
  /\ \A u \in Users : SF_vars(WorkStart(u)) /\ WF_vars(DebHandler(u))

LiveSpec == Spec /\ Fairness
-----------------------------------------------------------------------------
(* Properties.                                                             *)

UserView == INSTANCE LowBattery

\* Side s of q: the first of its list is current and programmed.
FirstAt(q, s) ==
  /\ q.cur[s] = None <=> q.list[s] = {}
  /\ q.cur[s] # None => /\ q.cur[s] \in Firsts(s, q.list[s])
                        /\ q.volt[s] = VOLT_TO_RAW(Volt(q.cur[s]))

\* Whenever lbat_mutex is free, the current threshold of a side is the first
\* of its list, it is NULL only when the list is empty, and the comparator is
\* programmed to it: over every mix of handlers, debounce works and
\* registrations, each of which updates cur_hv_ptr and cur_lv_ptr its own way.
CurIsFirst == \A s \in Sides : FirstAt(lb, s)

\* No entry is added to a list it is on, which would corrupt the list: of hv
\* and lv1 of a user one at most is waited for or debounced, and what is
\* debounced is on no list.
NoDoubleAdd ==
  \A u \in Users :
    /\ ~({<<u, "hv">>, <<u, "lv1">>} \subseteq lb.list["hv"] \cup lb.list["lv"] \cup {deb[u]})
    /\ deb[u] \notin lb.list["hv"] \cup lb.list["lv"]

\* An interrupt that is still to be handled was raised by a reading that has
\* reached the threshold the handler will take for its cause, although the
\* threshold may have changed since: nobody is told of a voltage that was not
\* there, until a resume has enabled a comparator that has no threshold any
\* more.  A handler that has tested for a threshold finds one under the lock.
EventIsReal ==
  /\ ipc = "lock" => lb.cur[Turn] # None
  /\ "stale" \notin upset =>
       \A s \in pending :
         \/ s \in status \ todo
         \/ lb.cur[s] # None /\ Beyond(s, ev[s], VOLT_TO_RAW(Volt(lb.cur[s])))

\* While the system is awake a side that has a threshold is enabled, unless a
\* user registered when all low thresholds were used up (lbat_user_update
\* enables the comparators for the first user only), or a resume wrote an
\* outdated bit.
Armed ==
  upset = {} /\ pm = "awake" => \A s \in Sides : lb.cur[s] # None => en[s]

\* Without low-side debouncing the service waits for exactly what the user has
\* to be told next: none of its thresholds is lost between the two lists, the
\* debounce work and the handlers, and none is reported twice.
ExactlyDue ==
  \A u \in users :
    /\ {k \in Kinds : <<u, k>> \in lb.list[SideOf(<<u, k>>)] \/ <<u, k>> = deb[u]} = UserView!Due(told[u])
    /\ deb[u] # None => u \in queued \/ running = u

\* "After execute lbat_user's callback, set next thd node to wait event": a
\* registered user has a threshold on a list or under debounce.
SomeThdWaits ==
  \A u \in users : deb[u] # None \/ \E k \in Kinds : <<u, k>> \in lb.list["hv"] \cup lb.list["lv"]

\* Each user is told lv1, perhaps lv2, hv, lv1, ... in turn (LowBattery).
InTurn == UserView!Spec

Calm(u) == u \in users /\ pm = "awake" /\ upset = {}
IsLow(u, k) == Calm(u) /\ adc <= VOLT_TO_RAW(Volt(<<u, k>>))
IsHigh(u) == Calm(u) /\ lbat_read_volt >= Volt(<<u, "hv">>)

\* A user is told when the battery stays at a low threshold or below: the
\* interrupts of the others, rearming and acknowledging do not lose the event.
LowTold ==
  \A u \in Users, k \in {"lv1", "lv2"} :
    <>[]IsLow(u, k) => <>[](told[u] \in {k, "lv2"})

\* A user that was told of a low battery is told when it stays above hv, with
\* and without debouncing.
HighTold ==
  \A u \in Users :
    <>[]IsHigh(u) => <>[](told[u] \in {"none", "hv"})
=============================================================================
