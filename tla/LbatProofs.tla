----------------------------- MODULE LbatProofs -----------------------------
(***************************************************************************)
(* Proofs about Lbat, for any users, voltages and readings.                *)
(***************************************************************************)
EXTENDS Lbat, TLAPS

Other(s) == IF s = "hv" THEN "lv" ELSE "hv"

\* What is on a list or under debounce belongs to a registered user, is on
\* its own side, and is debounced only with the work queued or started.
ListInv ==
  /\ \A s \in Sides : \A t \in lb.list[s] : SideOf(t) = s /\ t[1] \in users
  /\ \A u \in Users : deb[u] # None =>
       /\ deb[u][1] = u /\ u \in users
       /\ times[u][SideOf(deb[u])] > 0
       /\ u \in queued \/ running = u
  /\ \A u \in users : Accepted(u)

\* The bits the interrupt thread has to handle are pending.
BitsInv ==
  /\ todo \subseteq status /\ status \subseteq pending
  /\ ipc = "idle" => status = {}
  /\ ipc \in {"off", "lock"} => todo # {}

\* Until a stale resume an enabled comparator has a threshold.
EnInv ==
  "stale" \notin upset =>
    /\ \A s \in Sides : en[s] => lb.cur[s] # None
    /\ ipc # "off"

\* What suspend has switched off is on again when resume is done with it.
ArmInv ==
  upset = {} =>
    /\ pm \in {"awake", "min"} => (lb.cur["hv"] # None => en["hv"])
    /\ pm = "awake" => (lb.cur["lv"] # None => en["lv"])
    /\ pm = "max" => (lb.cur["hv"] # None => en["hv"] \/ saw)
    /\ pm = "min" => (lb.cur["lv"] # None => en["lv"] \/ saw)

\* The inductive invariant.
IInv ==
  /\ TypeOK /\ CurIsFirst /\ ListInv /\ NoDoubleAdd
  /\ BitsInv /\ EventIsReal /\ EnInv /\ ArmInv

\* The type of lb.
QType == [list : [Sides -> SUBSET Thds], cur : [Sides -> Thds \cup {None}], volt : [Sides -> Nat]]
\* The same with anything for the current thresholds and the registers.
Shape(q, X, Y) == q \in [list : [Sides -> SUBSET Thds], cur : [Sides -> X], volt : [Sides -> Y]]
-----------------------------------------------------------------------------
(* Voltages and lists.                                                     *)

\* A higher voltage never has a lower reading: VOLT_TO_RAW divides by a constant.
LEMMA RawMonotone ==
  ASSUME NEW a \in Nat, NEW b \in Nat, a <= b
  PROVE  VOLT_TO_RAW(a) \in Nat /\ VOLT_TO_RAW(a) <= VOLT_TO_RAW(b)
<1>1. a * 4096 \in Nat /\ b * 4096 \in Nat /\ a * 4096 <= b * 4096
  OBVIOUS
<1> QED
  BY <1>1 DEF VOLT_TO_RAW

\* A threshold is a pair of a user and a kind, with a voltage and a side.
LEMMA ThdType ==
  ASSUME NEW t \in Thds
  PROVE  /\ t[1] \in Users /\ t[2] \in Kinds /\ t = <<t[1], t[2]>>
         /\ Volt(t) \in Nat /\ VOLT_TO_RAW(Volt(t)) \in Nat
         /\ SideOf(t) \in Sides /\ t # None
<1>1. t[1] \in Users /\ t[2] \in Kinds /\ t = <<t[1], t[2]>>
  BY DEF Thds
<1>2. Volt(t) \in Nat
  BY <1>1, ParamsType DEF Volt
<1> QED
  BY <1>1, <1>2, RawMonotone, NoneIsNew DEF SideOf, Sides

\* The order of a list is total.
LEMMA OrderFacts ==
  ASSUME NEW s \in Sides, NEW a \in Thds, NEW b \in Thds, NEW c \in Thds
  PROVE  /\ NotAfter(s, a, a)
         /\ NotAfter(s, a, b) \/ NotAfter(s, b, a)
         /\ NotAfter(s, a, b) /\ NotAfter(s, b, c) => NotAfter(s, a, c)
BY ThdType DEF NotAfter

\* What a threshold in front of another does not need: a reading beyond the
\* second is beyond the first.
LEMMA BeyondCloser ==
  ASSUME NEW s \in Sides, NEW a \in Thds, NEW b \in Thds, NEW x \in Nat,
         NotAfter(s, a, b), Beyond(s, x, VOLT_TO_RAW(Volt(b)))
  PROVE  Beyond(s, x, VOLT_TO_RAW(Volt(a)))
<1>1. Volt(a) \in Nat /\ Volt(b) \in Nat
  BY ThdType
<1>2. CASE s = "hv"
  <2>1. VOLT_TO_RAW(Volt(a)) <= VOLT_TO_RAW(Volt(b)) /\ VOLT_TO_RAW(Volt(a)) \in Nat
    BY <1>1, <1>2, RawMonotone DEF NotAfter
  <2> QED
    BY <2>1, <1>1, <1>2, RawMonotone DEF Beyond
<1>3. CASE s = "lv"
  <2>1. VOLT_TO_RAW(Volt(b)) <= VOLT_TO_RAW(Volt(a)) /\ VOLT_TO_RAW(Volt(a)) \in Nat
    BY <1>1, <1>3, RawMonotone DEF NotAfter
  <2> QED
    BY <2>1, <1>1, <1>3, RawMonotone DEF Beyond
<1> QED
  BY <1>2, <1>3 DEF Sides

\* Adding t to a list whose first entry is c leaves t or c first.
LEMMA FirstAfterAdd ==
  ASSUME NEW s \in Sides, NEW L \in SUBSET Thds, NEW t \in Thds, NEW c \in Thds \cup {None},
         c = None <=> L = {}, c # None => c \in Firsts(s, L)
  PROVE  LET f == list_first_entry(s, L \cup {t}, t, c) IN
           /\ f \in {t, c} /\ f # None /\ f \in Firsts(s, L \cup {t})
           /\ c # None => NotAfter(s, f, c)
<1> DEFINE M == L \cup {t}
<1>1. M \subseteq Thds /\ t # None
  BY ThdType
<1>2. CASE t \in Firsts(s, M)
  <2>1. list_first_entry(s, M, t, c) = t
    BY <1>2 DEF list_first_entry
  <2>2. c # None => c \in M
    BY DEF Firsts
  <2> QED
    BY <2>1, <2>2, <1>1, <1>2 DEF Firsts
<1>3. CASE t \notin Firsts(s, M)
  <2>1. PICK b \in M : ~NotAfter(s, t, b)
    BY <1>3 DEF Firsts
  <2>2. b # t /\ b \in L
    BY <2>1, <1>1, OrderFacts
  <2>3. c \in L /\ c \in Thds /\ c # None
    BY <2>2, ThdType DEF Firsts
  <2>4. NotAfter(s, c, b) /\ NotAfter(s, b, t)
    BY <2>1, <2>2, <2>3, <1>1, OrderFacts DEF Firsts
  <2>5. NotAfter(s, c, t)
    BY <2>2, <2>3, <2>4, <1>1, OrderFacts
  <2>6. c \in Firsts(s, M)
    BY <2>3, <2>5 DEF Firsts
  <2>7. list_first_entry(s, M, t, c) = c
    BY <1>3, <2>6 DEF list_first_entry
  <2> QED
    BY <2>3, <2>6, <2>7, OrderFacts
<1> QED
  BY <1>2, <1>3

\* Removing something else from a list keeps its first entry.
LEMMA FirstAfterDel ==
  ASSUME NEW s \in Sides, NEW L \in SUBSET Thds, NEW t, NEW c \in Firsts(s, L), c # t
  PROVE  c \in Firsts(s, L \ {t})
BY DEF Firsts

\* modify_lbat_list on a side that is in order: the entry is on the list, the
\* side is in order again, and its threshold has only come closer.
LEMMA ModifyList ==
  ASSUME NEW q \in QType, NEW t \in Thds, FirstAt(q, SideOf(t))
  PROVE  LET m == modify_lbat_list(q, t)
             s == SideOf(t) IN
           /\ m \in QType
           /\ m.list = [q.list EXCEPT ![s] = @ \cup {t}]
           /\ \A x \in Sides : x # s => m.cur[x] = q.cur[x] /\ m.volt[x] = q.volt[x]
           /\ FirstAt(m, s) /\ m.cur[s] \in {t, q.cur[s]}
           /\ q.cur[s] # None => NotAfter(s, m.cur[s], q.cur[s])
<1> DEFINE s == SideOf(t)
           L == q.list[s]
           f == list_first_entry(s, L \cup {t}, t, q.cur[s])
           m == modify_lbat_list(q, t)
<1>1. /\ s \in Sides /\ L \in SUBSET Thds /\ q.cur[s] \in Thds \cup {None}
      /\ q.list \in [Sides -> SUBSET Thds] /\ q.cur \in [Sides -> Thds \cup {None}]
      /\ q.volt \in [Sides -> Nat]
  BY ThdType DEF QType
<1>2. /\ f \in {t, q.cur[s]} /\ f # None /\ f \in Firsts(s, L \cup {t})
      /\ q.cur[s] # None => NotAfter(s, f, q.cur[s])
  BY <1>1, FirstAfterAdd DEF FirstAt
<1>3. f \in Thds /\ VOLT_TO_RAW(Volt(f)) \in Nat
  BY <1>1, <1>2, ThdType
<1> DEFINE v == IF f = q.cur[s] THEN q.volt[s] ELSE VOLT_TO_RAW(Volt(f))
<1>4. v = VOLT_TO_RAW(Volt(f)) /\ v \in Nat
  BY <1>2, <1>3 DEF FirstAt
<1>5. m = [list |-> [q.list EXCEPT ![s] = L \cup {t}], cur |-> [q.cur EXCEPT ![s] = f],
           volt |-> [q.volt EXCEPT ![s] = v]]
  BY DEF modify_lbat_list
<1> HIDE DEF f, v, m
<1>6. /\ m.list = [q.list EXCEPT ![s] = @ \cup {t}] /\ m.list \in [Sides -> SUBSET Thds]
      /\ m.cur = [q.cur EXCEPT ![s] = f] /\ m.cur \in [Sides -> Thds \cup {None}]
      /\ m.volt = [q.volt EXCEPT ![s] = v] /\ m.volt \in [Sides -> Nat]
  BY <1>1, <1>3, <1>4, <1>5
<1>7. m \in QType
  BY <1>5, <1>6 DEF QType
<1>8. m.list[s] = L \cup {t} /\ m.cur[s] = f /\ m.volt[s] = v
  BY <1>1, <1>6
<1>9. FirstAt(m, s)
  BY <1>2, <1>4, <1>8 DEF FirstAt
<1> QED
  BY <1>1, <1>2, <1>6, <1>7, <1>8, <1>9 DEF m

\* modify_lbat_list does nothing to the other side, whatever its own is like.
LEMMA ModifyOther ==
  ASSUME NEW q \in QType, NEW t \in Thds
  PROVE  LET m == modify_lbat_list(q, t)
             s == SideOf(t) IN
           /\ \E X1, Y1 : Shape(m, X1, Y1)
           /\ m.list = [q.list EXCEPT ![s] = @ \cup {t}]
           /\ \A x \in Sides : x # s => m.cur[x] = q.cur[x] /\ m.volt[x] = q.volt[x]
<1> DEFINE s == SideOf(t)
           L == q.list[s]
           f == list_first_entry(s, L \cup {t}, t, q.cur[s])
           v == IF f = q.cur[s] THEN q.volt[s] ELSE VOLT_TO_RAW(Volt(f))
           m == modify_lbat_list(q, t)
<1>1. /\ s \in Sides /\ L \in SUBSET Thds
      /\ q.list \in [Sides -> SUBSET Thds] /\ q.cur \in [Sides -> Thds \cup {None}] /\ q.volt \in [Sides -> Nat]
  BY ThdType DEF QType
<1>2. m = [list |-> [q.list EXCEPT ![s] = L \cup {t}], cur |-> [q.cur EXCEPT ![s] = f],
           volt |-> [q.volt EXCEPT ![s] = v]]
  BY DEF modify_lbat_list
<1> HIDE DEF f, v, m
<1>3. /\ m.list = [q.list EXCEPT ![s] = @ \cup {t}] /\ m.list \in [Sides -> SUBSET Thds]
      /\ m.cur = [q.cur EXCEPT ![s] = f] /\ m.cur \in [Sides -> Thds \cup {None, f}]
      /\ m.volt = [q.volt EXCEPT ![s] = v] /\ m.volt \in [Sides -> Nat \cup {v}]
  BY <1>1, <1>2
<1>4. Shape(m, Thds \cup {None, f}, Nat \cup {v})
  BY <1>2, <1>3 DEF Shape
<1>5. \E X1, Y1 : Shape(m, X1, Y1)
  <2> WITNESS Thds \cup {None, f}, Nat \cup {v}
  <2> QED
    BY <1>4
<1> QED
  BY <1>1, <1>3, <1>5 DEF m

\* A side whose list, threshold and register are the same is in order as before.
LEMMA FirstAtSame ==
  ASSUME NEW q, NEW r, NEW s, r.list[s] = q.list[s], r.cur[s] = q.cur[s], r.volt[s] = q.volt[s], FirstAt(q, s)
  PROVE  FirstAt(r, s)
BY DEF FirstAt

\* After hv: lv1 is waited for and lv2 is not.  lv2 was not the current
\* threshold, because lv1 came before it.
LEMMA NextAfterHv ==
  ASSUME NEW q \in QType, NEW u \in Users, Accepted(u), FirstAt(q, "lv")
  PROVE  LET n == lbat_set_next_thd(q, <<u, "hv">>) IN
           /\ n \in QType
           /\ n.list["hv"] = q.list["hv"]
           /\ n.list["lv"] = (q.list["lv"] \cup {<<u, "lv1">>}) \ {<<u, "lv2">>}
           /\ n.cur["hv"] = q.cur["hv"] /\ n.volt["hv"] = q.volt["hv"]
           /\ FirstAt(n, "lv") /\ n.cur["lv"] # None
           /\ q.cur["lv"] # None => NotAfter("lv", n.cur["lv"], q.cur["lv"])
<1> DEFINE t == <<u, "lv1">>
           d == <<u, "lv2">>
           m == modify_lbat_list(q, t)
           n == lbat_set_next_thd(q, <<u, "hv">>)
<1>1. t \in Thds /\ d \in Thds /\ SideOf(t) = "lv" /\ SideOf(d) = "lv" /\ "lv" \in Sides /\ "hv" \in Sides
  BY DEF Thds, Kinds, SideOf, Sides
<1>2. n = list_del_init(m, d)
  BY DEF lbat_set_next_thd
<1>3. /\ m \in QType /\ m.list = [q.list EXCEPT !["lv"] = @ \cup {t}]
      /\ m.cur["hv"] = q.cur["hv"] /\ m.volt["hv"] = q.volt["hv"]
      /\ FirstAt(m, "lv") /\ m.cur["lv"] \in {t, q.cur["lv"]}
      /\ q.cur["lv"] # None => NotAfter("lv", m.cur["lv"], q.cur["lv"])
  <2> HIDE DEF m, t
  <2> QED
    BY <1>1, ModifyList DEF m, Sides
<1> HIDE DEF m, n
<1>4. m.list["lv"] = q.list["lv"] \cup {t} /\ m.list["hv"] = q.list["hv"]
  BY <1>1, <1>3 DEF QType
<1>5. n = [m EXCEPT !.list["lv"] = @ \ {d}]
  BY <1>1, <1>2 DEF list_del_init
<1>6. /\ n \in QType /\ n.list["lv"] = m.list["lv"] \ {d} /\ n.list["hv"] = m.list["hv"]
      /\ n.cur = m.cur /\ n.volt = m.volt
  BY <1>1, <1>3, <1>5 DEF QType
<1>7. m.cur["lv"] # None /\ m.cur["lv"] \in Firsts("lv", m.list["lv"])
  BY <1>3, <1>4 DEF FirstAt
<1>8. m.cur["lv"] # d
  <2> SUFFICES ASSUME m.cur["lv"] = d PROVE FALSE
    OBVIOUS
  <2>1. d # t /\ d = q.cur["lv"]
    BY <1>3
  <2>2. t \notin Firsts("lv", m.list["lv"])
    <3>1. list_first_entry("lv", q.list["lv"] \cup {t}, t, q.cur["lv"]) = d
      BY <1>1 DEF m, modify_lbat_list, QType
    <3> QED
      BY <3>1, <2>1, <1>4 DEF list_first_entry
  <2>3. PICK b \in m.list["lv"] : ~NotAfter("lv", t, b)
    BY <2>2, <1>4 DEF Firsts
  <2>4. b \in Thds /\ NotAfter("lv", d, b)
    BY <2>3, <1>1, <1>3, <1>7 DEF Firsts, QType
  <2>5. Volt(t) >= Volt(d) /\ Volt(t) \in Nat /\ Volt(d) \in Nat /\ Volt(b) \in Nat
    BY <1>1, <2>4, ThdType DEF Accepted, Volt
  <2> QED
    BY <2>3, <2>4, <2>5 DEF NotAfter
<1>9. FirstAt(n, "lv")
  <2>1. m.cur["lv"] \in Firsts("lv", m.list["lv"] \ {d})
    BY <1>1, <1>3, <1>7, <1>8, FirstAfterDel DEF QType
  <2> QED
    BY <2>1, <1>3, <1>6, <1>7 DEF FirstAt, Firsts
<1> QED
  BY <1>3, <1>4, <1>6, <1>7, <1>9 DEF n

\* After lv1: hv and lv2 are waited for.
LEMMA NextAfterLv1 ==
  ASSUME NEW q \in QType, NEW u \in Users, FirstAt(q, "hv")
  PROVE  LET n == lbat_set_next_thd(q, <<u, "lv1">>) IN
           /\ \E X, Y : Shape(n, X, Y)
           /\ n.list["hv"] = q.list["hv"] \cup {<<u, "hv">>}
           /\ n.list["lv"] = q.list["lv"] \cup {<<u, "lv2">>}
           /\ FirstAt(n, "hv") /\ n.cur["hv"] \in Thds /\ n.volt["hv"] \in Nat
           /\ q.cur["hv"] # None => NotAfter("hv", n.cur["hv"], q.cur["hv"])
           /\ FirstAt(q, "lv") => /\ n \in QType /\ FirstAt(n, "lv")
                                  /\ q.cur["lv"] # None => NotAfter("lv", n.cur["lv"], q.cur["lv"])
<1> DEFINE t == <<u, "hv">>
           d == <<u, "lv2">>
           m == modify_lbat_list(q, t)
           r == modify_lbat_list(m, d)
           n == lbat_set_next_thd(q, <<u, "lv1">>)
<1>1. t \in Thds /\ d \in Thds /\ SideOf(t) = "hv" /\ SideOf(d) = "lv" /\ "lv" \in Sides /\ "hv" \in Sides
  BY DEF Thds, Kinds, SideOf, Sides
<1>2. n = IF d \in m.list["lv"] THEN m ELSE r
  BY DEF lbat_set_next_thd
<1>3. /\ m \in QType /\ m.list = [q.list EXCEPT !["hv"] = @ \cup {t}]
      /\ m.cur["lv"] = q.cur["lv"] /\ m.volt["lv"] = q.volt["lv"]
      /\ FirstAt(m, "hv")
      /\ q.cur["hv"] # None => NotAfter("hv", m.cur["hv"], q.cur["hv"])
  <2> HIDE DEF m, t
  <2> QED
    BY <1>1, ModifyList DEF m, Sides
<1>4. m.list["hv"] = q.list["hv"] \cup {t} /\ m.list["lv"] = q.list["lv"]
  BY <1>1, <1>3 DEF QType
<1>5. /\ \E X, Y : Shape(r, X, Y)
      /\ r.list = [m.list EXCEPT !["lv"] = @ \cup {d}]
      /\ r.cur["hv"] = m.cur["hv"] /\ r.volt["hv"] = m.volt["hv"]
  <2> HIDE DEF m, d
  <2>2. /\ \E X1, Y1 : Shape(r, X1, Y1)
        /\ r.list = [m.list EXCEPT ![SideOf(d)] = @ \cup {d}]
        /\ \A y \in Sides : y # SideOf(d) => r.cur[y] = m.cur[y] /\ r.volt[y] = m.volt[y]
    BY <1>1, <1>3, ModifyOther
  <2> HIDE DEF r
  <2> QED
    BY <2>2, <1>1
<1>6. FirstAt(m, "lv") => /\ r \in QType /\ FirstAt(r, "lv")
                          /\ m.cur["lv"] # None => NotAfter("lv", r.cur["lv"], m.cur["lv"])
  <2> HIDE DEF m, d
  <2>1. ASSUME FirstAt(m, SideOf(d))
        PROVE  /\ r \in QType /\ FirstAt(r, SideOf(d))
               /\ m.cur[SideOf(d)] # None => NotAfter(SideOf(d), r.cur[SideOf(d)], m.cur[SideOf(d)])
    BY <2>1, <1>1, <1>3, ModifyList
  <2> HIDE DEF r
  <2> QED
    BY <2>1, <1>1
<1>7. FirstAt(q, "lv") => FirstAt(m, "lv")
  BY <1>3, <1>4, FirstAtSame
<1>8. m.cur["hv"] \in Thds /\ m.volt["hv"] \in Nat
  BY <1>1, <1>3, <1>4 DEF QType, FirstAt
<1> HIDE DEF m, r, n
<1>9. CASE d \in m.list["lv"]
  <2>1. n = m
    BY <1>2, <1>9
  <2>2. Shape(m, Thds \cup {None}, Nat)
    BY <1>3 DEF Shape, QType
  <2>3. FirstAt(q, "lv") => (q.cur["lv"] # None => NotAfter("lv", m.cur["lv"], q.cur["lv"]))
    BY <1>1, <1>3, OrderFacts DEF QType
  <2> QED
    BY <2>1, <2>2, <2>3, <1>3, <1>4, <1>7, <1>8, <1>9 DEF n
<1>10. CASE d \notin m.list["lv"]
  <2>1. n = r
    BY <1>2, <1>10
  <2>2. r.list["hv"] = m.list["hv"] /\ r.list["lv"] = m.list["lv"] \cup {d}
    BY <1>1, <1>3, <1>5 DEF QType
  <2>3. FirstAt(r, "hv")
    BY <1>3, <1>5, <2>2, FirstAtSame
  <2> QED
    BY <2>1, <2>2, <2>3, <1>3, <1>4, <1>5, <1>6, <1>7, <1>8 DEF n
<1> QED
  BY <1>9, <1>10

\* After lv2: nothing new.
LEMMA NextAfterLv2 ==
  ASSUME NEW q, NEW u PROVE lbat_set_next_thd(q, <<u, "lv2">>) = q
BY DEF lbat_set_next_thd

-----------------------------------------------------------------------------
(* What the steps do to the lists.                                         *)

\* The threshold of side x, if there is one, has only come closer.
Closer(x) ==
  lb.cur[x] # None => lb'.cur[x] # None /\ NotAfter(x, lb'.cur[x], lb.cur[x])

\* The thresholds of users other than u are waited for as before.
OnlyOf(u) ==
  \A x \in Sides : \A w \in Thds : w[1] # u => (w \in lb'.list[x] <=> w \in lb.list[x])

\* list_del_init takes an entry off its list and does nothing else.
LEMMA DelInit ==
  ASSUME NEW q \in QType, NEW t \in Thds, NEW s, s = SideOf(t)
  PROVE  LET r == list_del_init(q, t) IN
           /\ r \in QType /\ r.cur = q.cur /\ r.volt = q.volt
           /\ r.list[s] = q.list[s] \ {t}
           /\ \A x \in Sides : x # s => r.list[x] = q.list[x]
<1>1. s \in Sides
  BY ThdType
<1>2. list_del_init(q, t) = [q EXCEPT !.list[s] = @ \ {t}]
  BY DEF list_del_init
<1> QED
  BY <1>1, <1>2 DEF QType

\* The end of a handler puts its side in order whatever it found there.
LEMMA NextCurOrders ==
  ASSUME NEW n, NEW X, NEW Y, Shape(n, X, Y), NEW s \in Sides, NEW o \in Sides, o # s,
         FirstAt(n, o), n.cur[o] \in Thds \cup {None}, n.volt[o] \in Nat,
         n.list[s] = {} => n.volt[s] \in Nat, NextCur(n, s)
  PROVE  /\ lb' \in QType /\ lb'.list = n.list
         /\ lb'.cur[o] = n.cur[o] /\ CurIsFirst'
<1>1. /\ n.list \in [Sides -> SUBSET Thds] /\ n.cur \in [Sides -> X] /\ n.volt \in [Sides -> Y]
      /\ n = [list |-> n.list, cur |-> n.cur, volt |-> n.volt]
  BY DEF Shape
<1>2. Sides = {s, o}
  BY DEF Sides
<1>3. PICK f \in Thds \cup {None}, v \in Y \cup Nat :
        /\ lb' = [list |-> n.list, cur |-> [n.cur EXCEPT ![s] = f], volt |-> [n.volt EXCEPT ![s] = v]]
        /\ f = None <=> n.list[s] = {}
        /\ f = None => v = n.volt[s]
        /\ f # None => f \in Firsts(s, n.list[s]) /\ v = VOLT_TO_RAW(Volt(f))
  <2>1. CASE n.list[s] = {} /\ lb' = [n EXCEPT !.cur[s] = None]
    <3>1. n.volt[s] \in Y \cup Nat
      BY <1>1
    <3> USE <3>1
    <3> WITNESS None \in Thds \cup {None}, n.volt[s] \in Y \cup Nat
    <3> QED
      BY <2>1, <1>1
  <2>2. ASSUME NEW g \in Firsts(s, n.list[s]),
               lb' = [n EXCEPT !.cur[s] = g, !.volt[s] = VOLT_TO_RAW(Volt(g))]
        PROVE  \E f \in Thds \cup {None}, v \in Y \cup Nat :
                 /\ lb' = [list |-> n.list, cur |-> [n.cur EXCEPT ![s] = f], volt |-> [n.volt EXCEPT ![s] = v]]
                 /\ f = None <=> n.list[s] = {}
                 /\ f = None => v = n.volt[s]
                 /\ f # None => f \in Firsts(s, n.list[s]) /\ v = VOLT_TO_RAW(Volt(f))
    <3>1. g \in n.list[s] /\ g \in Thds /\ g # None
      BY <1>1, <2>2, ThdType DEF Firsts
    <3>2. g \in Thds \cup {None} /\ VOLT_TO_RAW(Volt(g)) \in Y \cup Nat
      BY <3>1, ThdType
    <3> USE <3>2
    <3> WITNESS g \in Thds \cup {None}, VOLT_TO_RAW(Volt(g)) \in Y \cup Nat
    <3> QED
      BY <2>2, <3>1, <1>1
  <2> QED
    BY <2>1, <2>2 DEF NextCur
<1>4. v \in Nat
  BY <1>3, ThdType
<1>5. /\ lb'.list = n.list /\ lb'.cur = [n.cur EXCEPT ![s] = f] /\ lb'.volt = [n.volt EXCEPT ![s] = v]
      /\ lb'.cur[s] = f /\ lb'.cur[o] = n.cur[o] /\ lb'.volt[s] = v /\ lb'.volt[o] = n.volt[o]
  BY <1>1, <1>3
<1>6. lb'.cur \in [Sides -> Thds \cup {None}] /\ lb'.volt \in [Sides -> Nat]
  BY <1>1, <1>2, <1>4, <1>5
<1>7. lb' \in QType
  BY <1>1, <1>3, <1>5, <1>6 DEF QType
<1>8. FirstAt(lb', s)
  BY <1>3, <1>5 DEF FirstAt
<1>9. FirstAt(lb', o)
  BY <1>5, FirstAtSame
<1> QED
  BY <1>2, <1>5, <1>7, <1>8, <1>9 DEF CurIsFirst

\* The thresholds of u are waited for as if k had just been reported.
ListsAfter(u, k) ==
  CASE k = "hv"  -> /\ lb'.list["hv"] = lb.list["hv"] \ {<<u, "hv">>}
                    /\ lb'.list["lv"] = (lb.list["lv"] \cup {<<u, "lv1">>}) \ {<<u, "lv2">>}
    [] k = "lv1" -> /\ lb'.list["hv"] = lb.list["hv"] \cup {<<u, "hv">>}
                    /\ lb'.list["lv"] = (lb.list["lv"] \ {<<u, "lv1">>}) \cup {<<u, "lv2">>}
    [] k = "lv2" -> /\ lb'.list["hv"] = lb.list["hv"]
                    /\ lb'.list["lv"] = lb.list["lv"] \ {<<u, "lv2">>}

\* A handler finds its threshold on its list, puts both sides in order again,
\* and brings the threshold of the other side only closer.
LEMMA BatIntLists ==
  ASSUME IInv, NEW s \in Sides, BatInt(s)
  PROVE  LET t == lb.cur[s] IN
           /\ t \in Thds /\ t \in lb.list[s] /\ SideOf(t) = s /\ t[1] \in users
           /\ lb' \in QType /\ CurIsFirst' /\ Closer(Other(s))
           /\ \/ /\ times[t[1]][s] > 0
                 /\ lb'.list[s] = lb.list[s] \ {t} /\ lb'.list[Other(s)] = lb.list[Other(s)]
              \/ /\ times[t[1]][s] = 0
                 /\ ListsAfter(t[1], t[2])
<1> DEFINE t == lb.cur[s]
           u == t[1]
           o == Other(s)
           q == list_del_init(lb, t)
           n == lbat_set_next_thd(q, t)
<1>1. o \in Sides /\ o # s /\ lb \in QType /\ FirstAt(lb, s) /\ FirstAt(lb, o)
  BY DEF Other, Sides, IInv, TypeOK, CurIsFirst, QType
<1>2. t # None
  BY DEF IInv, EventIsReal, BatInt
<1>3. t \in Thds /\ t \in lb.list[s]
  BY <1>1, <1>2 DEF QType, FirstAt, Firsts
<1>4. SideOf(t) = s /\ u \in users /\ u \in Users /\ Accepted(u)
  BY <1>3 DEF IInv, ListInv, TypeOK
<1>5. /\ q \in QType /\ q.cur = lb.cur /\ q.volt = lb.volt
      /\ q.list[s] = lb.list[s] \ {t} /\ q.list[o] = lb.list[o]
  <2> HIDE DEF t
  <2> QED
    BY <1>1, <1>3, <1>4, DelInit
<1> HIDE DEF q
<1>6. FirstAt(q, o)
  BY <1>1, <1>5, FirstAtSame
<1>7. q.cur \in [Sides -> Thds \cup {None}] /\ q.volt \in [Sides -> Nat] /\ Shape(q, Thds \cup {None}, Nat)
  BY <1>5 DEF QType, Shape
<1>8. CASE times[u][s] > 0
  <2>1. NextCur(q, s)
    BY <1>8 DEF BatInt, q
  <2>2. lb' \in QType /\ lb'.list = q.list /\ lb'.cur[o] = q.cur[o] /\ CurIsFirst'
    BY <1>1, <1>6, <1>7, <2>1, NextCurOrders
  <2>3. Closer(o)
    BY <2>2, <1>1, <1>5, <1>7, OrderFacts DEF Closer
  <2> QED
    BY <2>2, <2>3, <1>3, <1>4, <1>5, <1>8
<1>9. CASE times[u][s] = 0
  <2>1. NextCur(n, s)
    BY <1>9 DEF BatInt, q
  <2> SUFFICES lb' \in QType /\ CurIsFirst' /\ Closer(o) /\ ListsAfter(u, t[2])
    BY <1>3, <1>4, <1>9
  <2>2. t = <<u, t[2]>> /\ t[2] \in Kinds
    BY <1>3, ThdType
  <2>3. CASE t[2] = "hv"
    <3>1. s = "hv" /\ o = "lv"
      BY <2>3, <1>4 DEF SideOf, Other
    <3>2. /\ n \in QType /\ n.list["hv"] = q.list["hv"]
          /\ n.list["lv"] = (q.list["lv"] \cup {<<u, "lv1">>}) \ {<<u, "lv2">>}
          /\ FirstAt(n, "lv") /\ n.cur["lv"] # None
          /\ q.cur["lv"] # None => NotAfter("lv", n.cur["lv"], q.cur["lv"])
      <4> HIDE DEF t
      <4> QED
        BY <1>4, <1>5, <1>6, <2>2, <2>3, <3>1, NextAfterHv
    <3> HIDE DEF n
    <3>3. Shape(n, Thds \cup {None}, Nat) /\ n.cur[o] \in Thds \cup {None} /\ n.volt[o] \in Nat /\ n.volt[s] \in Nat
      BY <1>1, <3>2 DEF QType, Shape
    <3>4. lb' \in QType /\ lb'.list = n.list /\ lb'.cur[o] = n.cur[o] /\ CurIsFirst'
      BY <2>1, <1>1, <3>1, <3>2, <3>3, NextCurOrders
    <3>5. Closer(o)
      BY <3>1, <3>2, <3>4, <1>5 DEF Closer
    <3>6. ListsAfter(u, t[2])
      <4>1. /\ lb'.list["hv"] = lb.list["hv"] \ {<<u, "hv">>}
            /\ lb'.list["lv"] = (lb.list["lv"] \cup {<<u, "lv1">>}) \ {<<u, "lv2">>}
        BY <1>5, <2>2, <2>3, <3>1, <3>2, <3>4, SMTT(20)
      <4> QED
        BY <2>3, <4>1 DEF ListsAfter
    <3> QED
      BY <3>4, <3>5, <3>6
  <2>4. CASE t[2] = "lv1"
    <3>1. s = "lv" /\ o = "hv"
      BY <2>4, <1>4 DEF SideOf, Other
    <3>2. /\ \E X, Y : Shape(n, X, Y)
          /\ n.list["hv"] = q.list["hv"] \cup {<<u, "hv">>}
          /\ n.list["lv"] = q.list["lv"] \cup {<<u, "lv2">>}
          /\ FirstAt(n, "hv") /\ n.cur["hv"] \in Thds /\ n.volt["hv"] \in Nat
          /\ q.cur["hv"] # None => NotAfter("hv", n.cur["hv"], q.cur["hv"])
      <4> HIDE DEF t
      <4> QED
        BY <1>4, <1>5, <1>6, <2>2, <2>4, <3>1, NextAfterLv1
    <3> HIDE DEF n
    <3>3. PICK X, Y : Shape(n, X, Y)
      BY <3>2
    <3>4. n.list[s] # {} /\ n.cur[o] # None
      BY <3>1, <3>2, ThdType
    <3>5. lb' \in QType /\ lb'.list = n.list /\ lb'.cur[o] = n.cur[o] /\ CurIsFirst'
      BY <2>1, <1>1, <3>1, <3>2, <3>3, <3>4, NextCurOrders
    <3>6. Closer(o)
      BY <3>1, <3>2, <3>4, <3>5, <1>5 DEF Closer
    <3>7. ListsAfter(u, t[2])
      BY <1>5, <2>2, <2>4, <3>1, <3>2, <3>5 DEF ListsAfter
    <3> QED
      BY <3>5, <3>6, <3>7
  <2>5. CASE t[2] = "lv2"
    <3>1. s = "lv" /\ o = "hv"
      BY <2>5, <1>4 DEF SideOf, Other
    <3>2. n = q
      <4> HIDE DEF t
      <4> QED
        BY <2>2, <2>5, NextAfterLv2
    <3>3. lb' \in QType /\ lb'.list = q.list /\ lb'.cur[o] = q.cur[o] /\ CurIsFirst'
      <4> HIDE DEF n
      <4> QED
        BY <1>1, <1>6, <1>7, <2>1, <3>2, NextCurOrders
    <3>4. Closer(o)
      BY <3>3, <1>1, <1>5, <1>7, OrderFacts DEF Closer
    <3>5. ListsAfter(u, t[2])
      BY <1>5, <2>2, <2>5, <3>1, <3>3 DEF ListsAfter
    <3> QED
      BY <3>3, <3>4, <3>5
  <2> QED
    BY <2>2, <2>3, <2>4, <2>5 DEF Kinds
<1>10. times[u][s] > 0 \/ times[u][s] = 0
  BY DEF BatInt
<1> QED
  BY <1>8, <1>9, <1>10

\* Adding an entry brings the threshold of its side closer and leaves the
\* other side alone.
LEMMA AddCloser ==
  ASSUME IInv, NEW t \in Thds, lb' = modify_lbat_list(lb, t)
  PROVE  /\ lb' \in QType /\ CurIsFirst' /\ \A x \in Sides : Closer(x)
         /\ \A x \in Sides : lb'.list[x] = IF x = SideOf(t) THEN lb.list[x] \cup {t} ELSE lb.list[x]
         /\ \A x \in Sides : x # SideOf(t) => lb'.cur[x] = lb.cur[x]
<1> DEFINE s == SideOf(t)
<1>1. s \in Sides /\ lb \in QType /\ \A x \in Sides : FirstAt(lb, x)
  BY ThdType DEF IInv, TypeOK, CurIsFirst, QType
<1>2. /\ lb' \in QType /\ lb'.list = [lb.list EXCEPT ![s] = @ \cup {t}]
      /\ \A x \in Sides : x # s => lb'.cur[x] = lb.cur[x] /\ lb'.volt[x] = lb.volt[x]
      /\ FirstAt(lb', s) /\ lb'.cur[s] \in {t, lb.cur[s]}
      /\ lb.cur[s] # None => NotAfter(s, lb'.cur[s], lb.cur[s])
  BY <1>1, ModifyList
<1>3. \A x \in Sides : lb'.list[x] = IF x = s THEN lb.list[x] \cup {t} ELSE lb.list[x]
  BY <1>1, <1>2 DEF QType
<1> HIDE DEF s
<1>4. ASSUME NEW x \in Sides PROVE FirstAt(lb', x) /\ Closer(x)
  <2>1. CASE x = s
    BY <1>1, <1>2, <2>1, ThdType DEF Closer
  <2>2. CASE x # s
    <3>1. FirstAt(lb', x)
      BY <1>1, <1>2, <1>3, <2>2, FirstAtSame
    <3>2. lb.cur[x] \in Thds \cup {None} /\ lb'.cur[x] = lb.cur[x]
      BY <1>1, <1>2, <2>2 DEF QType
    <3> QED
      BY <3>1, <3>2, OrderFacts DEF Closer
  <2> QED
    BY <2>1, <2>2
<1> QED
  BY <1>2, <1>3, <1>4 DEF CurIsFirst, s

\* The report of a debounced threshold leaves the lists as the handlers do.
LEMMA ReportLists ==
  ASSUME IInv, NEW u \in users, NEW t \in Thds, t[1] = u, t \notin lb.list[SideOf(t)],
         lb' = lbat_set_next_thd(lb, t)
  PROVE  /\ lb' \in QType /\ CurIsFirst' /\ \A x \in Sides : Closer(x)
         /\ ListsAfter(u, t[2])
<1>1. /\ lb \in QType /\ FirstAt(lb, "hv") /\ FirstAt(lb, "lv") /\ Sides = {"hv", "lv"}
      /\ u \in Users /\ Accepted(u)
  BY DEF IInv, TypeOK, CurIsFirst, QType, ListInv, Sides
<1>2. t = <<u, t[2]>> /\ t[2] \in Kinds
  BY ThdType
<1>3. ASSUME NEW x \in Sides, lb'.cur[x] = lb.cur[x] PROVE Closer(x)
  <2>1. lb.cur[x] \in Thds \cup {None}
    BY <1>1 DEF QType
  <2> QED
    BY <1>3, <2>1, OrderFacts DEF Closer
<1>4. CASE t[2] = "hv"
  <2>1. /\ lb' \in QType /\ lb'.list["hv"] = lb.list["hv"]
        /\ lb'.list["lv"] = (lb.list["lv"] \cup {<<u, "lv1">>}) \ {<<u, "lv2">>}
        /\ lb'.cur["hv"] = lb.cur["hv"] /\ lb'.volt["hv"] = lb.volt["hv"]
        /\ FirstAt(lb', "lv") /\ lb'.cur["lv"] # None
        /\ lb.cur["lv"] # None => NotAfter("lv", lb'.cur["lv"], lb.cur["lv"])
    BY <1>1, <1>2, <1>4, NextAfterHv
  <2>2. FirstAt(lb', "hv") /\ Closer("hv") /\ Closer("lv")
    BY <1>1, <1>3, <2>1, FirstAtSame DEF Closer
  <2>3. t \notin lb.list["hv"]
    BY <1>4 DEF SideOf
  <2>4. ListsAfter(u, t[2])
    BY <1>2, <1>4, <2>1, <2>3 DEF ListsAfter
  <2> QED
    BY <1>1, <2>1, <2>2, <2>4 DEF CurIsFirst
<1>5. CASE t[2] = "lv1"
  <2>1. /\ lb'.list["hv"] = lb.list["hv"] \cup {<<u, "hv">>}
        /\ lb'.list["lv"] = lb.list["lv"] \cup {<<u, "lv2">>}
        /\ FirstAt(lb', "hv") /\ lb'.cur["hv"] \in Thds /\ lb'.volt["hv"] \in Nat
        /\ lb.cur["hv"] # None => NotAfter("hv", lb'.cur["hv"], lb.cur["hv"])
        /\ lb' \in QType /\ FirstAt(lb', "lv")
        /\ lb.cur["lv"] # None => NotAfter("lv", lb'.cur["lv"], lb.cur["lv"])
    BY <1>1, <1>2, <1>5, NextAfterLv1
  <2>2. lb'.cur["lv"] # None /\ lb'.cur["hv"] # None
    BY <2>1, ThdType DEF FirstAt
  <2>3. Closer("hv") /\ Closer("lv")
    BY <2>1, <2>2 DEF Closer
  <2>4. t \notin lb.list["lv"]
    BY <1>5 DEF SideOf
  <2>5. ListsAfter(u, t[2])
    BY <1>2, <1>5, <2>1, <2>4 DEF ListsAfter
  <2> QED
    BY <1>1, <2>1, <2>3, <2>5 DEF CurIsFirst
<1>6. CASE t[2] = "lv2"
  <2>1. lb' = lb
    BY <1>2, <1>6, NextAfterLv2
  <2>2. t \notin lb.list["lv"]
    BY <1>6 DEF SideOf
  <2>3. ListsAfter(u, t[2])
    BY <1>2, <1>6, <2>1, <2>2 DEF ListsAfter
  <2> QED
    BY <1>1, <1>3, <2>1, <2>3 DEF CurIsFirst
<1> QED
  BY <1>2, <1>4, <1>5, <1>6 DEF Kinds

\* The lists hold entries of registered users, each on its own side.
OnSide == \A s \in Sides : \A t \in lb.list[s] : SideOf(t) = s /\ t[1] \in users

\* NoDoubleAdd for one user.
Single(u) ==
  /\ \/ <<u, "hv">> \notin lb.list["hv"] /\ <<u, "hv">> \notin lb.list["lv"] /\ <<u, "hv">> # deb[u]
     \/ <<u, "lv1">> \notin lb.list["hv"] /\ <<u, "lv1">> \notin lb.list["lv"] /\ <<u, "lv1">> # deb[u]
  /\ deb[u] \notin lb.list["hv"] /\ deb[u] \notin lb.list["lv"]

\* A step that touches the lists and the debounced threshold of one user only.
LEMMA SingleOther ==
  ASSUME NoDoubleAdd, TypeOK, NEW u \in Users, OnlyOf(u), Single(u)', lb' \in QType,
         \A v \in Users : v # u => deb'[v] = deb[v] /\ (deb[v] # None => deb[v][1] = v)
  PROVE  NoDoubleAdd'
<1> SUFFICES ASSUME NEW v \in Users PROVE Single(v)'
  BY DEF NoDoubleAdd, Single
<1>1. CASE v = u
  BY <1>1
<1>2. CASE v # u
  <2>1. <<v, "hv">> \in Thds /\ <<v, "lv1">> \in Thds /\ "hv" \in Sides /\ "lv" \in Sides
    BY DEF Thds, Kinds, Sides
  <2>2. \A x \in Sides : /\ <<v, "hv">> \in lb'.list[x] <=> <<v, "hv">> \in lb.list[x]
                         /\ <<v, "lv1">> \in lb'.list[x] <=> <<v, "lv1">> \in lb.list[x]
    BY <1>2, <2>1 DEF OnlyOf
  <2>3. \A x \in Sides : deb'[v] \in lb'.list[x] <=> deb[v] \in lb.list[x]
    <3>1. CASE deb[v] = None
      BY <3>1, <1>2, ThdType DEF TypeOK, QType
    <3>2. CASE deb[v] # None
      BY <3>2, <1>2 DEF TypeOK, OnlyOf
    <3> QED
      BY <3>1, <3>2
  <2>4. Single(v)
    BY DEF NoDoubleAdd, Single
  <2> QED
    BY <1>2, <2>1, <2>2, <2>3, <2>4 DEF Single
<1> QED
  BY <1>1, <1>2

\* After a report the user's entries are again on one list each, and other
\* users' are where they were.
LEMMA AfterReport ==
  ASSUME IInv, NEW u \in users, NEW k \in Kinds, ListsAfter(u, k), lb' \in QType, users' = users,
         \A v \in Users : v # u => deb'[v] = deb[v],
         \/ <<u, k>> = deb[u] /\ deb'[u] = None
         \/ /\ <<u, k>> \in lb.list[SideOf(<<u, k>>)] /\ deb'[u] = deb[u]
            /\ k = "lv1" => deb[u] # <<u, "lv2">>
  PROVE  OnSide' /\ NoDoubleAdd'
<1>1. u \in Users /\ Sides = {"hv", "lv"} /\ Single(u) /\ TypeOK /\ OnSide /\ NoDoubleAdd
  BY DEF IInv, TypeOK, Sides, NoDoubleAdd, Single, OnSide, ListInv
<1>2. /\ \A v \in Users : deb[v] # None => deb[v][1] = v
      /\ lb.list["hv"] \subseteq Thds /\ lb.list["lv"] \subseteq Thds
      /\ lb'.list["hv"] \subseteq Thds /\ lb'.list["lv"] \subseteq Thds
      /\ None \notin Thds /\ deb[u] \in Thds \cup {None}
  BY <1>1, ThdType DEF IInv, ListInv, TypeOK, QType
<1>3. /\ SideOf(<<u, "hv">>) = "hv" /\ SideOf(<<u, "lv1">>) = "lv" /\ SideOf(<<u, "lv2">>) = "lv"
      /\ <<u, "hv">> \notin lb.list["lv"] /\ <<u, "lv1">> \notin lb.list["hv"] /\ <<u, "lv2">> \notin lb.list["hv"]
      /\ <<u, "hv">> # None /\ <<u, "lv1">> # None
  BY <1>1, ThdType DEF SideOf, OnSide, Thds, Kinds
<1>4. CASE k = "hv"
  <2>1. /\ lb'.list["hv"] = lb.list["hv"] \ {<<u, "hv">>}
        /\ lb'.list["lv"] = (lb.list["lv"] \cup {<<u, "lv1">>}) \ {<<u, "lv2">>}
    BY <1>4 DEF ListsAfter
  <2>2. OnlyOf(u)
    BY <1>1, <2>1 DEF OnlyOf
  <2>3. OnSide'
    BY <1>1, <1>3, <2>1 DEF OnSide
  <2>4. Single(u)'
    BY <1>1, <1>2, <1>3, <1>4, <2>1 DEF Single
  <2> QED
    BY <1>1, <1>2, <2>2, <2>3, <2>4, SingleOther
<1>5. CASE k = "lv1"
  <2>1. /\ lb'.list["hv"] = lb.list["hv"] \cup {<<u, "hv">>}
        /\ lb'.list["lv"] = (lb.list["lv"] \ {<<u, "lv1">>}) \cup {<<u, "lv2">>}
    BY <1>5 DEF ListsAfter
  <2>2. OnlyOf(u)
    BY <1>1, <2>1 DEF OnlyOf
  <2>3. OnSide'
    BY <1>1, <1>3, <2>1 DEF OnSide
  <2>4. Single(u)'
    BY <1>1, <1>2, <1>3, <1>5, <2>1 DEF Single
  <2> QED
    BY <1>1, <1>2, <2>2, <2>3, <2>4, SingleOther
<1>6. CASE k = "lv2"
  <2>1. lb'.list["hv"] = lb.list["hv"] /\ lb'.list["lv"] = lb.list["lv"] \ {<<u, "lv2">>}
    BY <1>6 DEF ListsAfter
  <2>2. OnlyOf(u)
    BY <1>1, <2>1 DEF OnlyOf
  <2>3. OnSide'
    BY <1>1, <1>3, <2>1 DEF OnSide
  <2>4. Single(u)'
    BY <1>1, <1>2, <1>3, <1>6, <2>1 DEF Single
  <2> QED
    BY <1>1, <1>2, <2>2, <2>3, <2>4, SingleOther
<1> QED
  BY <1>4, <1>5, <1>6 DEF Kinds

-----------------------------------------------------------------------------
(* The steps preserve the invariant.                                       *)

\* A bit still to be handled keeps its cause when the threshold comes closer.
LEMMA CloserReal ==
  ASSUME TypeOK, NEW s \in Sides, Closer(s), lb' \in QType, ev' = ev,
         lb.cur[s] # None, Beyond(s, ev[s], VOLT_TO_RAW(Volt(lb.cur[s])))
  PROVE  lb'.cur[s] # None /\ Beyond(s, ev'[s], VOLT_TO_RAW(Volt(lb'.cur[s])))
<1>1. lb'.cur[s] # None /\ NotAfter(s, lb'.cur[s], lb.cur[s])
  BY DEF Closer
<1>2. lb.cur[s] \in Thds /\ lb'.cur[s] \in Thds /\ ev[s] \in Nat
  BY <1>1 DEF TypeOK, QType
<1> QED
  BY <1>1, <1>2, BeyondCloser

\* The same for all bits, in a step in which a handler may be done with one.
LEMMA CloserEvents ==
  ASSUME TypeOK, EventIsReal, lb' \in QType, ev' = ev, pending' = pending, status' = status, todo' \subseteq todo,
         \A s \in Sides : Closer(s) \/ s \in status \ todo',
         "stale" \in upset => "stale" \in upset',
         ipc' = "lock" => ipc = "lock" /\ todo' = todo /\ \A s \in Sides : Closer(s)
  PROVE  EventIsReal'
<1>1. ipc' = "lock" => lb'.cur[Turn'] # None
  <2> SUFFICES ASSUME ipc' = "lock" PROVE lb'.cur[Turn'] # None
    OBVIOUS
  <2>1. Turn' = Turn /\ Turn \in Sides
    BY DEF Turn, Sides
  <2> QED
    BY <2>1 DEF EventIsReal, Closer
<1>2. ASSUME "stale" \notin upset', NEW s \in pending', s \notin status' \ todo'
      PROVE  lb'.cur[s] # None /\ Beyond(s, ev'[s], VOLT_TO_RAW(Volt(lb'.cur[s])))
  <2>1. s \in Sides /\ s \in pending
    BY <1>2 DEF TypeOK
  <2>2. Closer(s) /\ s \notin status \ todo
    BY <1>2, <2>1
  <2>3. lb.cur[s] # None /\ Beyond(s, ev[s], VOLT_TO_RAW(Volt(lb.cur[s])))
    BY <1>2, <2>1, <2>2 DEF EventIsReal
  <2> QED
    BY <2>1, <2>2, <2>3, CloserReal
<1> QED
  BY <1>1, <1>2 DEF EventIsReal

\* Initially nothing is waited for.
LEMMA InitInv == Init => IInv
<1> SUFFICES ASSUME Init PROVE IInv
  OBVIOUS
<1> USE DEF Init
<1>1. TypeOK
  <2>1. lb \in QType
    BY DEF QType
  <2> QED
    BY <2>1 DEF TypeOK, QType
<1>2. CurIsFirst
  BY DEF CurIsFirst, FirstAt, Sides
<1>3. ListInv /\ BitsInv
  BY DEF ListInv, BitsInv
<1>4. NoDoubleAdd
  <2> SUFFICES ASSUME NEW u \in Users PROVE Single(u)
    BY DEF NoDoubleAdd, Single
  <2> QED
    BY ThdType DEF Single, Sides
<1>5. EventIsReal /\ EnInv /\ ArmInv
  BY DEF EventIsReal, EnInv, ArmInv, Sides
<1> QED
  BY <1>1, <1>2, <1>3, <1>4, <1>5 DEF IInv

\* A registration adds lv1 of a user nothing of which was on a list.
LEMMA RegisterInv ==
  ASSUME IInv, NEW u \in Users, Register(u) PROVE IInv'
<1> DEFINE t == <<u, "lv1">>
<1>1. t \in Thds /\ SideOf(t) = "lv" /\ "lv" \in Sides /\ "hv" \in Sides /\ Sides = {"hv", "lv"} /\ t # None
  BY ThdType DEF Thds, Kinds, SideOf, Sides
<1>2. lb' = modify_lbat_list(lb, t)
  BY DEF Register
<1>3. /\ lb' \in QType /\ CurIsFirst' /\ \A x \in Sides : Closer(x)
      /\ lb'.list["lv"] = lb.list["lv"] \cup {t} /\ lb'.list["hv"] = lb.list["hv"]
      /\ lb'.cur["hv"] = lb.cur["hv"]
  BY <1>1, <1>2, AddCloser DEF t
<1>4. /\ users' = users \cup {u} /\ u \notin users /\ Accepted(u)
      /\ UNCHANGED <<times, deb, cnt, queued, running, mutex, pending, status, todo, ipc, pm, saw, adc, told, ev>>
      /\ en' = IF users = {} THEN [s \in Sides |-> en[s] \/ lb'.cur[s] # None] ELSE en
      /\ upset' = IF users # {} /\ lb.cur["lv"] = None THEN upset \cup {"late"} ELSE upset
  BY DEF Register, debounce, irq, power
<1>5. TypeOK'
  <2>1. TypeOK /\ en' \in [Sides -> BOOLEAN]
    BY <1>4 DEF IInv, TypeOK
  <2> QED
    BY <2>1, <1>3, <1>4 DEF TypeOK, QType
<1>6. deb[u] = None
  BY <1>4 DEF IInv, ListInv
<1>7. ListInv'
  <2>1. ListInv
    BY DEF IInv
  <2>2. \A s \in Sides : \A w \in lb'.list[s] : SideOf(w) = s /\ w[1] \in users'
    BY <1>1, <1>3, <1>4, <2>1 DEF ListInv
  <2>3. \A v \in Users : deb'[v] # None =>
          /\ deb'[v][1] = v /\ v \in users'
          /\ times'[v][SideOf(deb'[v])] > 0
          /\ v \in queued' \/ running' = v
    BY <1>4, <2>1 DEF ListInv
  <2>4. \A v \in users' : Accepted(v)
    BY <1>4, <2>1 DEF ListInv
  <2> QED
    BY <2>2, <2>3, <2>4 DEF ListInv
<1>8. NoDoubleAdd'
  <2>1. TypeOK /\ NoDoubleAdd /\ OnSide
    BY DEF IInv, OnSide, ListInv
  <2>2. OnlyOf(u)
    BY <1>1, <1>3 DEF OnlyOf
  <2>3. <<u, "hv">> \notin lb.list["hv"] /\ <<u, "hv">> \notin lb.list["lv"]
    BY <2>1, <1>1, <1>4 DEF OnSide
  <2>4. None \notin lb.list["hv"] /\ None \notin lb.list["lv"] /\ <<u, "hv">> # None /\ <<u, "hv">> # t
    BY <2>1, <1>1, ThdType DEF TypeOK, Thds, Kinds
  <2>5. Single(u)'
    BY <1>1, <1>3, <1>4, <1>6, <2>3, <2>4 DEF Single
  <2>6. \A v \in Users : v # u => deb'[v] = deb[v] /\ (deb[v] # None => deb[v][1] = v)
    BY <1>4 DEF IInv, ListInv
  <2> QED
    BY <1>3, <2>1, <2>2, <2>5, <2>6, SingleOther
<1>9. BitsInv'
  BY <1>4 DEF IInv, BitsInv
<1>10. EventIsReal'
  <2>1. TypeOK /\ EventIsReal
    BY DEF IInv
  <2> QED
    BY <1>3, <1>4, <2>1, CloserEvents
<1>11. EnInv'
  BY <1>1, <1>3, <1>4 DEF IInv, EnInv, Closer
<1>12. ArmInv'
  BY <1>1, <1>3, <1>4 DEF IInv, ArmInv, Closer
<1> QED
  BY <1>3, <1>5, <1>7, <1>8, <1>9, <1>10, <1>11, <1>12 DEF IInv

\* The parts of the invariant about the lists, in a step that leaves them alone.
LEMMA QuietLists ==
  ASSUME IInv, UNCHANGED <<users, lb, deb>>,
         \/ UNCHANGED <<times, queued, running>>
         \/ \A u \in Users : deb[u] # None =>
              times'[u][SideOf(deb[u])] > 0 /\ (u \in queued' \/ running' = u)
  PROVE  CurIsFirst' /\ ListInv' /\ NoDoubleAdd'
<1>1. CurIsFirst /\ ListInv /\ NoDoubleAdd
  BY DEF IInv
<1>2. CurIsFirst'
  BY <1>1 DEF CurIsFirst
<1>3. NoDoubleAdd'
  BY <1>1 DEF NoDoubleAdd
<1>4. ListInv'
  BY <1>1 DEF ListInv
<1> QED
  BY <1>2, <1>3, <1>4

\* The parts about interrupts and bits, in a step that concerns neither.
LEMMA QuietIrq ==
  ASSUME IInv, UNCHANGED <<lb, en, pending, status, todo, ipc, pm, saw, ev, upset>>
  PROVE  BitsInv' /\ EventIsReal' /\ EnInv' /\ ArmInv'
<1>1. BitsInv /\ EventIsReal /\ EnInv /\ ArmInv
  BY DEF IInv
<1>2. BitsInv'
  BY <1>1 DEF BitsInv
<1>3. EventIsReal'
  BY <1>1 DEF EventIsReal, Turn
<1>4. EnInv' /\ ArmInv'
  BY <1>1 DEF EnInv, ArmInv
<1> QED
  BY <1>2, <1>3, <1>4

\* A registration that fails, new debounce times, the battery, the start of a work.
LEMMA OtherInv ==
  ASSUME IInv,
         \/ \E u \in Users : RegisterError(u) \/ SetDebounce(u) \/ WorkStart(u)
         \/ BatteryMoves
  PROVE  IInv'
<1>1. TypeOK /\ ListInv
  BY DEF IInv
<1>2. UNCHANGED <<users, lb, deb>> /\ UNCHANGED <<lb, en, pending, status, todo, ipc, pm, saw, ev, upset>>
  BY DEF RegisterError, SetDebounce, WorkStart, BatteryMoves, debounce, irq, power
<1>3. BitsInv' /\ EventIsReal' /\ EnInv' /\ ArmInv'
  BY <1>2, QuietIrq
<1>4. ASSUME NEW u \in Users, RegisterError(u)
      PROVE  TypeOK' /\ CurIsFirst' /\ ListInv' /\ NoDoubleAdd'
  <2>1. TypeOK'
    BY <1>1, <1>4 DEF TypeOK, RegisterError, debounce, irq, power
  <2>2. UNCHANGED <<times, queued, running>>
    BY <1>4 DEF RegisterError, debounce
  <2> QED
    BY <1>2, <2>1, <2>2, QuietLists
<1>5. ASSUME NEW u \in Users, SetDebounce(u)
      PROVE  TypeOK' /\ CurIsFirst' /\ ListInv' /\ NoDoubleAdd'
  <2>1. PICK d \in DebTimes[u] : times' = [times EXCEPT ![u] = d]
    BY <1>5 DEF SetDebounce
  <2>2. d \in [Sides -> Nat] /\ UNCHANGED <<queued, running>> /\ times[u] = [s \in Sides |-> 0]
    BY <1>5, <2>1, DebTimesType DEF SetDebounce, debounce
  <2>3. TypeOK'
    BY <1>1, <1>5, <2>1, <2>2 DEF TypeOK, SetDebounce, debounce, irq, power
  <2>4. ASSUME NEW v \in Users, deb[v] # None
        PROVE  times'[v][SideOf(deb[v])] > 0 /\ (v \in queued' \/ running' = v)
    <3>1. times[v][SideOf(deb[v])] > 0 /\ SideOf(deb[v]) \in Sides /\ (v \in queued \/ running = v)
      BY <1>1, <2>4, ThdType DEF ListInv, TypeOK
    <3>2. v # u
      BY <2>2, <3>1
    <3> QED
      BY <1>1, <2>1, <2>2, <3>1, <3>2 DEF TypeOK
  <2> QED
    BY <1>2, <2>3, <2>4, QuietLists
<1>6. ASSUME NEW u \in Users, WorkStart(u)
      PROVE  TypeOK' /\ CurIsFirst' /\ ListInv' /\ NoDoubleAdd'
  <2>1. TypeOK'
    BY <1>1, <1>6 DEF TypeOK, WorkStart, irq, power
  <2>2. running = None /\ running' = u /\ queued' = queued \ {u} /\ times' = times
    BY <1>6 DEF WorkStart
  <2>3. None \notin Users
    BY NoneIsNew
  <2>4. \A v \in Users : deb[v] # None =>
          times'[v][SideOf(deb[v])] > 0 /\ (v \in queued' \/ running' = v)
    BY <1>1, <2>2, <2>3 DEF ListInv
  <2> QED
    BY <1>2, <2>1, <2>4, QuietLists
<1>7. ASSUME BatteryMoves
      PROVE  TypeOK' /\ CurIsFirst' /\ ListInv' /\ NoDoubleAdd'
  <2>1. TypeOK'
    BY <1>1, <1>7 DEF TypeOK, BatteryMoves, debounce, irq, power
  <2>2. UNCHANGED <<times, queued, running>>
    BY <1>7 DEF BatteryMoves, debounce
  <2> QED
    BY <1>2, <2>1, <2>2, QuietLists
<1> QED
  BY <1>3, <1>4, <1>5, <1>6, <1>7 DEF IInv

\* A comparator raises its bit: it is enabled, so it has a threshold, and the
\* register holds the reading of that threshold.
LEMMA DetectInv ==
  ASSUME IInv, NEW s \in Sides, Detect(s) PROVE IInv'
<1>1. TypeOK /\ CurIsFirst /\ BitsInv /\ EventIsReal /\ EnInv /\ ArmInv
  BY DEF IInv
<1>2. /\ en[s] /\ s \notin pending /\ Beyond(s, adc, lb.volt[s])
      /\ pending' = pending \cup {s} /\ ev' = [ev EXCEPT ![s] = adc]
      /\ UNCHANGED <<users, lb, en, times, deb, cnt, queued, running, mutex, status, todo, ipc, pm, saw, adc, told, upset>>
  BY DEF Detect, debounce, irq, power
<1>3. TypeOK'
  BY <1>1, <1>2, AdcType DEF TypeOK
<1>4. CurIsFirst' /\ ListInv' /\ NoDoubleAdd'
  BY <1>2, QuietLists
<1>5. BitsInv' /\ EnInv' /\ ArmInv'
  BY <1>1, <1>2 DEF BitsInv, EnInv, ArmInv
<1>6. EventIsReal'
  <2>1. ipc' = "lock" => lb'.cur[Turn'] # None
    BY <1>1, <1>2 DEF EventIsReal, Turn
  <2>2. ASSUME "stale" \notin upset', NEW x \in pending', x \notin status' \ todo'
        PROVE  lb'.cur[x] # None /\ Beyond(x, ev'[x], VOLT_TO_RAW(Volt(lb'.cur[x])))
    <3>1. CASE x = s
      <4>1. lb.cur[s] # None
        BY <1>1, <1>2, <2>2 DEF EnInv
      <4>2. lb.volt[s] = VOLT_TO_RAW(Volt(lb.cur[s]))
        BY <1>1, <4>1 DEF CurIsFirst, FirstAt
      <4>3. ev'[s] = adc
        BY <1>1, <1>2 DEF TypeOK
      <4> QED
        BY <1>2, <3>1, <4>1, <4>2, <4>3
    <3>2. CASE x # s
      <4>1. x \in pending /\ x \notin status \ todo /\ "stale" \notin upset
        BY <1>2, <2>2, <3>2
      <4>2. x \in Sides /\ ev'[x] = ev[x]
        BY <1>1, <1>2, <3>2, <4>1 DEF TypeOK
      <4> QED
        BY <1>1, <1>2, <4>1, <4>2 DEF EventIsReal
    <3> QED
      BY <3>1, <3>2
  <2> QED
    BY <2>1, <2>2 DEF EventIsReal
<1> QED
  BY <1>3, <1>4, <1>5, <1>6 DEF IInv

\* The interrupt thread outside the handlers' sections of lbat_mutex.
LEMMA IrqInv ==
  ASSUME IInv, IrqRead \/ IrqTest \/ IrqNone \/ IrqAck PROVE IInv'
<1>1. TypeOK /\ BitsInv /\ EventIsReal /\ EnInv /\ ArmInv
  BY DEF IInv
<1>2. UNCHANGED <<users, lb, deb, times, queued, running, cnt, mutex, pm, saw, adc, told, upset>>
  BY DEF IrqRead, IrqTest, IrqNone, IrqAck, debounce, power, irq
<1>3. CurIsFirst' /\ ListInv' /\ NoDoubleAdd'
  BY <1>2, QuietLists
<1>4. Turn \in Sides /\ (todo # {} => Turn \in todo)
  <2>1. \A x \in todo : x = "hv" \/ x = "lv"
    BY <1>1 DEF TypeOK, Sides
  <2>2. ASSUME NEW x \in todo PROVE Turn \in todo
    BY <2>1, <2>2 DEF Turn
  <2> QED
    BY <2>2 DEF Turn, Sides
<1>5. CASE IrqRead
  <2>1. /\ ipc = "idle" /\ status' = pending /\ todo' = pending /\ ipc' = "test"
        /\ UNCHANGED <<en, pending, ev>>
    BY <1>5 DEF IrqRead
  <2>2. TypeOK' /\ BitsInv' /\ EnInv' /\ ArmInv'
    BY <1>1, <1>2, <2>1 DEF TypeOK, BitsInv, EnInv, ArmInv
  <2>3. status = {}
    BY <1>1, <2>1 DEF BitsInv
  <2>4. EventIsReal'
    BY <1>1, <1>2, <2>1, <2>3 DEF EventIsReal
  <2> QED
    BY <1>3, <2>2, <2>4 DEF IInv
<1>6. CASE IrqTest
  <2>1. /\ ipc = "test" /\ todo # {} /\ UNCHANGED <<en, pending, ev, status, todo>>
        /\ ipc' = IF lb.cur[Turn] = None THEN "off" ELSE "lock"
    BY <1>6 DEF IrqTest
  <2>2. TypeOK' /\ BitsInv' /\ ArmInv'
    BY <1>1, <1>2, <2>1 DEF TypeOK, BitsInv, ArmInv
  <2>3. EventIsReal'
    <3>1. Turn' = Turn
      BY <2>1 DEF Turn
    <3> QED
      BY <1>1, <1>2, <2>1, <3>1 DEF EventIsReal
  <2>4. EnInv'
    <3>1. "stale" \notin upset => lb.cur[Turn] # None
      BY <1>1, <1>4, <2>1 DEF EventIsReal, BitsInv
    <3> QED
      BY <1>1, <1>2, <2>1, <3>1 DEF EnInv
  <2> QED
    BY <1>3, <2>2, <2>3, <2>4 DEF IInv
<1>7. CASE IrqNone
  <2>1. /\ ipc = "off" /\ ipc' = "test" /\ UNCHANGED <<pending, ev, status>>
        /\ todo' = todo \ {Turn} /\ en' = [en EXCEPT ![Turn] = FALSE]
    BY <1>7 DEF IrqNone
  <2>2. TypeOK' /\ BitsInv'
    BY <1>1, <1>2, <2>1 DEF TypeOK, BitsInv
  <2>3. "stale" \in upset
    BY <1>1, <2>1 DEF EnInv
  <2>4. EventIsReal' /\ EnInv' /\ ArmInv'
    BY <1>2, <2>1, <2>3 DEF EventIsReal, EnInv, ArmInv
  <2> QED
    BY <1>3, <2>2, <2>4 DEF IInv
<1>8. CASE IrqAck
  <2>1. /\ ipc = "test" /\ ipc' = "idle" /\ todo = {} /\ todo' = todo /\ en' = en
        /\ pending' = pending \ status /\ status' = {}
        /\ ev' = [s \in Sides |-> IF s \in status THEN 0 ELSE ev[s]]
    BY <1>8 DEF IrqAck
  <2>2. TypeOK' /\ BitsInv' /\ EnInv' /\ ArmInv'
    BY <1>1, <1>2, <2>1 DEF TypeOK, BitsInv, EnInv, ArmInv
  <2>3. EventIsReal'
    <3>1. \A s \in pending' : s \in Sides /\ s \in pending /\ s \notin status /\ ev'[s] = ev[s]
      BY <1>1, <2>1 DEF TypeOK
    <3> QED
      BY <1>1, <1>2, <2>1, <3>1 DEF EventIsReal
  <2> QED
    BY <1>3, <2>2, <2>3 DEF IInv
<1> QED
  BY <1>5, <1>6, <1>7, <1>8

\* Suspend and the steps of resume.
LEMMA PmInv ==
  ASSUME IInv, Suspend \/ SuspendMin \/ Resume \/ ResumeMax \/ ResumeMin PROVE IInv'
<1>1. TypeOK /\ BitsInv /\ EventIsReal /\ EnInv /\ ArmInv
  BY DEF IInv
<1>2. UNCHANGED <<users, lb, deb, times, queued, running, cnt, mutex, pending, status, todo, ipc, adc, told, ev>>
  BY DEF Suspend, SuspendMin, SuspendClear, Resume, ResumeMax, ResumeMin, ResumeSet, debounce, irq
<1>3. CurIsFirst' /\ ListInv' /\ NoDoubleAdd'
  BY <1>2, QuietLists
<1>4. BitsInv'
  BY <1>1, <1>2 DEF BitsInv
<1>5. upset \subseteq upset'
  BY DEF Suspend, SuspendMin, SuspendClear, Resume, ResumeMax, ResumeMin, ResumeSet
<1>6. EventIsReal'
  BY <1>1, <1>2, <1>5 DEF EventIsReal, Turn
<1>7. CASE Suspend \/ SuspendMin
  <2>1. /\ pm' \in {"suspend", "asleep"} /\ UNCHANGED <<saw, upset>>
        /\ \E s \in Sides : en' = [en EXCEPT ![s] = FALSE]
    BY <1>7 DEF Suspend, SuspendMin, SuspendClear, Sides
  <2>2. TypeOK' /\ EnInv' /\ ArmInv'
    BY <1>1, <1>2, <2>1 DEF TypeOK, EnInv, ArmInv
  <2> QED
    BY <1>3, <1>4, <1>6, <2>2 DEF IInv
<1>8. CASE Resume
  BY <1>1, <1>2, <1>3, <1>4, <1>6, <1>8 DEF IInv, Resume, TypeOK, EnInv, ArmInv, irq
<1>9. CASE ResumeMax
  <2>1. /\ pm = "max" /\ pm' = "min" /\ saw' = (lb.cur["lv"] # None)
        /\ en' = [en EXCEPT !["hv"] = @ \/ saw]
        /\ upset' = IF saw /\ lb.cur["hv"] = None THEN upset \cup {"stale"} ELSE upset
    BY <1>9 DEF ResumeMax, ResumeSet
  <2>2. TypeOK'
    BY <1>1, <1>2, <2>1 DEF TypeOK
  <2>3. EnInv' /\ ArmInv'
    BY <1>1, <1>2, <2>1 DEF EnInv, ArmInv, TypeOK, Sides
  <2> QED
    BY <1>3, <1>4, <1>6, <2>2, <2>3 DEF IInv
<1>10. CASE ResumeMin
  <2>1. /\ pm = "min" /\ pm' = "awake" /\ saw' = FALSE
        /\ en' = [en EXCEPT !["lv"] = @ \/ saw]
        /\ upset' = IF saw /\ lb.cur["lv"] = None THEN upset \cup {"stale"} ELSE upset
    BY <1>10 DEF ResumeMin, ResumeSet
  <2>2. TypeOK'
    BY <1>1, <1>2, <2>1 DEF TypeOK
  <2>3. EnInv' /\ ArmInv'
    BY <1>1, <1>2, <2>1 DEF EnInv, ArmInv, TypeOK, Sides
  <2> QED
    BY <1>3, <1>4, <1>6, <2>2, <2>3 DEF IInv
<1> QED
  BY <1>7, <1>8, <1>9, <1>10

\* Rearming enables exactly the sides that have a threshold.
LEMMA RearmedInv ==
  ASSUME en' = Rearmed(lb'), ipc' # "off" \/ "stale" \in upset'
  PROVE  EnInv' /\ ArmInv' /\ en' \in [Sides -> BOOLEAN]
<1>1. \A s \in Sides : en'[s] = (lb'.cur[s] # None)
  BY DEF Rearmed
<1>2. en'["hv"] = (lb'.cur["hv"] # None) /\ en'["lv"] = (lb'.cur["lv"] # None)
  BY <1>1 DEF Sides
<1>3. EnInv'
  BY <1>1 DEF EnInv
<1>4. ArmInv'
  BY <1>2 DEF ArmInv
<1> QED
  BY <1>3, <1>4 DEF Rearmed

\* The section of lbat_mutex of bat_h_int_handler and bat_l_int_handler.
LEMMA BatIntInv ==
  ASSUME IInv, NEW s \in Sides, BatInt(s) PROVE IInv'
<1> DEFINE o == Other(s)
<1>0. PICK t \in Thds, u \in users : t = lb.cur[s] /\ u = t[1]
  BY BatIntLists
<1>1. TypeOK /\ ListInv /\ NoDoubleAdd /\ BitsInv /\ EventIsReal /\ EnInv /\ ArmInv
  BY DEF IInv
<1>2. /\ t \in Thds /\ t \in lb.list[s] /\ SideOf(t) = s /\ u \in users
      /\ lb' \in QType /\ CurIsFirst' /\ Closer(o)
      /\ \/ /\ times[u][s] > 0
            /\ lb'.list[s] = lb.list[s] \ {t} /\ lb'.list[o] = lb.list[o]
         \/ /\ times[u][s] = 0
            /\ ListsAfter(u, t[2])
  BY <1>0, BatIntLists
<1>3. /\ ipc = "lock" /\ s = Turn /\ en' = Rearmed(lb') /\ todo' = todo \ {s} /\ ipc' = "test"
      /\ UNCHANGED <<users, times, running, mutex, pending, status, pm, saw, adc, ev, upset>>
      /\ \/ /\ times[u][s] > 0
            /\ deb' = [deb EXCEPT ![u] = t] /\ cnt' = [cnt EXCEPT ![u] = 0]
            /\ queued' = queued \cup {u} /\ told' = told
         \/ times[u][s] = 0 /\ Tell(t) /\ UNCHANGED <<deb, cnt, queued>>
  BY <1>0 DEF BatInt, power
<1>4. t = <<u, t[2]>> /\ u \in Users /\ t[2] \in Kinds
  BY <1>0, <1>1, ThdType DEF TypeOK
<1>5. Sides = {"hv", "lv"} /\ o \in Sides /\ o # s
  BY DEF Sides, Other
<1>6. EnInv' /\ ArmInv' /\ en' \in [Sides -> BOOLEAN]
  <2>1. ipc' # "off" /\ en' = Rearmed(lb') /\ upset' = upset
    BY <1>3
  <2> QED
    BY <2>1, RearmedInv
<1>7. TypeOK'
  <2>1. CASE times[u][s] > 0
    <3>0. /\ deb' = [deb EXCEPT ![u] = t] /\ cnt' = [cnt EXCEPT ![u] = 0]
          /\ queued' = queued \cup {u} /\ told' = told
      BY <1>3, <2>1
    <3>1. deb' \in [Users -> Thds \cup {None}] /\ cnt' \in [Users -> Nat] /\ queued' \subseteq Users
      BY <1>1, <1>2, <1>4, <3>0 DEF TypeOK
    <3> QED
      BY <1>1, <1>2, <1>3, <1>6, <3>0, <3>1 DEF TypeOK, QType
  <2>2. CASE times[u][s] = 0
    <3>1. deb' = deb /\ cnt' = cnt /\ queued' = queued /\ told' = [told EXCEPT ![u] = t[2]]
      BY <1>3, <1>4, <2>2 DEF Tell
    <3> QED
      BY <1>1, <1>2, <1>3, <1>4, <1>6, <3>1, SMTT(20) DEF TypeOK, QType
  <2> QED
    BY <1>3, <2>1, <2>2
<1>8. BitsInv'
  BY <1>1, <1>3 DEF BitsInv
<1>9. s \in todo
  <2>1. todo # {} /\ \A x \in todo : x = "hv" \/ x = "lv"
    BY <1>1, <1>3 DEF BitsInv, TypeOK, Sides
  <2>2. ASSUME NEW x \in todo PROVE Turn \in todo
    BY <2>1, <2>2 DEF Turn
  <2> QED
    BY <1>3, <2>1, <2>2
<1>10. EventIsReal'
  <2>1. \A x \in Sides : Closer(x) \/ x \in status \ todo'
    BY <1>1, <1>2, <1>3, <1>5, <1>9 DEF BitsInv
  <2> QED
    BY <1>1, <1>2, <1>3, <2>1, CloserEvents
<1>11. OnSide' /\ NoDoubleAdd'
  <2>1. CASE times[u][s] > 0
    <3>1. lb'.list[s] = lb.list[s] \ {t} /\ lb'.list[o] = lb.list[o] /\ deb' = [deb EXCEPT ![u] = t]
      BY <1>2, <1>3, <2>1
    <3>2. OnSide'
      BY <1>1, <1>3, <1>5, <3>1 DEF ListInv, OnSide
    <3>3. OnlyOf(u)
      BY <1>4, <1>5, <3>1 DEF OnlyOf
    <3>4. Single(u) /\ deb'[u] = t
      <4>1. Single(u)
        BY <1>1, <1>4 DEF NoDoubleAdd, Single
      <4>2. deb'[u] = t
        BY <1>1, <1>4, <3>1 DEF TypeOK
      <4> QED
        BY <4>1, <4>2
    <3>5. t \notin lb.list[o]
      BY <1>1, <1>2, <1>5 DEF ListInv
    <3>6. Single(u)'
      <4>1. CASE s = "hv"
        BY <1>2, <1>5, <3>1, <3>4, <3>5, <4>1 DEF Single
      <4>2. CASE s = "lv"
        BY <1>2, <1>5, <3>1, <3>4, <3>5, <4>2 DEF Single
      <4> QED
        BY <1>5, <4>1, <4>2
    <3>7. \A v \in Users : v # u => deb'[v] = deb[v] /\ (deb[v] # None => deb[v][1] = v)
      BY <1>1, <3>1 DEF ListInv, TypeOK
    <3> QED
      BY <1>1, <1>2, <1>4, <3>2, <3>3, <3>6, <3>7, SingleOther
  <2>2. CASE times[u][s] = 0
    <3>1. ListsAfter(u, t[2]) /\ deb' = deb
      BY <1>2, <1>3, <2>2
    <3>2. t[2] = "lv1" => deb[u] # <<u, "lv2">>
      <4> SUFFICES ASSUME t[2] = "lv1", deb[u] = <<u, "lv2">> PROVE FALSE
        OBVIOUS
      <4>1. s = "lv" /\ SideOf(deb[u]) = "lv" /\ deb[u] # None
        BY <1>2, <1>4, ThdType DEF SideOf, Thds, Kinds
      <4>2. times[u]["lv"] > 0
        BY <1>1, <1>4, <4>1 DEF ListInv
      <4> QED
        BY <2>2, <4>1, <4>2
    <3>3. <<u, t[2]>> \in lb.list[SideOf(<<u, t[2]>>)]
      BY <1>2, <1>4
    <3> QED
      BY <1>2, <1>3, <1>4, <3>1, <3>2, <3>3, AfterReport
  <2> QED
    BY <1>3, <2>1, <2>2
<1>12. ListInv'
  <2>1. ASSUME NEW v \in Users, deb'[v] # None
        PROVE  /\ deb'[v][1] = v /\ v \in users'
               /\ times'[v][SideOf(deb'[v])] > 0
               /\ v \in queued' \/ running' = v
    <3>1. CASE times[u][s] > 0 /\ v = u
      <4>1. deb'[u] = t /\ u \in queued'
        BY <1>1, <1>3, <1>4, <3>1 DEF TypeOK
      <4> QED
        BY <1>0, <1>2, <1>3, <3>1, <4>1
    <3>2. CASE ~(times[u][s] > 0 /\ v = u)
      <4>1. deb'[v] = deb[v] /\ queued \subseteq queued'
        BY <1>1, <1>3, <3>2 DEF TypeOK
      <4> QED
        BY <1>1, <1>3, <2>1, <4>1 DEF ListInv
    <3> QED
      BY <3>1, <3>2
  <2>2. \A v \in users' : Accepted(v)
    BY <1>1, <1>3 DEF ListInv
  <2> QED
    BY <1>11, <2>1, <2>2 DEF ListInv, OnSide
<1> QED
  BY <1>2, <1>6, <1>7, <1>8, <1>10, <1>11, <1>12 DEF IInv

\* The section of lbat_mutex of lbat_deb_handler.
LEMMA DebHandlerInv ==
  ASSUME IInv, NEW u \in Users, DebHandler(u) PROVE IInv'
<1>1. TypeOK /\ CurIsFirst /\ ListInv /\ NoDoubleAdd /\ BitsInv /\ EventIsReal /\ EnInv /\ ArmInv
  BY DEF IInv
<1>2. PICK t \in Thds \cup {None} : t = deb[u]
  BY <1>1 DEF TypeOK
<1>3. /\ running = u /\ running' = None
      /\ UNCHANGED <<users, times, mutex, pending, status, todo, ipc, pm, saw, adc, ev, upset>>
      /\ None \notin Users /\ Sides = {"hv", "lv"}
  BY NoneIsNew DEF DebHandler, irq, power, Sides
<1>4. BitsInv'
  BY <1>1, <1>3 DEF BitsInv
<1>5. \A v \in Users : v # u /\ deb[v] # None => v \in queued
  BY <1>1, <1>3 DEF ListInv
<1>6. \A v \in users' : Accepted(v)
  BY <1>1, <1>3 DEF ListInv
<1>7. ASSUME t # None, lb' \in QType, CurIsFirst', \A x \in Sides : Closer(x), OnSide', NoDoubleAdd',
             DebReset(u), told' \in [Users -> Kinds \cup {"none"}]
      PROVE  IInv'
  <2>1. /\ deb' = [deb EXCEPT ![u] = None] /\ cnt' = [cnt EXCEPT ![u] = 0] /\ queued' = queued
        /\ en' = Rearmed(lb')
    BY <1>7 DEF DebReset
  <2>2. ipc' # "off" \/ "stale" \in upset'
    BY <1>1, <1>3 DEF EnInv
  <2>3. EnInv' /\ ArmInv' /\ en' \in [Sides -> BOOLEAN]
    BY <2>1, <2>2, RearmedInv
  <2>4. TypeOK'
    BY <1>1, <1>3, <1>7, <2>1, <2>3 DEF TypeOK, QType
  <2>5. EventIsReal'
    BY <1>1, <1>3, <1>7, CloserEvents
  <2>6. \A v \in Users : deb'[v] # None => v # u /\ deb'[v] = deb[v]
    BY <1>1, <2>1 DEF TypeOK
  <2>7. \A v \in Users : deb'[v] # None =>
          /\ deb'[v][1] = v /\ v \in users'
          /\ times'[v][SideOf(deb'[v])] > 0
          /\ v \in queued' \/ running' = v
    BY <1>1, <1>3, <1>5, <2>1, <2>6 DEF ListInv
  <2>8. ListInv'
    BY <1>6, <1>7, <2>7 DEF ListInv, OnSide
  <2> QED
    BY <1>4, <1>7, <2>3, <2>4, <2>5, <2>8 DEF IInv
<1>8. t # None => /\ t[1] = u /\ u \in users /\ t \in Thds /\ t[2] \in Kinds /\ t = <<u, t[2]>> /\ SideOf(t) \in Sides
                  /\ t \notin lb.list["hv"] /\ t \notin lb.list["lv"]
  BY <1>1, <1>2, ThdType DEF ListInv, NoDoubleAdd
<1>9. CASE t # None /\ lb' = modify_lbat_list(lb, t) /\ DebReset(u) /\ told' = told
  <2>1. /\ lb' \in QType /\ CurIsFirst' /\ \A x \in Sides : Closer(x)
        /\ \A x \in Sides : lb'.list[x] = IF x = SideOf(t) THEN lb.list[x] \cup {t} ELSE lb.list[x]
    BY <1>8, <1>9, AddCloser
  <2>2. OnSide'
    BY <1>1, <1>3, <1>8, <1>9, <2>1 DEF ListInv, OnSide
  <2>3. OnlyOf(u)
    BY <1>8, <1>9, <2>1 DEF OnlyOf
  <2>4. Single(u) /\ deb'[u] = None
    BY <1>1, <1>9 DEF NoDoubleAdd, Single, DebReset, TypeOK
  <2>5. /\ None \notin lb'.list["hv"] /\ None \notin lb'.list["lv"]
        /\ <<u, "hv">> # None /\ <<u, "lv1">> # None
    BY <1>3, <2>1, ThdType DEF QType, Thds, Kinds
  <2>6. Single(u)'
    <3>1. CASE SideOf(t) = "hv"
      BY <1>2, <1>3, <1>9, <2>1, <2>4, <2>5, <3>1 DEF Single
    <3>2. CASE SideOf(t) = "lv"
      BY <1>2, <1>3, <1>9, <2>1, <2>4, <2>5, <3>2 DEF Single
    <3> QED
      BY <1>3, <1>8, <1>9, <3>1, <3>2
  <2>7. \A v \in Users : v # u => deb'[v] = deb[v] /\ (deb[v] # None => deb[v][1] = v)
    BY <1>1, <1>9 DEF ListInv, DebReset, TypeOK
  <2>8. NoDoubleAdd'
    BY <1>1, <2>1, <2>3, <2>6, <2>7, SingleOther
  <2>9. told' \in [Users -> Kinds \cup {"none"}]
    BY <1>1, <1>9 DEF TypeOK
  <2> QED
    BY <1>7, <1>9, <2>1, <2>2, <2>8, <2>9
<1>10. CASE t # None /\ lb' = lbat_set_next_thd(lb, t) /\ DebReset(u) /\ Tell(t)
  <2>1. /\ lb' \in QType /\ CurIsFirst' /\ \A x \in Sides : Closer(x)
        /\ ListsAfter(u, t[2])
    BY <1>3, <1>8, <1>10, ReportLists
  <2>2. deb'[u] = None /\ \A v \in Users : v # u => deb'[v] = deb[v]
    BY <1>1, <1>10 DEF DebReset, TypeOK
  <2>3. OnSide' /\ NoDoubleAdd'
    BY <1>2, <1>3, <1>8, <1>10, <2>1, <2>2, AfterReport
  <2>4. told' \in [Users -> Kinds \cup {"none"}]
    BY <1>1, <1>8, <1>10 DEF TypeOK, Tell
  <2> QED
    BY <1>7, <1>10, <2>1, <2>3, <2>4
<1>11. CASE t # None /\ cnt' = [cnt EXCEPT ![u] = @ + 1] /\ queued' = queued \cup {u} /\ UNCHANGED <<lb, en, deb, told>>
  <2>1. TypeOK'
    BY <1>1, <1>3, <1>11 DEF TypeOK
  <2>2. \A v \in Users : deb[v] # None => times'[v][SideOf(deb[v])] > 0 /\ (v \in queued' \/ running' = v)
    BY <1>1, <1>3, <1>5, <1>11 DEF ListInv
  <2>3. CurIsFirst' /\ ListInv' /\ NoDoubleAdd'
    BY <1>3, <1>11, <2>2, QuietLists
  <2>4. BitsInv' /\ EventIsReal' /\ EnInv' /\ ArmInv'
    BY <1>3, <1>11, QuietIrq
  <2> QED
    BY <2>1, <2>3, <2>4 DEF IInv
<1>12. CASE t = None /\ UNCHANGED <<lb, en, deb, cnt, queued, told>>
  <2>1. TypeOK'
    BY <1>1, <1>3, <1>12 DEF TypeOK
  <2>2. \A v \in Users : deb[v] # None => times'[v][SideOf(deb[v])] > 0 /\ (v \in queued' \/ running' = v)
    BY <1>1, <1>2, <1>3, <1>5, <1>12 DEF ListInv
  <2>3. CurIsFirst' /\ ListInv' /\ NoDoubleAdd'
    BY <1>3, <1>12, <2>2, QuietLists
  <2>4. BitsInv' /\ EventIsReal' /\ EnInv' /\ ArmInv'
    BY <1>3, <1>12, QuietIrq
  <2> QED
    BY <2>1, <2>3, <2>4 DEF IInv
<1> QED
  BY <1>2, <1>9, <1>10, <1>11, <1>12 DEF DebHandler

\* The invariant holds in every state.
THEOREM LbatInvariant == Spec => []IInv
<1>1. IInv /\ [Next]_vars => IInv'
  <2> SUFFICES ASSUME IInv, [Next]_vars PROVE IInv'
    OBVIOUS
  <2>1. CASE \E u \in Users : Register(u)
    BY <2>1, RegisterInv
  <2>2. CASE \E u \in Users : DebHandler(u)
    BY <2>2, DebHandlerInv
  <2>3. CASE (\E u \in Users : RegisterError(u) \/ SetDebounce(u) \/ WorkStart(u)) \/ BatteryMoves
    BY <2>3, OtherInv
  <2>4. CASE \E s \in Sides : Detect(s)
    BY <2>4, DetectInv
  <2>5. CASE \E s \in Sides : BatInt(s)
    BY <2>5, BatIntInv
  <2>6. CASE IrqRead \/ IrqTest \/ IrqNone \/ IrqAck
    BY <2>6, IrqInv
  <2>7. CASE Suspend \/ SuspendMin \/ Resume \/ ResumeMax \/ ResumeMin
    BY <2>7, PmInv
  <2>8. CASE UNCHANGED vars
    <3>1. /\ UNCHANGED <<users, lb, deb>> /\ UNCHANGED <<times, queued, running>>
          /\ UNCHANGED <<lb, en, pending, status, todo, ipc, pm, saw, ev, upset>>
          /\ UNCHANGED <<cnt, mutex, adc, told>>
      BY <2>8 DEF vars
    <3>2. CurIsFirst' /\ ListInv' /\ NoDoubleAdd' /\ BitsInv' /\ EventIsReal' /\ EnInv' /\ ArmInv'
      BY <3>1, QuietLists, QuietIrq
    <3>3. TypeOK'
      BY <3>1 DEF IInv, TypeOK
    <3> QED
      BY <3>2, <3>3 DEF IInv
  <2> QED
    BY <2>1, <2>2, <2>3, <2>4, <2>5, <2>6, <2>7, <2>8 DEF Next
<1> QED
  BY <1>1, InitInv, PTL DEF Spec

\* Every variable keeps its type: in particular no register is programmed to
\* a reading that is not a natural number.
THEOREM LbatTyping == Spec => []TypeOK
<1>1. IInv => TypeOK
  BY DEF IInv
<1> QED
  BY <1>1, LbatInvariant, PTL

\* The first entry of each list is the one the PMIC is programmed to.
THEOREM LbatCurIsFirst == Spec => []CurIsFirst
<1>1. IInv => CurIsFirst
  BY DEF IInv
<1> QED
  BY <1>1, LbatInvariant, PTL

\* list_add is never called for an entry that is on a list.
THEOREM LbatNoDoubleAdd == Spec => []NoDoubleAdd
<1>1. IInv => NoDoubleAdd
  BY DEF IInv
<1> QED
  BY <1>1, LbatInvariant, PTL

\* A handler takes an interrupt for a threshold that was reached.
THEOREM LbatEventIsReal == Spec => []EventIsReal
<1>1. IInv => EventIsReal
  BY DEF IInv
<1> QED
  BY <1>1, LbatInvariant, PTL

\* While awake a side that has a threshold is enabled.
THEOREM LbatArmed == Spec => []Armed
<1>1. IInv => Armed
  BY DEF IInv, Armed, ArmInv, Sides
<1> QED
  BY <1>1, LbatInvariant, PTL

-----------------------------------------------------------------------------
(* What is waited for is what the user has to be told next, when nobody    *)
(* debounces its low thresholds.                                           *)

NoLowDebounce == \A u \in Users : \A d \in DebTimes[u] : d["lv"] = 0

OnList(u, k) == <<u, k>> \in lb.list[SideOf(<<u, k>>)]

\* u waits for k, on a list or under debounce, exactly if k is due.
DueTo(u) == \A k \in Kinds : OnList(u, k) \/ <<u, k>> = deb[u] <=> k \in UserView!Due(told[u])

DueInv ==
  /\ \A u \in users : DueTo(u)
  /\ \A u \in Users : times[u]["lv"] = 0
  /\ \A u \in Users \ users : told[u] = "none"

\* Due by cases.
LEMMA DueCases ==
  ASSUME NEW c \in Kinds \cup {"none"}, NEW k \in Kinds
  PROVE  k \in UserView!Due(c) <=> \/ c \in {"none", "hv"} /\ k = "lv1"
                                   \/ c = "lv1" /\ k \in {"lv2", "hv"}
                                   \/ c = "lv2" /\ k = "hv"
BY DEF UserView!Due, Kinds

\* Only hv is ever debounced.
LEMMA DebIsHv ==
  ASSUME IInv, DueInv, NEW u \in Users, deb[u] # None
  PROVE  deb[u] = <<u, "hv">> /\ ~OnList(u, "hv") /\ ~OnList(u, "lv1") /\ u \in users
<1>1. deb[u] \in Thds /\ deb[u][1] = u /\ times[u][SideOf(deb[u])] > 0 /\ u \in users
  BY DEF IInv, TypeOK, ListInv
<1>2. deb[u] = <<u, deb[u][2]>> /\ SideOf(deb[u]) \in Sides
  BY <1>1, ThdType
<1>3. SideOf(deb[u]) # "lv"
  BY <1>1 DEF DueInv
<1>4. deb[u] = <<u, "hv">>
  BY <1>2, <1>3 DEF SideOf
<1> QED
  BY <1>1, <1>4 DEF IInv, NoDoubleAdd, OnList, SideOf

\* A step that leaves the thresholds and the reports of v alone.
LEMMA DueSame ==
  ASSUME NEW v, DueTo(v), v \in Users, told'[v] = told[v], deb'[v] = deb[v],
         \A k \in Kinds : OnList(v, k)' <=> OnList(v, k)
  PROVE  DueTo(v)'
BY DEF DueTo

\* A report of what is due: the next thresholds are due then.
LEMMA ReportDue ==
  ASSUME IInv, DueInv, NEW u \in users, NEW k \in Kinds, ListsAfter(u, k), OnList(u, k) \/ <<u, k>> = deb[u],
         told' = [told EXCEPT ![u] = k],
         \/ <<u, k>> = deb[u] /\ deb' = [deb EXCEPT ![u] = None]
         \/ OnList(u, k) /\ deb' = deb
  PROVE  k \in UserView!Due(told[u]) /\ \A v \in users : DueTo(v)'
<1>1. TypeOK /\ u \in Users /\ told'[u] = k /\ OnSide
  BY DEF IInv, TypeOK, OnSide, ListInv
<1>2. k \in UserView!Due(told[u]) /\ told[u] \in Kinds \cup {"none"} /\ Kinds \subseteq Kinds \cup {"none"}
  BY <1>1 DEF DueInv, DueTo, TypeOK
<1>3. SideOf(<<u, "hv">>) = "hv" /\ SideOf(<<u, "lv1">>) = "lv" /\ SideOf(<<u, "lv2">>) = "lv"
  BY DEF SideOf
<1>4. deb[u] # None => deb[u] = <<u, "hv">> /\ ~OnList(u, "hv") /\ ~OnList(u, "lv1")
  BY <1>1, DebIsHv
<1>5. <<u, "hv">> # None /\ <<u, "lv1">> # None /\ <<u, "lv2">> # None
  BY <1>1, ThdType DEF Thds, Kinds
<1>6. \A j \in Kinds : OnList(u, j) \/ <<u, j>> = deb[u] <=> j \in UserView!Due(told[u])
  BY DEF DueInv, DueTo
<1>7. deb'[u] = IF <<u, k>> = deb[u] THEN None ELSE deb[u]
  BY <1>1, <1>4, <1>5 DEF TypeOK, Kinds
<1>8. DueTo(u)'
  <2>1. CASE k = "hv"
    <3>1. ~OnList(u, "hv")' /\ OnList(u, "lv1")' /\ ~OnList(u, "lv2")'
      BY <1>3, <2>1 DEF ListsAfter, OnList
    <3>2. deb'[u] = None
      BY <1>4, <1>7, <2>1
    <3>3. \A j \in Kinds : j \in UserView!Due(told'[u]) <=> j = "lv1"
      BY <1>1, <2>1, DueCases DEF Kinds
    <3> QED
      BY <1>5, <3>1, <3>2, <3>3 DEF DueTo, Kinds
  <2>2. CASE k = "lv1"
    <3>1. OnList(u, "hv")' /\ ~OnList(u, "lv1")' /\ OnList(u, "lv2")'
      BY <1>3, <2>2 DEF ListsAfter, OnList
    <3>2. <<u, "lv1">> # deb'[u]
      BY <1>4, <1>5, <1>7, <2>2
    <3>3. \A j \in Kinds : j \in UserView!Due(told'[u]) <=> j \in {"hv", "lv2"}
      BY <1>1, <2>2, DueCases DEF Kinds
    <3> QED
      BY <3>1, <3>2, <3>3 DEF DueTo, Kinds
  <2>3. CASE k = "lv2"
    <3>1. told[u] = "lv1"
      BY <1>2, <2>3, DueCases
    <3>2. OnList(u, "hv") \/ <<u, "hv">> = deb[u]
      BY <1>2, <1>6, <3>1, DueCases DEF Kinds
    <3>3. ~(OnList(u, "lv1") \/ <<u, "lv1">> = deb[u])
      BY <1>2, <1>6, <3>1, DueCases DEF Kinds
    <3>4. (OnList(u, "hv")' <=> OnList(u, "hv")) /\ (OnList(u, "lv1")' <=> OnList(u, "lv1")) /\ ~OnList(u, "lv2")'
      BY <1>3, <2>3 DEF ListsAfter, OnList
    <3>5. deb'[u] = deb[u] /\ <<u, "lv2">> # deb[u]
      BY <1>4, <1>5, <1>7, <2>3
    <3>6. \A j \in Kinds : j \in UserView!Due(told'[u]) <=> j = "hv"
      BY <1>1, <2>3, DueCases DEF Kinds
    <3> QED
      BY <3>2, <3>3, <3>4, <3>5, <3>6 DEF DueTo, Kinds
  <2> QED
    BY <2>1, <2>2, <2>3 DEF Kinds
<1>9. ASSUME NEW v \in users, v # u PROVE DueTo(v)'
  <2>1. v \in Users /\ DueTo(v) /\ told'[v] = told[v] /\ deb'[v] = deb[v]
    BY <1>1, <1>9 DEF DueInv, TypeOK
  <2>2. ASSUME NEW j \in Kinds PROVE OnList(v, j)' <=> OnList(v, j)
    <3>1. SideOf(<<v, j>>) \in {"hv", "lv"}
      BY DEF SideOf
    <3>2. \A i : <<v, j>> # <<u, i>>
      BY <1>9
    <3> QED
      BY <3>1, <3>2 DEF ListsAfter, OnList, Kinds
  <2> QED
    BY <2>1, <2>2, DueSame
<1> QED
  BY <1>2, <1>8, <1>9

\* What LowBattery allows a step to do with told.
UserStep == (\E u \in Users : UserView!Tell(u)) \/ told' = told

\* Registration, the handlers and the debounce work keep to it; the others do
\* not concern it.
LEMMA RegisterDue ==
  ASSUME IInv, DueInv, NEW u \in Users, Register(u) PROVE DueInv' /\ UserStep
<1> DEFINE t == <<u, "lv1">>
<1>1. /\ users' = users \cup {u} /\ u \notin users /\ UNCHANGED <<times, deb, told>>
      /\ lb' = modify_lbat_list(lb, t)
  BY DEF Register, debounce
<1>2. t \in Thds /\ SideOf(t) = "lv" /\ Sides = {"hv", "lv"}
  BY DEF Thds, Kinds, SideOf, Sides
<1>3. lb'.list["lv"] = lb.list["lv"] \cup {t} /\ lb'.list["hv"] = lb.list["hv"]
  BY <1>1, <1>2, AddCloser DEF t
<1>4. ASSUME NEW k \in Kinds PROVE ~OnList(u, k) /\ <<u, k>> # deb[u] /\ SideOf(<<u, k>>) \in {"hv", "lv"}
  <2>1. SideOf(<<u, k>>) \in Sides /\ <<u, k>> \in Thds /\ <<u, k>> # None
    BY <1>4, ThdType DEF Thds, SideOf, Sides
  <2> QED
    BY <1>1, <1>2, <2>1 DEF OnList, IInv, ListInv
<1>5. DueTo(u)'
  <2>1. told[u] = "none"
    BY <1>1 DEF DueInv
  <2>2. \A k \in Kinds : k \in UserView!Due(told'[u]) <=> k = "lv1"
    BY <1>1, <2>1, DueCases
  <2>3. ASSUME NEW k \in Kinds PROVE OnList(u, k)' <=> k = "lv1"
    BY <1>2, <1>3, <1>4, <2>3 DEF OnList, SideOf
  <2>4. \A k \in Kinds : <<u, k>> # deb'[u]
    BY <1>1, <1>4
  <2> QED
    BY <2>2, <2>3, <2>4 DEF DueTo
<1>6. ASSUME NEW v \in users PROVE DueTo(v)'
  <2>1. v \in Users /\ DueTo(v) /\ v # u
    BY <1>1 DEF DueInv, IInv, TypeOK
  <2>2. ASSUME NEW k \in Kinds PROVE OnList(v, k)' <=> OnList(v, k)
    <3>1. SideOf(<<v, k>>) \in {"hv", "lv"} /\ <<v, k>> # t
      BY <2>1 DEF SideOf
    <3> QED
      BY <1>3, <3>1 DEF OnList
  <2> QED
    BY <1>1, <2>1, <2>2, DueSame
<1>7. DueInv'
  BY <1>1, <1>5, <1>6 DEF DueInv
<1> QED
  BY <1>1, <1>7 DEF UserStep

\* A reading that reaches the threshold of a queue (bat_h_int_handler,
\* bat_l_int_handler) keeps every user told of exactly what is due.
LEMMA BatIntDue ==
  ASSUME IInv, DueInv, NEW s \in Sides, BatInt(s) PROVE DueInv' /\ UserStep
<1> DEFINE o == Other(s)
<1>1. PICK t \in Thds, u \in users : t = lb.cur[s] /\ u = t[1]
  BY BatIntLists
<1>2. /\ t \in lb.list[s] /\ SideOf(t) = s
      /\ \/ /\ times[u][s] > 0
            /\ lb'.list[s] = lb.list[s] \ {t} /\ lb'.list[o] = lb.list[o]
         \/ /\ times[u][s] = 0
            /\ ListsAfter(u, t[2])
  BY <1>1, BatIntLists
<1>3. /\ UNCHANGED <<users, times>>
      /\ \/ times[u][s] > 0 /\ deb' = [deb EXCEPT ![u] = t] /\ told' = told
         \/ times[u][s] = 0 /\ Tell(t) /\ deb' = deb
  BY <1>1 DEF BatInt
<1>4. t = <<u, t[2]>> /\ u \in Users /\ t[2] \in Kinds /\ TypeOK
  BY <1>1, ThdType DEF TypeOK, IInv
<1>5. Sides = {"hv", "lv"} /\ o \in Sides /\ o # s
  BY DEF Sides, Other
<1>6. SUFFICES /\ \A v \in users : DueTo(v)'
               /\ \A v \in Users \ users : told'[v] = told[v]
               /\ UserStep
  BY <1>3 DEF DueInv
<1>7. CASE times[u][s] > 0
  <2>1. /\ deb' = [deb EXCEPT ![u] = t] /\ told' = told
        /\ lb'.list[s] = lb.list[s] \ {t} /\ lb'.list[o] = lb.list[o]
    BY <1>2, <1>3, <1>7
  <2>2. s = "hv" /\ o = "lv"
    BY <1>4, <1>5, <1>7 DEF DueInv
  <2>3. t = <<u, "hv">>
    BY <1>2, <1>4, <2>2 DEF SideOf
  <2>4. deb[u] = None
    BY <1>2, <1>4, <2>2, <2>3, DebIsHv DEF OnList
  <2>5. ASSUME NEW v \in users PROVE DueTo(v)'
    <3>1. v \in Users /\ DueTo(v)
      BY <1>4 DEF DueInv, TypeOK
    <3>2. CASE v = u
      <4>1. deb'[u] = <<u, "hv">>
        BY <1>4, <2>1, <2>3 DEF TypeOK
      <4>2. ASSUME NEW k \in Kinds
            PROVE  OnList(u, k)' \/ <<u, k>> = deb'[u] <=> OnList(u, k) \/ <<u, k>> = deb[u]
        <5>1. <<u, k>> # None /\ SideOf(<<u, k>>) = IF k = "hv" THEN "hv" ELSE "lv"
          BY <1>4, ThdType DEF Thds, SideOf
        <5>2. CASE k = "hv"
          BY <1>2, <2>2, <2>3, <4>1, <5>1, <5>2 DEF OnList
        <5>3. CASE k # "hv"
          BY <2>1, <2>2, <2>4, <4>1, <5>1, <5>3 DEF OnList
        <5> QED
          BY <5>2, <5>3
      <4> QED
        BY <2>1, <3>1, <3>2, <4>2 DEF DueTo
    <3>3. CASE v # u
      <4>1. told'[v] = told[v] /\ deb'[v] = deb[v]
        BY <1>4, <2>1, <3>1, <3>3 DEF TypeOK
      <4>2. ASSUME NEW k \in Kinds PROVE OnList(v, k)' <=> OnList(v, k)
        <5>1. SideOf(<<v, k>>) \in {"hv", "lv"} /\ <<v, k>> # t
          BY <2>3, <3>3 DEF SideOf
        <5> QED
          BY <2>1, <2>2, <5>1 DEF OnList
      <4> QED
        BY <3>1, <4>1, <4>2, DueSame
    <3> QED
      BY <3>2, <3>3
  <2> QED
    BY <2>1, <2>5 DEF UserStep
<1>8. CASE times[u][s] = 0
  <2>1. ListsAfter(u, t[2]) /\ told' = [told EXCEPT ![u] = t[2]] /\ deb' = deb
    BY <1>1, <1>2, <1>3, <1>8 DEF Tell
  <2>2. OnList(u, t[2])
    BY <1>2, <1>4 DEF OnList
  <2>3. t[2] \in UserView!Due(told[u]) /\ \A v \in users : DueTo(v)'
    BY <1>4, <2>1, <2>2, ReportDue
  <2>4. UserStep
    BY <1>4, <2>1, <2>3 DEF UserStep, UserView!Tell
  <2>5. \A v \in Users \ users : told'[v] = told[v]
    BY <1>1, <1>4, <2>1 DEF TypeOK
  <2> QED
    BY <2>3, <2>4, <2>5
<1> QED
  BY <1>3, <1>7, <1>8

\* A turn of the debounce work keeps every user told of exactly what is due.
LEMMA DebHandlerDue ==
  ASSUME IInv, DueInv, NEW u \in Users, DebHandler(u) PROVE DueInv' /\ UserStep
<1>1. TypeOK /\ UNCHANGED <<users, times>>
  BY DEF IInv, DebHandler
<1>2. SUFFICES /\ \A v \in users : DueTo(v)'
               /\ \A v \in Users \ users : told'[v] = told[v]
               /\ UserStep
  BY <1>1 DEF DueInv
<1>3. PICK t : t = deb[u]
  OBVIOUS
<1>4. t # None => t = <<u, "hv">> /\ u \in users /\ ~OnList(u, "hv") /\ ~OnList(u, "lv1")
  BY <1>3, DebIsHv
<1>5. CASE t # None /\ lb' = modify_lbat_list(lb, t) /\ DebReset(u) /\ told' = told
  <2>1. t \in Thds /\ SideOf(t) = "hv" /\ Sides = {"hv", "lv"} /\ t # None /\ t = <<u, "hv">>
    BY <1>4, <1>5 DEF Thds, Kinds, SideOf, Sides
  <2>2. lb'.list["hv"] = lb.list["hv"] \cup {t} /\ lb'.list["lv"] = lb.list["lv"]
    BY <1>5, <2>1, AddCloser
  <2>3. deb' = [deb EXCEPT ![u] = None]
    BY <1>5 DEF DebReset
  <2>4. ASSUME NEW v \in users PROVE DueTo(v)'
    <3>1. v \in Users /\ DueTo(v)
      BY <1>1 DEF DueInv, TypeOK
    <3>2. CASE v = u
      <4>1. ASSUME NEW k \in Kinds
            PROVE  OnList(u, k)' \/ <<u, k>> = deb'[u] <=> OnList(u, k) \/ <<u, k>> = deb[u]
        <5>1. <<u, k>> # None /\ SideOf(<<u, k>>) = (IF k = "hv" THEN "hv" ELSE "lv") /\ deb'[u] = None
          BY <1>1, <2>3, ThdType DEF Thds, SideOf, TypeOK
        <5> QED
          BY <1>3, <2>1, <2>2, <5>1 DEF OnList
      <4> QED
        BY <1>5, <3>1, <3>2, <4>1 DEF DueTo
    <3>3. CASE v # u
      <4>1. told'[v] = told[v] /\ deb'[v] = deb[v]
        BY <1>1, <1>5, <2>3, <3>1, <3>3 DEF TypeOK
      <4>2. ASSUME NEW k \in Kinds PROVE OnList(v, k)' <=> OnList(v, k)
        <5>1. SideOf(<<v, k>>) \in {"hv", "lv"} /\ <<v, k>> # t
          BY <2>1, <3>3 DEF SideOf
        <5> QED
          BY <2>2, <5>1 DEF OnList
      <4> QED
        BY <3>1, <4>1, <4>2, DueSame
    <3> QED
      BY <3>2, <3>3
  <2> QED
    BY <1>5, <2>4 DEF UserStep
<1>6. CASE t # None /\ lb' = lbat_set_next_thd(lb, t) /\ DebReset(u) /\ Tell(t)
  <2>1. t = <<u, "hv">> /\ t[1] = u /\ t[2] = "hv" /\ u \in users /\ "hv" \in Kinds /\ t \in Thds
    BY <1>4, <1>6 DEF Kinds, Thds
  <2>2. t \notin lb.list[SideOf(t)]
    BY <1>4, <1>6, <2>1 DEF OnList
  <2>3. ListsAfter(u, "hv")
    BY <1>6, <2>1, <2>2, ReportLists
  <2>4. told' = [told EXCEPT ![u] = "hv"] /\ deb' = [deb EXCEPT ![u] = None] /\ <<u, "hv">> = deb[u]
    BY <1>3, <1>6, <2>1 DEF Tell, DebReset
  <2>5. "hv" \in UserView!Due(told[u]) /\ \A v \in users : DueTo(v)'
    BY <2>1, <2>3, <2>4, ReportDue
  <2>6. UserStep
    BY <2>4, <2>5 DEF UserStep, UserView!Tell
  <2>7. \A v \in Users \ users : told'[v] = told[v]
    BY <1>1, <2>1, <2>4 DEF TypeOK
  <2> QED
    BY <2>5, <2>6, <2>7
<1>7. CASE UNCHANGED <<lb, deb, told>>
  <2>1. ASSUME NEW v \in users PROVE DueTo(v)'
    BY <1>7 DEF DueInv, DueTo, OnList
  <2> QED
    BY <1>7, <2>1 DEF UserStep
<1> QED
  BY <1>3, <1>5, <1>6, <1>7 DEF DebHandler

\* Of the other steps only lbat_user_set_debounce concerns it.
LEMMA OtherDue ==
  ASSUME DueInv, UNCHANGED <<users, lb, deb, told>>, \A u \in Users : times'[u]["lv"] = 0
  PROVE  DueInv' /\ UserStep
<1>1. ASSUME NEW v \in users PROVE DueTo(v)'
  BY DEF DueInv, DueTo, OnList
<1> QED
  BY <1>1 DEF DueInv, UserStep

\* Setting debounce times (lbat_user_set_debounce) changes no queue.
LEMMA SetDebounceDue ==
  ASSUME NoLowDebounce, IInv, DueInv, NEW u \in Users, SetDebounce(u) PROVE DueInv' /\ UserStep
<1>1. PICK d \in DebTimes[u] : times' = [times EXCEPT ![u] = d]
  BY DEF SetDebounce
<1>2. UNCHANGED <<users, lb, deb, told>> /\ d["lv"] = 0 /\ TypeOK
  BY <1>1 DEF SetDebounce, debounce, NoLowDebounce, IInv
<1>3. \A v \in Users : times'[v]["lv"] = 0
  BY <1>1, <1>2 DEF DueInv, TypeOK
<1> QED
  BY <1>2, <1>3, OtherDue

\* Every step of the service keeps every user told of exactly what is due.
LEMMA StepDue ==
  ASSUME NoLowDebounce, IInv, DueInv, [Next]_vars PROVE DueInv' /\ UserStep
<1>1. CASE \E u \in Users : Register(u)
  BY <1>1, RegisterDue
<1>2. CASE \E u \in Users : DebHandler(u)
  BY <1>2, DebHandlerDue
<1>3. CASE \E u \in Users : SetDebounce(u)
  BY <1>3, SetDebounceDue
<1>4. CASE \E s \in Sides : BatInt(s)
  BY <1>4, BatIntDue
<1>5. CASE UNCHANGED <<users, lb, deb, told, times>>
  <2>1. \A u \in Users : times'[u]["lv"] = 0
    BY <1>5 DEF DueInv
  <2> QED
    BY <1>5, <2>1, OtherDue
<1>6. CASE \/ \E u \in Users : RegisterError(u) \/ WorkStart(u)
           \/ \E s \in Sides : Detect(s)
           \/ BatteryMoves \/ IrqRead \/ IrqTest \/ IrqNone \/ IrqAck
           \/ Suspend \/ SuspendMin \/ Resume \/ ResumeMax \/ ResumeMin
  <2>1. UNCHANGED <<users, lb, deb, told, times>>
    BY <1>6 DEF RegisterError, WorkStart, Detect, BatteryMoves, IrqRead, IrqTest, IrqNone, IrqAck,
                Suspend, SuspendMin, SuspendClear, Resume, ResumeMax, ResumeMin, ResumeSet, debounce
  <2> QED
    BY <1>5, <2>1
<1>7. CASE UNCHANGED vars
  BY <1>5, <1>7 DEF vars
<1> QED
  BY <1>1, <1>2, <1>3, <1>4, <1>6, <1>7 DEF Next

\* Before anyone has registered nothing is due.
LEMMA InitDue == Init => DueInv
<1> SUFFICES ASSUME Init PROVE DueInv
  OBVIOUS
<1> QED
  BY DEF Init, DueInv, Sides

\* Without low-side debouncing what is waited for is what is due.
THEOREM LbatExactlyDue ==
  ASSUME NoLowDebounce PROVE Spec => []ExactlyDue
<1>1. IInv /\ DueInv /\ [Next]_vars => DueInv'
  BY StepDue
<1>2. IInv /\ DueInv => ExactlyDue
  <2> SUFFICES ASSUME IInv, DueInv, NEW u \in users
               PROVE  /\ {k \in Kinds : <<u, k>> \in lb.list[SideOf(<<u, k>>)] \/ <<u, k>> = deb[u]}
                           = UserView!Due(told[u])
                      /\ deb[u] # None => u \in queued \/ running = u
    BY DEF ExactlyDue
  <2>1. u \in Users /\ told[u] \in Kinds \cup {"none"} /\ DueTo(u)
    BY DEF IInv, TypeOK, DueInv
  <2>2. UserView!Due(told[u]) \subseteq Kinds
    BY <2>1 DEF UserView!Due, Kinds
  <2>3. {k \in Kinds : <<u, k>> \in lb.list[SideOf(<<u, k>>)] \/ <<u, k>> = deb[u]} = UserView!Due(told[u])
    BY <2>1, <2>2 DEF DueTo, OnList
  <2>4. deb[u] # None => u \in queued \/ running = u
    BY <2>1 DEF IInv, ListInv
  <2> QED
    BY <2>3, <2>4
<1> QED
  BY <1>1, <1>2, InitDue, LbatInvariant, PTL DEF Spec

\* Then each user is told lv1, lv2 and hv in turn: Lbat implements LowBattery.
THEOREM LbatInTurn ==
  ASSUME NoLowDebounce PROVE Spec => InTurn
<1>1. IInv /\ DueInv /\ [Next]_vars => DueInv'
  BY StepDue
<1>2. Init => UserView!Init
  BY DEF Init, UserView!Init
<1>3. IInv /\ DueInv /\ [Next]_vars => [UserView!Next]_told
  BY StepDue DEF UserStep, UserView!Next
<1> QED
  BY <1>1, <1>2, <1>3, InitDue, LbatInvariant, PTL DEF Spec, InTurn, UserView!Spec

\* Then a registered user always has a threshold to wait for, as lbat_set_next_thd
\* says; lbat_next shows that a user that debounces both sides may lose its last one.
THEOREM LbatNextWaits ==
  ASSUME NoLowDebounce PROVE Spec => []SomeThdWaits
<1>1. IInv /\ DueInv /\ [Next]_vars => DueInv'
  BY StepDue
<1>2. IInv /\ DueInv => SomeThdWaits
  <2> SUFFICES ASSUME IInv, DueInv, NEW u \in users, deb[u] = None
               PROVE  \E k \in Kinds : <<u, k>> \in lb.list["hv"] \cup lb.list["lv"]
    BY DEF SomeThdWaits
  <2>1. told[u] \in Kinds \cup {"none"} /\ DueTo(u) /\ u \in Users
    BY DEF IInv, TypeOK, DueInv
  <2>2. PICK k \in Kinds : k \in UserView!Due(told[u])
    BY <2>1, DueCases DEF Kinds
  <2>3. <<u, k>> # None
    BY <2>1, ThdType DEF Thds
  <2>4. OnList(u, k)
    BY <2>1, <2>2, <2>3 DEF DueTo
  <2> QED
    BY <2>4 DEF OnList, SideOf
<1> QED
  BY <1>1, <1>2, InitDue, LbatInvariant, PTL DEF Spec
=============================================================================
