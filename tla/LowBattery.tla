----------------------------- MODULE LowBattery -----------------------------
(***************************************************************************)
(* What the low-battery service promises to each of its users: it is told  *)
(* that the battery fell to lv1, then at most once that it fell to lv2,    *)
(* then that it recovered to hv, and so on in turn.                        *)
(***************************************************************************)
CONSTANT Users
VARIABLE told

\* The thresholds a user may be told of next.
Due(k) == CASE k \in {"none", "hv"} -> {"lv1"}
            [] k = "lv1" -> {"lv2", "hv"}
            [] k = "lv2" -> {"hv"}

Init == told = [u \in Users |-> "none"]

Tell(u) == \E k \in Due(told[u]) : told' = [told EXCEPT ![u] = k]

Next == \E u \in Users : Tell(u)

Spec == Init /\ [][Next]_told
=============================================================================
