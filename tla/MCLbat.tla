------------------------------- MODULE MCLbat -------------------------------
EXTENDS Lbat

\* Two users whose thresholds interleave, and one whose voltages are refused.
MCParams == [u \in Users |->
  CASE u = "gauge"    -> [hv |-> 3500, lv1 |-> 3400, lv2 |-> 3200]
    [] u = "throttle" -> [hv |-> 3600, lv1 |-> 3300, lv2 |-> 3200]
    [] u = "bad"      -> [hv |-> 3400, lv1 |-> 3500, lv2 |-> 3300]]

Times(h, l) == [s \in Sides |-> IF s = "hv" THEN h ELSE l]

\* The fuel gauge debounces both sides, as in mtk_battery_daemon.c.
BothSides == [u \in Users |-> IF u = "gauge" THEN {Times(2, 2)} ELSE {}]
\* The same with a single sample.
BothShort == [u \in Users |-> IF u = "gauge" THEN {Times(1, 1)} ELSE {}]
HighOnly == [u \in Users |-> IF u = "gauge" THEN {Times(2, 0)} ELSE {}]
=============================================================================
