---------------------------- MODULE SecureRegion ----------------------------
(***************************************************************************)
(* What the trusted memory subsystem promises its clients about one        *)
(* physical region.  The region belongs to Linux, to the trusted OS, or is *)
(* in transit between them; it never changes sides directly.  A handle is  *)
(* delivered only while the trusted OS owns the region, and the region is  *)
(* not taken back while a delivered handle has not been released.          *)
(***************************************************************************)
CONSTANT Handles

VARIABLES owner, live

TypeInv == owner \in {"linux", "transit", "tee"} /\ live \subseteq Handles

Init == owner = "linux" /\ live = {}

Move(from, to) == owner = from /\ owner' = to /\ live' = live

Carve == Move("linux", "transit")
Grant == Move("transit", "tee")
Restore == Move("transit", "linux")
Reclaim == live = {} /\ Move("tee", "transit")

Deliver(h) == owner = "tee" /\ h \notin live /\ live' = live \cup {h} /\ owner' = owner
Release(h) == h \in live /\ live' = live \ {h} /\ owner' = owner

Next == \/ Carve \/ Grant \/ Restore \/ Reclaim
        \/ \E h \in Handles : Deliver(h) \/ Release(h)

Spec == Init /\ [][Next]_<<owner, live>>
=============================================================================
