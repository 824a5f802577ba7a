---------------------------- MODULE MCTrustedMem ----------------------------
(* Instances of TrustedMem for TLC. *)
EXTENDS TrustedMem, TLC

AllFaults == TeeOps
NoFaults == {}

\* Threads and handles are interchangeable: no definition tells one from another.
Symm == Permutations(Threads) \cup Permutations(Handles)
=============================================================================
