---------------------------- MODULE MCTinysysIpi ----------------------------
(* Small instances of TinysysIpi. *)
EXTENDS TinysysIpi, TLC

CONSTANTS
  Polled,  \* AckChans with callers in mode IPI_SEND_POLLING
  Waited   \* AckChans with callers in mode IPI_SEND_WAIT

ModesOf == [c \in AckChans |-> {m \in SendModes : \/ m = "IPI_SEND_POLLING" /\ c \in Polled
                                                  \/ m = "IPI_SEND_WAIT" /\ c \in Waited}]

Symm == Permutations(Threads)
=============================================================================
