---------------------------- MODULE SDDMACommon ----------------------------
(* What both DMAs share: sizes, and the names of bytes on their way.         *)
EXTENDS Sequences, Integers

CONSTANTS WordBytes, \* bus.data_width in bytes
          Depth,     \* bytes a FIFO holds                  (fifo_depth = 512)
          Length     \* words software programs a DMA for

ASSUME DMAAssumption == /\ WordBytes \in Nat \ {0} /\ Depth \in Nat \ {0}
                        /\ Length \in Nat \ {0}

\* A byte is named by its position in the transfer (read) or from base (write),
\* as long as that transfer or that DMA is the current one.
Stale == -1

Aged(s, over) == IF over THEN [i \in DOMAIN s |-> Stale] ELSE s
=============================================================================
