---------------------------- MODULE SDMem2BlockDMA ----------------------------
(***************************************************************************)
(* From memory to the write stream (frontend/dma.py, class SDMem2BlockDMA, *)
(* lines 64-92): a WishboneDMAReader, a converter from words to bytes and  *)
(* a FIFO, connected without a gate: as soon as software enables the       *)
(* reader it fetches as much as fits.  All three are library modules:      *)
(* their latencies are the wires fetch and shift.                          *)
(***************************************************************************)
EXTENDS SDDMACommon

VARIABLES m2b_enable,  \* dma._enable, written by software
          m2b_state,   \* of the reader
          m2b_offset,  \* words fetched
          m2b_word,    \* bytes in the converter
          m2b_fifo,    \* bytes, the oldest first
          m2b_done_d, m2b_irq

m2bVars == <<m2b_enable, m2b_state, m2b_offset, m2b_word, m2b_fifo, m2b_done_d,
             m2b_irq>>

M2bInit == /\ m2b_enable = FALSE /\ m2b_state = "IDLE" /\ m2b_offset = 0
           /\ m2b_word = <<>> /\ m2b_fifo = <<>>
           /\ m2b_done_d = FALSE /\ m2b_irq = FALSE

-----------------------------------------------------------------------------
M2bFetches(fetch) == fetch /\ m2b_state = "RUN" /\ m2b_word = <<>>
M2bShifts(shift) == shift /\ m2b_word # <<>> /\ Len(m2b_fifo) < Depth

\* The bytes of the word at offset, named by their distance from base.
Fetched == [i \in 1..WordBytes |-> m2b_offset * WordBytes + i - 1]

\* source.valid.
M2bOffers == m2b_fifo # <<>>

\* The reader starts over when it is disabled.
M2bRead(fetch) ==
  /\ m2b_offset' = IF m2b_state = "IDLE" THEN 0
                   ELSE IF M2bFetches(fetch) THEN m2b_offset + 1 ELSE m2b_offset
  /\ m2b_state' = IF ~m2b_enable THEN "IDLE"
                  ELSE IF m2b_state = "IDLE" THEN "RUN"
                  ELSE IF m2b_offset' = Length THEN "DONE" ELSE m2b_state

\* over: what is on its way was fetched for an earlier DMA from now on.
M2bPipe(fetch, shift, taken, over) ==
  LET kept == IF taken THEN Tail(m2b_fifo) ELSE m2b_fifo
  IN  /\ m2b_word' = Aged(IF M2bFetches(fetch) THEN Fetched
                          ELSE IF M2bShifts(shift) THEN Tail(m2b_word) ELSE m2b_word, over)
      /\ m2b_fifo' = Aged(IF M2bShifts(shift) THEN Append(kept, Head(m2b_word)) ELSE kept, over)

\* Slip: a level instead of an edge.
M2bIrqLevel == /\ m2b_done_d' = (m2b_state = "DONE")
               /\ m2b_irq' = (m2b_state = "DONE")

M2bIrq == /\ m2b_done_d' = (m2b_state = "DONE")
          /\ m2b_irq' = (m2b_state = "DONE" /\ ~m2b_done_d)

\* taken: the core takes a byte.
M2bStep(fetch, shift, taken, over) ==
  /\ M2bRead(fetch)
  /\ M2bPipe(fetch, shift, taken, over)
  /\ M2bIrq
=============================================================================
