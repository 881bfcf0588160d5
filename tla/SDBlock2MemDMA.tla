---------------------------- MODULE SDBlock2MemDMA ----------------------------
(***************************************************************************)
(* From the read stream to memory (frontend/dma.py, class SDBlock2MemDMA,  *)
(* lines 18-60): a gate that opens at the start of a block, a FIFO, a      *)
(* converter from bytes to words, and a WishboneDMAWriter.  The last three *)
(* are library modules: their latencies are the wires shift and ack.       *)
(* valid, first and byte are the read stream; a step is a cycle.           *)
(***************************************************************************)
EXTENDS SDDMACommon

VARIABLES b2m_enable,  \* dma._enable, written by software
          b2m_connect,
          b2m_fifo,    \* bytes, the oldest first
          b2m_word,    \* bytes in the converter
          b2m_state,   \* of the writer
          b2m_mem,     \* bytes written since the writer left IDLE
          b2m_done_d, b2m_irq

b2mVars == <<b2m_enable, b2m_connect, b2m_fifo, b2m_word, b2m_state, b2m_mem,
             b2m_done_d, b2m_irq>>

B2mInit == /\ b2m_enable = FALSE /\ b2m_connect = FALSE
           /\ b2m_fifo = <<>> /\ b2m_word = <<>>
           /\ b2m_state = "IDLE" /\ b2m_mem = <<>>
           /\ b2m_done_d = FALSE /\ b2m_irq = FALSE

-----------------------------------------------------------------------------
\* Slips: the gate does not wait for the start of a block; it does not remember
\* that it has opened.
B2mConnectedAlways(valid, first) == b2m_enable
B2mConnectedOnce(valid, first) == b2m_enable /\ valid /\ first

B2mStart(valid, first) == valid /\ first
B2mConnected(valid, first) == b2m_enable /\ (B2mStart(valid, first) \/ b2m_connect)

\* sink.ready: what is not connected is dropped.
B2mReady(valid, first) == B2mConnected(valid, first) => Len(b2m_fifo) < Depth

\* Slip: a byte is taken although the FIFO is full.
B2mTakesFull(valid, first) == valid /\ B2mConnected(valid, first)

B2mTakes(valid, first) == valid /\ B2mConnected(valid, first) /\ Len(b2m_fifo) < Depth

\* The converter hands a full word to the writer, which stores it in RUN; while
\* it is disabled it may take words and drop them.
B2mHands(ack) == ack /\ Len(b2m_word) = WordBytes /\ b2m_state # "DONE"
B2mStores(ack) == B2mHands(ack) /\ b2m_state = "RUN"

B2mShifts(shift, ack) ==
  shift /\ b2m_fifo # <<>> /\ (Len(b2m_word) < WordBytes \/ B2mHands(ack))

B2mGate(valid, first) ==
  b2m_connect' = (b2m_enable /\ (B2mStart(valid, first) \/ b2m_connect))

\* over: what is on its way belongs to an earlier transfer from now on.
B2mPipe(valid, first, byte, shift, ack, over) ==
  LET shifts == B2mShifts(shift, ack)
      kept   == IF shifts THEN Tail(b2m_fifo) ELSE b2m_fifo
      word   == IF B2mHands(ack) THEN <<>> ELSE b2m_word
  IN  /\ b2m_fifo' = Aged(IF B2mTakes(valid, first) THEN Append(kept, byte) ELSE kept, over)
      /\ b2m_word' = Aged(IF shifts THEN Append(word, Head(b2m_fifo)) ELSE word, over)

\* The writer starts over when it is disabled.
B2mWrite(ack, over) ==
  LET written == IF B2mStores(ack) THEN b2m_mem \o b2m_word ELSE b2m_mem
  IN  /\ b2m_mem' = IF b2m_state = "IDLE" THEN <<>> ELSE Aged(written, over)
      /\ b2m_state' = IF ~b2m_enable THEN "IDLE"
                      ELSE IF b2m_state = "IDLE" THEN "RUN"
                      ELSE IF Len(written) = Length * WordBytes THEN "DONE" ELSE b2m_state

B2mIrq == /\ b2m_done_d' = (b2m_state = "DONE")
          /\ b2m_irq' = (b2m_state = "DONE" /\ ~b2m_done_d)

B2mStep(valid, first, byte, shift, ack, over) ==
  /\ B2mGate(valid, first)
  /\ B2mPipe(valid, first, byte, shift, ack, over)
  /\ B2mWrite(ack, over)
  /\ B2mIrq
=============================================================================
