------------------------------ MODULE SDPHYDATAR ------------------------------
(***************************************************************************)
(* The data receiver (phy.py, class SDPHYDATAR, lines 547-714).  Wires are *)
(* parameters: ce, beat and low as in SDPHYCMDR (low: all data lines low), *)
(* ok tells whether a CRC beat matches the CRC16 computed here; valid,     *)
(* block_length, last (of the transfer) and ready come from the core.      *)
(***************************************************************************)
EXTENDS SDCommon, SDPHYR

CONSTANT DataTimeout  \* reset value of the CSR datar.timeout

ASSUME DataTimeoutAssumption == DataTimeout \in 0..TimerMax

VARIABLES datar_state, datar_timeout, datar_count,
          datar_reset,      \* reset of the SDPHYR and of the CRC16, registered
          datar_rx,         \* the SDPHYR of the selected width
          datar_data_count, \* data beats of the block still to come
          datar_crc_count, datar_crc_error

datarVars == <<datar_state, datar_timeout, datar_count, datar_reset, datar_rx,
               datar_data_count, datar_crc_count, datar_crc_error>>

DatarInit == /\ datar_state = "IDLE" /\ datar_timeout = 0 /\ datar_count = 0
             /\ datar_reset = FALSE /\ datar_rx = Cleared
             /\ datar_data_count = 0 /\ datar_crc_count = 0
             /\ datar_crc_error = FALSE

DatarTypeOK == /\ datar_state \in {"IDLE", "WAIT", "DATA", "CLK8", "TIMEOUT"}
               /\ datar_timeout \in 0..TimerMax
               /\ datar_count \in Nat
               /\ datar_reset \in BOOLEAN
               /\ datar_rx \in Receivers(BeatsPerByte)
               /\ datar_data_count \in Nat
               /\ datar_crc_count \in 0..CrcBeats
               /\ datar_crc_error \in BOOLEAN

-----------------------------------------------------------------------------
\* crc_len: the CRC16 of every line, in bytes.
CrcLen == CrcBeats \div BeatsPerByte

\* The source endpoint.
DatarValid == (datar_state = "DATA" /\ datar_rx.buf) \/ datar_state = "TIMEOUT"
DatarSourceLast(block_length) ==
  datar_state = "DATA" => datar_count = block_length + CrcLen - 1
\* Slip: one byte of the CRC counts as data.
DatarDropLate(block_length) == datar_state = "DATA" /\ datar_count > block_length

DatarDrop(block_length) == datar_state = "DATA" /\ datar_count > block_length - 1
DatarStatus == IF datar_state = "TIMEOUT" THEN STATUS_TIMEOUT
               ELSE IF datar_crc_error THEN STATUS_CRCERROR ELSE STATUS_OK

DatarTake(ready) == datar_state = "DATA" /\ datar_rx.buf /\ ready
DatarEnd(block_length, ready) == DatarTake(ready) /\ DatarSourceLast(block_length)

\* Slip: the read stream is not waited for.
DatarNoStop(ready) == FALSE

\* self.stop: the byte offered is not taken.
DatarStop(ready) == datar_state = "DATA" /\ datar_rx.buf /\ ~ready

-----------------------------------------------------------------------------
\* Slip: one data beat too many is counted.
DatarReceiveLong(beat, low, block_length, take) ==
  /\ datar_rx' = Receiver(datar_rx, datar_reset, BeatsPerByte, TRUE, beat, low, take)
  /\ datar_data_count' =
       IF datar_reset THEN block_length * BeatsPerByte + 1
       ELSE IF Accepts(datar_rx, TRUE, beat, low) /\ datar_data_count > 0
            THEN datar_data_count - 1 ELSE datar_data_count

\* The receiver and the count of data beats (lines 573-587), while somebody
\* is going to read them.
DatarReceive(beat, low, block_length, take) ==
  /\ datar_rx' = Receiver(datar_rx, datar_reset, BeatsPerByte, TRUE, beat, low, take)
  /\ datar_data_count' =
       IF datar_reset THEN block_length * BeatsPerByte
       ELSE IF Accepts(datar_rx, TRUE, beat, low) /\ datar_data_count > 0
            THEN datar_data_count - 1 ELSE datar_data_count

DatarForget == datar_rx' = Cleared /\ datar_data_count' = 0

\* Slip: the timer pauses with the clock, while a byte waits for the read stream.
DatarPaused(next) ==
  /\ datar_timeout' = IF datar_state = "DATA" /\ datar_rx.buf THEN datar_timeout
                      ELSE Decrement(datar_timeout)
  /\ datar_state' = IF datar_timeout = 0 THEN "TIMEOUT" ELSE next

\* The timer overrides whatever else a cycle decided (lines 656, 693).
DatarTimed(next) ==
  /\ datar_timeout' = Decrement(datar_timeout)
  /\ datar_state' = IF datar_timeout = 0 THEN "TIMEOUT" ELSE next

DatarIdle(ce, valid) ==
  /\ datar_state = "IDLE"
  /\ datar_count' = 0 /\ datar_crc_count' = 0
  /\ IF valid /\ ce
     THEN /\ datar_state' = "WAIT" /\ datar_timeout' = DataTimeout
          /\ datar_crc_error' = FALSE /\ datar_reset' = TRUE
          /\ datar_rx' \in Residues
     ELSE UNCHANGED <<datar_state, datar_timeout, datar_crc_error, datar_reset, datar_rx>>
  /\ UNCHANGED datar_data_count

DatarWait(beat, low, block_length) ==
  /\ datar_state = "WAIT"
  /\ datar_reset' = FALSE
  /\ DatarTimed(IF datar_rx.buf THEN "DATA" ELSE "WAIT")
  /\ IF datar_timeout = 0 THEN DatarForget
                          ELSE DatarReceive(beat, low, block_length, FALSE)
  /\ UNCHANGED <<datar_count, datar_crc_count, datar_crc_error>>

DatarData(beat, low, ok, block_length, last, ready) ==
  LET end == DatarEnd(block_length, ready)
      crcBeat == beat /\ datar_data_count = 0 /\ datar_crc_count < CrcBeats
  IN  /\ datar_state = "DATA"
      /\ DatarTimed(IF ~end THEN "DATA" ELSE IF last THEN "CLK8" ELSE "IDLE")
      /\ datar_count' = IF end /\ last THEN 0
                        ELSE IF DatarTake(ready) THEN datar_count + 1 ELSE datar_count
      /\ datar_crc_count' = IF crcBeat THEN datar_crc_count + 1 ELSE datar_crc_count
      /\ datar_crc_error' = (datar_crc_error \/ (crcBeat /\ ~ok))
      /\ IF end \/ datar_timeout = 0 THEN DatarForget
         ELSE DatarReceive(beat, low, block_length, DatarTake(ready))
      /\ UNCHANGED datar_reset

DatarClk8(ce) ==
  /\ datar_state = "CLK8"
  /\ datar_count' = IF ce THEN datar_count + 1 ELSE datar_count
  /\ datar_state' = IF ce /\ datar_count = Clk8 - 1 THEN "IDLE" ELSE "CLK8"
  /\ UNCHANGED <<datar_timeout, datar_reset, datar_rx, datar_data_count,
                 datar_crc_count, datar_crc_error>>

DatarTimeout(ready) ==
  /\ datar_state = "TIMEOUT"
  /\ datar_state' = IF ready THEN "IDLE" ELSE "TIMEOUT"
  /\ UNCHANGED <<datar_timeout, datar_count, datar_reset, datar_rx,
                 datar_data_count, datar_crc_count, datar_crc_error>>

DatarStep(ce, beat, low, ok, valid, block_length, last, ready) ==
  \/ DatarIdle(ce, valid)
  \/ DatarWait(beat, low, block_length)
  \/ DatarData(beat, low, ok, block_length, last, ready)
  \/ DatarClk8(ce)
  \/ DatarTimeout(ready)
=============================================================================
