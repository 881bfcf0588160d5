------------------------------ MODULE SDPHYCMDR ------------------------------
(***************************************************************************)
(* The response receiver (phy.py, class SDPHYCMDR, lines 221-341).  Wires  *)
(* are parameters: ce is pads_out.ready, beat and low are pads_in.valid and*)
(* a low command line, d0 is pads_in.data.i[0]; valid, cmd_type, data_type,*)
(* length and ready come from the core; cmdw_done from SDPHYCMDW.          *)
(***************************************************************************)
EXTENDS SDCommon, SDPHYR

CONSTANT CmdTimeout  \* reset value of the CSR cmdr.timeout

ASSUME CmdTimeoutAssumption == CmdTimeout \in 0..TimerMax

VARIABLES cmdr_state, cmdr_timeout, cmdr_count,
          cmdr_reset,  \* reset of the SDPHYR, registered
          cmdr_rx      \* the SDPHYR itself

cmdrVars == <<cmdr_state, cmdr_timeout, cmdr_count, cmdr_reset, cmdr_rx>>

CmdrInit == /\ cmdr_state = "IDLE" /\ cmdr_timeout = 0 /\ cmdr_count = 0
            /\ cmdr_reset = FALSE /\ cmdr_rx = Cleared

CmdrTypeOK == /\ cmdr_state \in {"IDLE", "WAIT", "CMD", "BUSY", "CLK8", "TIMEOUT"}
              /\ cmdr_timeout \in 0..TimerMax
              /\ cmdr_count \in Nat
              /\ cmdr_reset \in BOOLEAN
              /\ cmdr_rx \in Receivers(ByteBits)

-----------------------------------------------------------------------------
\* A byte is handed over; the response is complete with it.
CmdrTake(ready) == cmdr_state = "CMD" /\ cmdr_rx.buf /\ ready
CmdrLast(length) == cmdr_count = length - 1

\* The last byte is held back until the card is no longer busy, or has had its
\* eight clocks (lines 277-282).
CmdrHeld(cmd_type, data_type) ==
  cmd_type = RESPONSE_SHORT_BUSY \/ data_type = DATA_NONE

CmdrEndOfClk8(ce) == cmdr_state = "CLK8" /\ ce /\ cmdr_count = Clk8 - 1
CmdrNotBusy(beat, d0) == cmdr_state = "BUSY" /\ beat /\ d0

\* Slips: the last byte is not held back; it is handed over in CLK8 although the
\* card may still be busy.
CmdrValidEarly(ce, beat, d0, cmd_type, data_type, length, ready) ==
  \/ cmdr_state = "CMD" /\ cmdr_rx.buf
  \/ CmdrEndOfClk8(ce) /\ cmd_type # RESPONSE_SHORT_BUSY
  \/ CmdrNotBusy(beat, d0)
  \/ cmdr_state = "TIMEOUT"
CmdrValidBeforeBusy(ce, beat, d0, cmd_type, data_type, length, ready) ==
  \/ cmdr_state = "CMD" /\ cmdr_rx.buf
     /\ ~(ready /\ CmdrLast(length) /\ CmdrHeld(cmd_type, data_type))
  \/ CmdrEndOfClk8(ce)
  \/ CmdrNotBusy(beat, d0)
  \/ cmdr_state = "TIMEOUT"

\* The source endpoint.
CmdrValid(ce, beat, d0, cmd_type, data_type, length, ready) ==
  \/ cmdr_state = "CMD" /\ cmdr_rx.buf
     /\ ~(ready /\ CmdrLast(length) /\ CmdrHeld(cmd_type, data_type))
  \/ CmdrEndOfClk8(ce) /\ cmd_type # RESPONSE_SHORT_BUSY
  \/ CmdrNotBusy(beat, d0)
  \/ cmdr_state = "TIMEOUT"
CmdrSourceLast(length) == cmdr_state = "CMD" => CmdrLast(length)
CmdrStatus == IF cmdr_state = "TIMEOUT" THEN STATUS_TIMEOUT ELSE STATUS_OK

-----------------------------------------------------------------------------
\* Slip: the receiver is not reset for a new response.
CmdrIdleNoReset(ce, valid, cmdw_done) ==
  /\ cmdr_state = "IDLE"
  /\ cmdr_timeout' = CmdTimeout
  /\ cmdr_count' = 0
  /\ IF valid /\ ce /\ cmdw_done
     THEN cmdr_state' = "WAIT" /\ cmdr_rx' \in Residues
     ELSE UNCHANGED <<cmdr_state, cmdr_rx>>
  /\ UNCHANGED cmdr_reset

CmdrIdle(ce, valid, cmdw_done) ==
  /\ cmdr_state = "IDLE"
  /\ cmdr_timeout' = CmdTimeout
  /\ cmdr_count' = 0
  /\ IF valid /\ ce /\ cmdw_done
     THEN cmdr_state' = "WAIT" /\ cmdr_reset' = TRUE /\ cmdr_rx' \in Residues
     ELSE UNCHANGED <<cmdr_state, cmdr_reset, cmdr_rx>>

\* Slip: the timer does not run.
CmdrUntimed(next) ==
  /\ UNCHANGED cmdr_timeout
  /\ cmdr_state' = IF cmdr_timeout = 0 THEN "TIMEOUT" ELSE next

\* The timer overrides whatever else a cycle decided (lines 262, 291, 307).
CmdrTimed(next) ==
  /\ cmdr_timeout' = Decrement(cmdr_timeout)
  /\ cmdr_state' = IF cmdr_timeout = 0 THEN "TIMEOUT" ELSE next

CmdrWait(beat, low) ==
  /\ cmdr_state = "WAIT"
  /\ cmdr_reset' = FALSE
  /\ CmdrTimed(IF cmdr_rx.buf THEN "CMD" ELSE "WAIT")
  /\ cmdr_rx' = IF cmdr_state' = "TIMEOUT" THEN Cleared
                ELSE Receiver(cmdr_rx, cmdr_reset, ByteBits, FALSE, beat, low, FALSE)
  /\ UNCHANGED cmdr_count

CmdrByte(beat, low, cmd_type, data_type, length, ready) ==
  LET end == CmdrTake(ready) /\ CmdrLast(length)
  IN  /\ cmdr_state = "CMD"
      /\ CmdrTimed(IF ~end THEN "CMD"
                   ELSE IF CmdrHeld(cmd_type, data_type) THEN "CLK8" ELSE "IDLE")
      /\ cmdr_count' = IF end /\ CmdrHeld(cmd_type, data_type) THEN 0
                       ELSE IF CmdrTake(ready) THEN cmdr_count + 1 ELSE cmdr_count
      /\ cmdr_rx' = IF cmdr_state' # "CMD" THEN Cleared
                    ELSE Receiver(cmdr_rx, cmdr_reset, ByteBits, FALSE, beat, low,
                                  CmdrTake(ready))
      /\ UNCHANGED cmdr_reset

CmdrBusy(beat, d0) ==
  /\ cmdr_state = "BUSY"
  /\ CmdrTimed(IF CmdrNotBusy(beat, d0) THEN "IDLE" ELSE "BUSY")
  /\ UNCHANGED <<cmdr_count, cmdr_reset, cmdr_rx>>

CmdrClk8(ce, cmd_type) ==
  /\ cmdr_state = "CLK8"
  /\ cmdr_count' = IF ce THEN cmdr_count + 1 ELSE cmdr_count
  /\ cmdr_state' = IF ~CmdrEndOfClk8(ce) THEN "CLK8"
                   ELSE IF cmd_type = RESPONSE_SHORT_BUSY THEN "BUSY" ELSE "IDLE"
  /\ UNCHANGED <<cmdr_timeout, cmdr_reset, cmdr_rx>>

CmdrTimeout(ready) ==
  /\ cmdr_state = "TIMEOUT"
  /\ cmdr_state' = IF ready THEN "IDLE" ELSE "TIMEOUT"
  /\ UNCHANGED <<cmdr_timeout, cmdr_count, cmdr_reset, cmdr_rx>>

CmdrStep(ce, beat, low, d0, valid, cmd_type, data_type, length, ready, cmdw_done) ==
  \/ CmdrIdle(ce, valid, cmdw_done)
  \/ CmdrWait(beat, low)
  \/ CmdrByte(beat, low, cmd_type, data_type, length, ready)
  \/ CmdrBusy(beat, d0)
  \/ CmdrClk8(ce, cmd_type)
  \/ CmdrTimeout(ready)
=============================================================================
