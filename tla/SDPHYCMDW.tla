------------------------------ MODULE SDPHYCMDW ------------------------------
(***************************************************************************)
(* The command transmitter (phy.py, class SDPHYCMDW, lines 163-217).  Its  *)
(* wires are operator parameters: ce is pads_out.ready, valid, last and    *)
(* cmd_type come from the core.                                            *)
(***************************************************************************)
EXTENDS SDCommon

VARIABLES cmdw_state, cmdw_count

cmdwVars == <<cmdw_state, cmdw_count>>

CmdwInit == cmdw_state = "IDLE" /\ cmdw_count = 0

CmdwTypeOK == /\ cmdw_state \in {"IDLE", "WRITE", "CLK8"}
              /\ cmdw_count \in 0..(IF ByteBits < Clk8 THEN Clk8 ELSE ByteBits)

-----------------------------------------------------------------------------
\* The last bit of a byte goes out; the last clock of CLK8.
LastBit(ce, valid) == cmdw_state = "WRITE" /\ valid /\ ce /\ cmdw_count = ByteBits - 1
LastClock(ce) == cmdw_state = "CLK8" /\ ce /\ cmdw_count = Clk8 - 1

\* sink.ready: with no response, the last byte is acknowledged after CLK8.
CmdwReady(ce, valid, last, cmd_type) ==
  \/ LastBit(ce, valid) /\ ~(last /\ cmd_type = RESPONSE_NONE)
  \/ LastClock(ce)

\* self.done.
CmdwDone(ce, valid) == cmdw_state = "IDLE" /\ ~(valid /\ ce)

CmdwIdle(ce, valid) ==
  /\ cmdw_state = "IDLE"
  /\ cmdw_count' = 0
  /\ cmdw_state' = IF valid /\ ce THEN "WRITE" ELSE "IDLE"

CmdwBit(ce, valid) ==
  /\ cmdw_state = "WRITE"
  /\ ~LastBit(ce, valid)
  /\ cmdw_count' = IF valid /\ ce THEN cmdw_count + 1 ELSE cmdw_count
  /\ UNCHANGED cmdw_state

CmdwByte(ce, valid, last, cmd_type) ==
  /\ LastBit(ce, valid)
  /\ cmdw_count' = 0
  /\ cmdw_state' = IF ~last THEN "WRITE"
                   ELSE IF cmd_type = RESPONSE_NONE THEN "CLK8" ELSE "IDLE"

CmdwClk8(ce) ==
  /\ cmdw_state = "CLK8"
  /\ cmdw_count' = IF ce THEN cmdw_count + 1 ELSE cmdw_count
  /\ cmdw_state' = IF LastClock(ce) THEN "IDLE" ELSE "CLK8"

CmdwStep(ce, valid, last, cmd_type) ==
  \/ CmdwIdle(ce, valid)
  \/ CmdwBit(ce, valid)
  \/ CmdwByte(ce, valid, last, cmd_type)
  \/ CmdwClk8(ce)
=============================================================================
