------------------------------ MODULE SDPHYDATAW ------------------------------
(***************************************************************************)
(* The data transmitter (phy.py, class SDPHYDATAW, lines 345-543).  Wires  *)
(* are parameters: ce, beat and low as in SDPHYCMDR (low is data line 0),  *)
(* valid, last and last_block from the core, token the status the card     *)
(* answers a block with (bits 7..5 of the byte received).                  *)
(***************************************************************************)
EXTENDS SDCommon, SDPHYR

VARIABLES dataw_state, dataw_count,
          dataw_flags, \* CSR status: which of the three tokens was seen
          dataw_rx     \* the SDPHYR called crc, which receives the token

datawVars == <<dataw_state, dataw_count, dataw_flags, dataw_rx>>

\* The token decoded; any other pattern leaves source.status at 0.
Tokens == {STATUS_DATAACCEPTED, STATUS_CRCERROR, STATUS_WRITEERROR, STATUS_OK}

DatawInit == /\ dataw_state = "IDLE" /\ dataw_count = 0
             /\ dataw_flags = {} /\ dataw_rx = Cleared

DatawStates == {"IDLE", "CLK2", "START", "DATA", "CRC16", "STOP", "CRC", "CLK8", "BUSY"}

DatawTypeOK == /\ dataw_state \in DatawStates
               /\ dataw_count \in Nat
               /\ dataw_flags \subseteq Tokens \ {STATUS_OK}
               /\ dataw_rx \in Receivers(ByteBits)

-----------------------------------------------------------------------------
\* Slip: the host is not waited for.
DatawNoStop(valid) == FALSE

\* self.stop: the clock waits for the host's next byte.
DatawStop(valid) == dataw_state = "DATA" /\ ~valid

DatawLastBeat(ce) == dataw_state = "DATA" /\ ce /\ dataw_count = BeatsPerByte - 1

\* Slip: busy taken for its opposite.
DatawBusyLow(beat, low) == dataw_state = "BUSY" /\ beat /\ low

\* The card has released D0.
DatawNotBusy(beat, low) == dataw_state = "BUSY" /\ beat /\ ~low

\* Slip: the last byte of a block is taken like the others, before its token.
DatawReadyEarly(ce, beat, low, last) == DatawLastBeat(ce)

\* sink.ready: the last byte of a block is taken at the end of BUSY only.
DatawReady(ce, beat, low, last) == \/ DatawLastBeat(ce) /\ ~last
                                   \/ DatawNotBusy(beat, low)

\* source.valid; source.status is the token.
DatawToken == dataw_state = "CRC" /\ dataw_rx.buf

\* Count n clocks, then go to next with count cleared.
DatawClocks(ce, state, n, next) ==
  /\ dataw_state = state
  /\ dataw_count' = IF ~ce THEN dataw_count
                    ELSE IF dataw_count = n - 1 THEN 0 ELSE dataw_count + 1
  /\ dataw_state' = IF ce /\ dataw_count = n - 1 THEN next ELSE state
  /\ UNCHANGED dataw_flags

-----------------------------------------------------------------------------
DatawIdle(ce, valid) ==
  /\ dataw_state = "IDLE"
  /\ dataw_count' = 0
  /\ IF valid /\ ce THEN dataw_state' = "CLK2" /\ dataw_flags' = {}
                    ELSE UNCHANGED <<dataw_state, dataw_flags>>
  /\ UNCHANGED dataw_rx

DatawClk2(ce) == DatawClocks(ce, "CLK2", 2, "START") /\ UNCHANGED dataw_rx

DatawStart(ce) ==
  /\ dataw_state = "START"
  /\ dataw_state' = IF ce THEN "DATA" ELSE "START"
  /\ UNCHANGED <<dataw_count, dataw_flags, dataw_rx>>

\* The beats of a byte; nothing here asks whether there is a byte.
DatawData(ce, last) ==
  /\ DatawClocks(ce, "DATA", BeatsPerByte, IF last THEN "CRC16" ELSE "DATA")
  /\ UNCHANGED dataw_rx

\* In STOP the receiver holds what it has sampled so far, mostly our own data.
DatawCrc16(ce) ==
  /\ DatawClocks(ce, "CRC16", CrcBeats, "STOP")
  /\ dataw_rx' \in IF ce /\ dataw_count = CrcBeats - 1 THEN Residues ELSE {dataw_rx}

\* Slip: the receiver of the token is not reset.
DatawStopBitKeeps(ce) ==
  /\ dataw_state = "STOP"
  /\ dataw_state' = IF ce THEN "CRC" ELSE "STOP"
  /\ UNCHANGED <<dataw_count, dataw_flags, dataw_rx>>

\* The reset acts in the cycle of the strobe, on which the card is not sampled yet.
DatawStopBit(ce) ==
  /\ dataw_state = "STOP"
  /\ IF ce THEN dataw_state' = "CRC" /\ dataw_rx' = Cleared
           ELSE UNCHANGED <<dataw_state, dataw_rx>>
  /\ UNCHANGED <<dataw_count, dataw_flags>>

DatawCrc(beat, low, last_block, token) ==
  /\ dataw_state = "CRC"
  /\ IF DatawToken
     THEN /\ dataw_state' = IF last_block THEN "CLK8" ELSE "BUSY"
          /\ dataw_flags' = dataw_flags \union ({token} \ {STATUS_OK})
          /\ dataw_rx' = Cleared
     ELSE /\ dataw_rx' = Receive(dataw_rx, ByteBits, TRUE, beat, low, FALSE)
          /\ UNCHANGED <<dataw_state, dataw_flags>>
  /\ UNCHANGED dataw_count

DatawClk8(ce) == DatawClocks(ce, "CLK8", Clk8, "BUSY") /\ UNCHANGED dataw_rx

DatawBusy(beat, low, last_block) ==
  /\ dataw_state = "BUSY"
  /\ dataw_count' = 0
  /\ dataw_state' = IF ~DatawNotBusy(beat, low) THEN "BUSY"
                    ELSE IF last_block THEN "IDLE" ELSE "CLK2"
  /\ UNCHANGED <<dataw_flags, dataw_rx>>

DatawStep(ce, beat, low, valid, last, last_block, token) ==
  \/ DatawIdle(ce, valid)
  \/ DatawClk2(ce)
  \/ DatawStart(ce)
  \/ DatawData(ce, last)
  \/ DatawCrc16(ce)
  \/ DatawStopBit(ce)
  \/ DatawCrc(beat, low, last_block, token)
  \/ DatawClk8(ce)
  \/ DatawBusy(beat, low, last_block)
=============================================================================
