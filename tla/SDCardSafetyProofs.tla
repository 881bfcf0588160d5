------------------------- MODULE SDCardSafetyProofs -------------------------
(***************************************************************************)
(* What software can rely on, proved for every parameter of the controller.*)
(* The steps below may use that types hold and that engines are quiescent: *)
(* both are invariants by themselves (TypeCorrect, EnginesQuiescent).      *)
(***************************************************************************)
EXTENDS SDCardProofs

-----------------------------------------------------------------------------
(* Done flags.  They are low while the command, or its data, is under way. *)

DoneInv == /\ core_state \in {"CMD-SEND", "CMD-RESPONSE"} => ~cmd_event.done
           /\ core_state # "IDLE" => ~data_event.done

LEMMA DoneStep ==
  ASSUME CoreTypeOK, DoneInv, NEW w, CoreStep(w)
  PROVE  /\ DoneInv'
         /\ cmd_event.done /\ cmd_event'.done => cmd_event' = cmd_event
         /\ data_event.done /\ data_event'.done => data_event' = data_event
         /\ cmd_event.done /\ ~cmd_event'.done => Accepted(w)
<1> USE DEF DoneInv, CoreTypeOK
<1>1. CASE CoreIdle(w.send)
  BY <1>1 DEF CoreIdle
<1>2. CASE CoreAccept(w.send)
  BY <1>2 DEF CoreAccept, NoCmdEvent, NoDataEvent, Accepted
<1>3. CASE CoreCmdSend(CmdwReady(Ce, CmdwValid, CmdLast, csr.cmd_type))
  BY <1>3 DEF CoreCmdSend
<1>4. CASE CoreResponseWait(ResponseValid(w))
  BY <1>4 DEF CoreResponseWait
<1>5. CASE CoreResponseTimeout(ResponseValid(w), CmdrStatus)
  BY <1>5 DEF CoreResponseTimeout
<1>6. CASE CoreResponseByte(ResponseValid(w), CmdrStatus, CmdrSourceLast(ResponseLength))
  BY <1>6 DEF CoreResponseByte
<1>7. CASE CoreResponseLast(ResponseValid(w), CmdrStatus, CmdrSourceLast(ResponseLength), w.ok)
  BY <1>7 DEF CoreResponseLast
<1>8. CASE CoreDataWrite(DatawValid, WriteReady(w), DatawToken, WriteStatus(w))
  BY <1>8 DEF CoreDataWrite
<1>9. CASE CoreDataRead(DatarValid, DatarStatus, DatarSourceLast(csr.block_length),
                        ReadReady(w), WriteStatus(w))
  BY <1>9 DEF CoreDataRead
<1>10. CASE CoreDataTimeout(DatarValid, DatarStatus)
  BY <1>10 DEF CoreDataTimeout
<1> QED BY <1>1, <1>2, <1>3, <1>4, <1>5, <1>6, <1>7, <1>8, <1>9, <1>10 DEF CoreStep

LEMMA DoneInvariant == Spec => []DoneInv
<1>1. Init => DoneInv
  BY DEF Init, CoreInit, DoneInv, NoCmdEvent, NoDataEvent
<1>2. TypeOK /\ DoneInv /\ [Next]_vars => DoneInv'
  <2>1. ASSUME TypeOK, DoneInv, NEW w \in Wires, Cycle(w) PROVE DoneInv'
    BY <2>1, DoneStep DEF Cycle, TypeOK
  <2>2. ASSUME DoneInv, UNCHANGED vars PROVE DoneInv'
    BY <2>2 DEF vars, coreVars, DoneInv
  <2> QED BY <2>1, <2>2 DEF Next
<1> QED BY <1>1, <1>2, TypeCorrect, PTL DEF Spec

\* Once done is read, the flags beside it do not change until the next command is
\* accepted (core.py:127-145).
THEOREM DoneFlagsAreFinal == Spec => DoneIsFinal
<1> DEFINE Final == /\ cmd_event.done /\ cmd_event'.done => cmd_event' = cmd_event
                    /\ data_event.done /\ data_event'.done => data_event' = data_event
<1>1. TypeOK /\ DoneInv /\ [Next]_vars => [Final]_vars
  <2>1. ASSUME TypeOK, DoneInv, NEW w \in Wires, Cycle(w) PROVE Final
    BY <2>1, DoneStep DEF Cycle, TypeOK
  <2> QED BY <2>1 DEF Next
<1> QED BY <1>1, TypeCorrect, DoneInvariant, PTL DEF Spec, DoneIsFinal

-----------------------------------------------------------------------------
(* Interrupts.  One is owed from the moment a command is accepted until the*)
(* cycle in which its done has been seen to rise; commands accepted before *)
(* that share it.                                                          *)

IrqInv == h.owed = IF cmd_event.done /\ done_d THEN 0 ELSE 1

LEMMA IrqStep ==
  ASSUME CoreTypeOK, DoneInv, IrqInv, NEW w \in Wires, Cycle(w)
  PROVE  IrqInv'
<1>1. done_d' = cmd_event.done /\ irq' = (cmd_event.done /\ ~done_d)
  BY DEF Cycle, CoreStep, CoreIdle, CoreAccept, CoreCmdSend, CoreResponseWait,
     CoreResponseTimeout, CoreResponseByte, CoreResponseLast, CoreDataWrite,
     CoreDataRead, CoreDataTimeout, CoreRest, CoreIrq
<1>2. Accepted(w) => ~cmd_event'.done
  BY DEF Accepted, Cycle, CoreStep, CoreIdle, CoreAccept, CoreCmdSend, CoreResponseWait,
     CoreResponseTimeout, CoreResponseByte, CoreResponseLast, CoreDataWrite,
     CoreDataRead, CoreDataTimeout, NoCmdEvent
<1>3. cmd_event.done /\ ~Accepted(w) => cmd_event'.done
  BY DoneStep DEF Cycle
<1> DEFINE owed == IF Accepted(w) THEN OwedWith ELSE h.owed
<1>4. h'.owed = IF irq' /\ owed >= 0 THEN owed - 1 ELSE owed
  BY DEF Cycle, History, NoHistory
<1>5. CASE ~cmd_event.done
  <2>1. owed = 1 /\ ~irq' /\ ~done_d'
    BY <1>1, <1>5 DEF IrqInv, OwedWith
  <2> QED BY <1>4, <2>1 DEF IrqInv
<1>6. CASE cmd_event.done /\ Accepted(w)
  <2>0. h.owed \in 0..1 /\ OwedWith = h.owed + 1
    BY <1>6, SMT DEF IrqInv, OwedWith
  <2>1. done_d => owed = 1 /\ ~irq'
    <3>1. done_d => h.owed = 0 /\ ~irq'
      BY <1>1, <1>6 DEF IrqInv
    <3> QED BY <1>6, <2>0, <3>1
  <2>2. ~done_d => owed = 2 /\ irq'
    <3>1. ~done_d => h.owed = 1 /\ irq'
      BY <1>1, <1>6 DEF IrqInv
    <3> QED BY <1>6, <2>0, <3>1
  <2> HIDE DEF owed
  <2>3. h'.owed = 1
    BY <1>4, <2>1, <2>2, SMT
  <2> QED BY <1>2, <1>6, <2>3 DEF IrqInv
<1>7. CASE cmd_event.done /\ ~Accepted(w)
  <2>1. done_d => owed = 0 /\ ~irq'
    BY <1>1, <1>7 DEF IrqInv
  <2>2. ~done_d => owed = 1 /\ irq'
    BY <1>1, <1>7 DEF IrqInv
  <2> HIDE DEF owed
  <2>3. h'.owed = 0
    BY <1>4, <2>1, <2>2, SMT
  <2> QED BY <1>1, <1>3, <1>7, <2>3 DEF IrqInv
<1> QED BY <1>5, <1>6, <1>7

\* Each done raises exactly one interrupt, also with software that strobes send in
\* any cycle; only a done taken back in the cycle it was to be written shares the
\* interrupt of the next command (core.py:120-145).
THEOREM OneInterrupt == Spec => []OneIrqPerCommand
<1>1. Init => IrqInv
  BY DEF Init, CoreInit, NoCmdEvent, NoHistory, IrqInv
<1>2. TypeOK /\ DoneInv /\ IrqInv /\ [Next]_vars => IrqInv'
  <2>1. ASSUME TypeOK, DoneInv, IrqInv, NEW w \in Wires, Cycle(w) PROVE IrqInv'
    BY <2>1, IrqStep DEF TypeOK
  <2>2. ASSUME IrqInv, UNCHANGED vars PROVE IrqInv'
    BY <2>2 DEF vars, coreVars, IrqInv
  <2> QED BY <2>1, <2>2 DEF Next
<1>3. IrqInv => OneIrqPerCommand
  BY SMT DEF IrqInv, OneIrqPerCommand
<1> QED BY <1>1, <1>2, <1>3, TypeCorrect, DoneInvariant, PTL DEF Spec

-----------------------------------------------------------------------------
(* The verdict of a write.  Until the first token the flags and the set of *)
(* tokens are both empty; afterwards they grow together.                   *)

VerdictInv == /\ WriteVerdict
              /\ core_state \in {"CMD-SEND", "CMD-RESPONSE"} =>
                   h.seen = {} /\ ~data_event.crc /\ ~data_event.error

LEMMA VerdictStep ==
  ASSUME TypeOK, DatawQuiet, VerdictInv, NEW w \in Wires, Cycle(w)
  PROVE  VerdictInv'
<1> DEFINE base == IF Accepted(w) THEN {} ELSE h.seen
<1>1. h'.seen = IF DatawToken THEN base \union {w.token} ELSE base
  BY DEF Cycle, History, NoHistory
<1>2. data_event \in [done: BOOLEAN, error: BOOLEAN, timeout: BOOLEAN, crc: BOOLEAN]
  BY DEF TypeOK, CoreTypeOK
<1>3. core_state # "DATA-WRITE" => ~DatawToken
  BY DEF DatawQuiet, DatawToken
<1>4. CASE CoreIdle(w.send)
  BY <1>4 DEF CoreIdle, VerdictInv, WriteVerdict
<1>5. CASE CoreAccept(w.send)
  <2>1. Accepted(w) /\ ~DatawToken /\ h'.seen = {}
    BY <1>1, <1>3, <1>5 DEF CoreAccept, Accepted
  <2> QED BY <1>5, <2>1 DEF CoreAccept, NoDataEvent, VerdictInv, WriteVerdict
<1>6. CASE /\ core_state \in {"CMD-SEND", "CMD-RESPONSE"}
           /\ data_event' = data_event
  <2>1. h'.seen = {} /\ ~data_event'.crc /\ ~data_event'.error
    BY <1>1, <1>3, <1>6 DEF Accepted, VerdictInv
  <2> QED BY <2>1 DEF VerdictInv, WriteVerdict
<1>7. CASE CoreDataWrite(DatawValid, WriteReady(w), DatawToken, WriteStatus(w))
  <2>1. core_state = "DATA-WRITE" /\ core_state' \in {"IDLE", "DATA-WRITE"} /\ base = h.seen
    BY <1>7 DEF CoreDataWrite, Accepted
  <2>2. CASE DatawToken
    <3>1. h'.seen = h.seen \union {w.token} /\ WriteStatus(w) = w.token
      BY <1>1, <2>1, <2>2 DEF WriteStatus
    <3>2. /\ data_event'.crc = (data_event.crc \/ w.token = STATUS_CRCERROR)
          /\ data_event'.error = (data_event.error \/
               w.token \notin {STATUS_CRCERROR, STATUS_DATAACCEPTED})
      BY <1>2, <1>7, <2>2, <3>1 DEF CoreDataWrite
    <3> QED BY <2>1, <3>1, <3>2 DEF VerdictInv, WriteVerdict
  <2>3. CASE ~DatawToken
    <3>1. h'.seen = h.seen
      BY <1>1, <2>1, <2>3
    <3>2. data_event'.crc = data_event.crc /\ data_event'.error = data_event.error
      BY <1>2, <1>7, <2>3 DEF CoreDataWrite
    <3> QED BY <2>1, <3>1, <3>2 DEF VerdictInv, WriteVerdict
  <2> QED BY <2>2, <2>3
<1>8. CASE core_state' \in {"IDLE", "DATA-READ"}
  BY <1>8 DEF VerdictInv, WriteVerdict
<1>9. \/ CoreIdle(w.send) \/ CoreAccept(w.send)
      \/ core_state \in {"CMD-SEND", "CMD-RESPONSE"} /\ data_event' = data_event
      \/ CoreDataWrite(DatawValid, WriteReady(w), DatawToken, WriteStatus(w))
      \/ core_state' \in {"IDLE", "DATA-READ"}
  BY DEF Cycle, CoreStep, CoreCmdSend, CoreResponseWait, CoreResponseTimeout,
     CoreResponseByte, CoreResponseLast, CoreDataRead, CoreDataTimeout
<1> QED BY <1>4, <1>5, <1>6, <1>7, <1>8, <1>9

\* The flags of a write are the verdict of all its tokens, also when software
\* strobes and rewrites registers meanwhile (core.py:250-259).
THEOREM VerdictOfAllTokens == Spec => []WriteVerdict
<1>1. Init => VerdictInv
  BY DEF Init, CoreInit, VerdictInv, WriteVerdict
<1>2. TypeOK /\ Quiescent /\ VerdictInv /\ [Next]_vars => VerdictInv'
  <2>1. ASSUME TypeOK, Quiescent, VerdictInv, NEW w \in Wires, Cycle(w) PROVE VerdictInv'
    BY <2>1, VerdictStep DEF Quiescent, DatawQuiet
  <2>2. ASSUME VerdictInv, UNCHANGED vars PROVE VerdictInv'
    BY <2>2 DEF vars, coreVars, VerdictInv, WriteVerdict
  <2> QED BY <2>1, <2>2 DEF Next
<1> QED BY <1>1, <1>2, TypeCorrect, EnginesQuiescent, PTL DEF Spec, VerdictInv

-----------------------------------------------------------------------------
(* Receivers.  Where an engine reads its receiver, everything in it was    *)
(* sampled after the reset; only in the first cycle of WAIT, while the     *)
(* registered reset acts, something older may wait in the buffer.          *)

FreshInv == /\ cmdr_state = "WAIT" => cmdr_reset \/ cmdr_rx.fresh
            /\ cmdr_state = "CMD" => ~cmdr_reset /\ cmdr_rx.fresh
            /\ datar_state = "WAIT" => datar_reset \/ datar_rx.fresh
            /\ datar_state = "DATA" => ~datar_reset /\ datar_rx.fresh
            /\ dataw_state = "CRC" => dataw_rx.fresh
            /\ ~h.stale

LEMMA FreshReceive ==
  ASSUME NEW r, NEW n, NEW skip, NEW beat, NEW low, NEW take, NEW reset
  PROVE  /\ Receive(r, n, skip, beat, low, take).fresh = r.fresh
         /\ reset \/ r.fresh => Receiver(r, reset, n, skip, beat, low, take).fresh
  BY DEF Receive, Receiver, Cleared

LEMMA CmdrStaysFresh ==
  ASSUME TypeOK, FreshInv, NEW w, Cmdr(w)
  PROVE  /\ cmdr_state' = "WAIT" => cmdr_reset' \/ cmdr_rx'.fresh
         /\ cmdr_state' = "CMD" => ~cmdr_reset' /\ cmdr_rx'.fresh
<1> USE DEF CmdrStep, CmdrIdle, CmdrWait, CmdrByte, CmdrBusy, CmdrClk8, CmdrTimeout
<1>1. CASE cmdr_state = "IDLE"
  BY <1>1 DEF Cmdr
<1>2. CASE cmdr_state = "WAIT"
  BY <1>2, FreshReceive DEF Cmdr, CmdrTimed, FreshInv, Cleared
<1>3. CASE cmdr_state = "CMD"
  <2>1. ~cmdr_reset /\ cmdr_rx.fresh
    BY <1>3 DEF FreshInv
  <2>2. cmdr_reset' = cmdr_reset /\ cmdr_state' # "WAIT"
    BY <1>3 DEF Cmdr, CmdrTimed
  <2>3. cmdr_rx'.fresh
    BY <1>3, <2>1, FreshReceive DEF Cmdr, Cleared
  <2> QED BY <2>1, <2>2, <2>3
<1>4. CASE cmdr_state \in {"BUSY", "CLK8", "TIMEOUT"}
  BY <1>4 DEF Cmdr, CmdrTimed
<1> QED BY <1>1, <1>2, <1>3, <1>4 DEF TypeOK, CmdrTypeOK

LEMMA DatarStaysFresh ==
  ASSUME TypeOK, FreshInv, NEW w, Datar(w)
  PROVE  /\ datar_state' = "WAIT" => datar_reset' \/ datar_rx'.fresh
         /\ datar_state' = "DATA" => ~datar_reset' /\ datar_rx'.fresh
<1> USE DEF DatarStep, DatarIdle, DatarWait, DatarData, DatarClk8, DatarTimeout
<1>1. CASE datar_state = "IDLE"
  BY <1>1 DEF Datar
<1>2. CASE datar_state = "WAIT"
  BY <1>2, FreshReceive DEF Datar, DatarTimed, DatarReceive, DatarForget, FreshInv, Cleared
<1>3. CASE datar_state = "DATA"
  <2>1. ~datar_reset /\ datar_rx.fresh
    BY <1>3 DEF FreshInv
  <2>2. datar_reset' = datar_reset /\ datar_state' # "WAIT"
    BY <1>3 DEF Datar, DatarTimed
  <2>3. datar_rx'.fresh
    BY <1>3, <2>1, FreshReceive DEF Datar, DatarReceive, DatarForget, Cleared
  <2> QED BY <2>1, <2>2, <2>3
<1>4. CASE datar_state \in {"CLK8", "TIMEOUT"}
  BY <1>4 DEF Datar
<1> QED BY <1>1, <1>2, <1>3, <1>4 DEF TypeOK, DatarTypeOK

LEMMA DatawStaysFresh ==
  ASSUME TypeOK, FreshInv, NEW w, Dataw(w)
  PROVE  dataw_state' = "CRC" => dataw_rx'.fresh
<1>1. CASE DatawStopBit(Ce)
  BY <1>1 DEF DatawStopBit, Cleared
<1>2. CASE DatawCrc(w.beat, w.low, LastBlock, w.token)
  BY <1>2, FreshReceive DEF DatawCrc, FreshInv, Cleared
<1>3. CASE ~DatawStopBit(Ce) /\ ~DatawCrc(w.beat, w.low, LastBlock, w.token)
  BY <1>3 DEF TypeOK, DatawTypeOK, DatawStates, Dataw, DatawStep, DatawIdle, DatawClk2,
     DatawStart, DatawData, DatawCrc16, DatawClk8, DatawBusy, DatawClocks
<1> QED BY <1>1, <1>2, <1>3

\* Nothing sampled before a reset is taken for a response, for data or for a
\* token, in any sequence of commands (phy.py:248, 256, 499, 645, 651).
THEOREM ReceiversFresh == Spec => []NothingStale
<1>1. Init => FreshInv
  BY DEF Init, CmdrInit, DatarInit, DatawInit, NoHistory, Cleared, FreshInv
<1>2. TypeOK /\ FreshInv /\ [Next]_vars => FreshInv'
  <2>1. ASSUME TypeOK, FreshInv, NEW w \in Wires, Cycle(w) PROVE FreshInv'
    <3>1. dataw_state' = "CRC" => dataw_rx'.fresh
      BY <2>1, DatawStaysFresh DEF Cycle
    <3>2. ~h'.stale
      <4>1. /\ ~(CmdrTake(CmdrSinkValid) /\ ~cmdr_rx.fresh)
            /\ ~(DatarTake(ReadReady(w)) /\ ~datar_rx.fresh)
            /\ ~(DatawToken /\ ~dataw_rx.fresh)
        BY <2>1 DEF FreshInv, CmdrTake, DatarTake, DatawToken
      <4> DEFINE g == IF Accepted(w) THEN [NoHistory EXCEPT !.owed = OwedWith] ELSE h
      <4>2. ~g.stale
        BY <2>1 DEF FreshInv, NoHistory
      <4> QED BY <2>1, <4>1, <4>2 DEF Cycle, History
    <3> QED BY <2>1, <3>1, <3>2, CmdrStaysFresh, DatarStaysFresh DEF Cycle, FreshInv
  <2>2. ASSUME FreshInv, UNCHANGED vars PROVE FreshInv'
    BY <2>2 DEF vars, cmdrVars, datarVars, datawVars, FreshInv
  <2> QED BY <2>1, <2>2 DEF Next
<1>3. FreshInv => NothingStale
  BY DEF FreshInv, NothingStale
<1> QED BY <1>1, <1>2, <1>3, TypeCorrect, PTL DEF Spec

-----------------------------------------------------------------------------
(* Throttling.                                                             *)

\* No strobe follows a cycle in which the transmitter raised stop or in which
\* there was a strobe (ClockContract, Gap >= 2).
LEMMA NoStrobeAfter ==
  ASSUME NEW s, ClockTypeOK, ClockStep(s), s \/ Ce
  PROVE  ~Ce'
<1>1. s => since' = Later(since)
  BY DEF ClockStep, NoEdge, Edge
<1>2. Ce => since' = Later(since)
  BY GapAssumption, SMT DEF ClockStep, NoEdge, Edge, Ce
<1>3. Later(since) # 0
  BY GapAssumption, SMT DEF Later, ClockTypeOK
<1> QED BY <1>1, <1>2, <1>3 DEF Ce

\* The data transmitter never clocks out a beat the host has not supplied
\* (phy.py:476, 864): it enters DATA, and takes a byte, on a strobe only, and
\* raises stop from the next cycle on if there is no other byte.
THEOREM StopInTime == Spec => []NoUnderrun
<1>1. Init => NoUnderrun
  BY DEF Init, DatawInit, NoUnderrun
<1>2. TypeOK /\ Quiescent /\ NoUnderrun /\ [Next]_vars => NoUnderrun'
  <2>1. ASSUME TypeOK, Quiescent, NEW w \in Wires, Cycle(w),
               dataw_state' = "DATA", ~DatawValid'
        PROVE  ~Ce'
    <3> USE DEF DatawStep, DatawIdle, DatawClk2, DatawStart, DatawData, DatawCrc16,
                DatawStopBit, DatawCrc, DatawClk8, DatawBusy, DatawClocks
    <3>1. CASE dataw_state = "DATA" /\ ~DatawValid
      <4>1. Stop(w)
        BY <3>1 DEF Stop, DatawStop
      <4> QED BY <2>1, <4>1, NoStrobeAfter DEF Cycle, TypeOK
    <3>2. CASE dataw_state = "DATA" /\ DatawValid
      <4>1. core_state = "DATA-WRITE" /\ fifo
        BY <3>2 DEF DatawValid
      <4>2. ~DatawNotBusy(w.beat, w.low)
        BY <3>2 DEF DatawNotBusy
      <4>3. core_state' = "DATA-WRITE"
        BY <2>1, <4>1, <4>2 DEF Cycle, CoreStep, CoreIdle, CoreAccept, CoreCmdSend,
           CoreResponseWait, CoreResponseTimeout, CoreResponseByte, CoreResponseLast,
           CoreDataWrite, CoreDataRead, CoreDataTimeout, WriteReady, DatawReady
      <4>4. WriteReady(w)
        BY <2>1, <3>2, <4>1, <4>3 DEF Cycle, HostWrite, DatawValid
      <4>5. Ce
        BY <4>2, <4>4 DEF WriteReady, DatawReady, DatawLastBeat
      <4> QED BY <2>1, <4>5, NoStrobeAfter DEF Cycle, TypeOK
    <3>3. CASE dataw_state = "START"
      <4>1. Ce
        BY <2>1, <3>3 DEF Cycle, Dataw
      <4> QED BY <2>1, <4>1, NoStrobeAfter DEF Cycle, TypeOK
    <3>4. dataw_state \in {"DATA", "START"}
      BY <2>1 DEF Cycle, Dataw
    <3> QED BY <3>1, <3>2, <3>3, <3>4
  <2>2. ASSUME NoUnderrun, UNCHANGED vars PROVE NoUnderrun'
    BY <2>2 DEF vars, coreVars, datawVars, NoUnderrun, Ce, DatawValid
  <2> QED BY <2>1, <2>2 DEF Next, NoUnderrun
<1> QED BY <1>1, <1>2, TypeCorrect, EnginesQuiescent, PTL DEF Spec
=============================================================================
