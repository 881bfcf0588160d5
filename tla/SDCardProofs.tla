---------------------------- MODULE SDCardProofs ----------------------------
(***************************************************************************)
(* Proofs about the whole controller, for every width, timer value, block  *)
(* length and count, every card, every host stream and every software,     *)
(* polled or not.                                                          *)
(***************************************************************************)
EXTENDS SDCardProperties, TLAPS

-----------------------------------------------------------------------------
(* Type correctness, component by component.                               *)

\* What TypeOK needs to be inductive: the bit counters stop in time.
CountsOK == /\ cmdw_state = "WRITE" => cmdw_count < ByteBits
            /\ cmdw_state = "CLK8" => cmdw_count < Clk8
            /\ core_state = "CMD-SEND" => cmd_count < CmdBytes

\* The strengthening that is preserved by every cycle.
TypeInv == TypeOK /\ CountsOK

-----------------------------------------------------------------------------
LEMMA ClearedType ==
  ASSUME NEW n \in Nat \ {0}
  PROVE  Cleared \in Receivers(n) /\ Residues \subseteq Receivers(n)
<1>1. 0 \in 0..(n - 1)
  BY SMT
<1> QED BY <1>1 DEF Cleared, Residues, Receivers

LEMMA ReceiveType ==
  ASSUME NEW n \in Nat \ {0}, NEW r \in Receivers(n), NEW skip \in BOOLEAN,
         NEW beat \in BOOLEAN, NEW low \in BOOLEAN, NEW take \in BOOLEAN
  PROVE  Receive(r, n, skip, beat, low, take) \in Receivers(n)
<1> DEFINE load == Accepts(r, skip, beat, low) /\ ConverterReady(r, n, take)
           word == IF n = 1 THEN load ELSE r.full
           last == load /\ r.beats = n - 1
           next == [run   |-> r.run \/ (beat /\ low),
                    beats |-> IF last THEN 0 ELSE IF load THEN r.beats + 1 ELSE r.beats,
                    full  |-> n > 1 /\ (last \/ (r.full /\ ~BufferReady(r, take))),
                    buf   |-> IF BufferReady(r, take) THEN word ELSE r.buf,
                    fresh |-> r.fresh]
<1>1. Receive(r, n, skip, beat, low, take) = next
  BY DEF Receive
<1>2. /\ r.run \in BOOLEAN /\ r.beats \in 0..(n - 1) /\ r.full \in BOOLEAN
      /\ r.buf \in BOOLEAN /\ r.fresh \in BOOLEAN
  BY DEF Receivers
<1> HIDE DEF load
<1>3. (IF last THEN 0 ELSE IF load THEN r.beats + 1 ELSE r.beats) \in 0..(n - 1)
  BY <1>2, SMT
<1>4. load \in BOOLEAN
  BY DEF load
<1>5. word \in BOOLEAN
  BY <1>2, <1>4
<1>6. next \in Receivers(n)
  BY <1>2, <1>3, <1>5 DEF Receivers
<1> QED BY <1>1, <1>6

LEMMA ReceiverType ==
  ASSUME NEW n \in Nat \ {0}, NEW r \in Receivers(n), NEW reset, NEW skip \in BOOLEAN,
         NEW beat \in BOOLEAN, NEW low \in BOOLEAN, NEW take \in BOOLEAN
  PROVE  Receiver(r, reset, n, skip, beat, low, take) \in Receivers(n)
BY ClearedType, ReceiveType DEF Receiver

LEMMA DecrementType ==
  ASSUME NEW t \in 0..TimerMax
  PROVE  Decrement(t) \in 0..TimerMax
BY CommonAssumption, SMT DEF Decrement

LEMMA WiresType ==
  ASSUME NEW w \in Wires
  PROVE  /\ w.beat \in BOOLEAN /\ w.low \in BOOLEAN /\ w.ok \in BOOLEAN
         /\ w.ready \in BOOLEAN /\ w.token \in Tokens /\ w.send \in BOOLEAN
BY CardTokensAssumption DEF Wires, OrTied, Tokens

-----------------------------------------------------------------------------
LEMMA ClockType ==
  ASSUME ClockTypeOK, NEW stop, ClockStep(stop)
  PROVE  ClockTypeOK'
BY GapAssumption, SMT DEF ClockTypeOK, ClockStep, NoEdge, Edge, Later

LEMMA CmdwType ==
  ASSUME CmdwTypeOK, CountsOK, NEW w, Cmdw(w)
  PROVE  /\ CmdwTypeOK'
         /\ (cmdw_state = "WRITE" => cmdw_count < ByteBits)'
         /\ (cmdw_state = "CLK8" => cmdw_count < Clk8)'
<1> USE CommonAssumption DEF CmdwTypeOK, CountsOK, LastBit, LastClock
<1>1. CASE CmdwIdle(Ce, CmdwValid)
  BY <1>1, SMT DEF CmdwIdle
<1>2. CASE CmdwBit(Ce, CmdwValid)
  BY <1>2, SMT DEF CmdwBit
<1>3. CASE CmdwByte(Ce, CmdwValid, CmdLast, csr.cmd_type)
  BY <1>3, SMT DEF CmdwByte
<1>4. CASE CmdwClk8(Ce)
  BY <1>4, SMT DEF CmdwClk8
<1> QED BY <1>1, <1>2, <1>3, <1>4 DEF Cmdw, CmdwStep

LEMMA CmdrType ==
  ASSUME CmdrTypeOK, NEW w \in Wires, Cmdr(w)
  PROVE  CmdrTypeOK'
<1> USE DEF CmdrTypeOK
<1>0. ByteBits \in Nat \ {0} /\ CmdTimeout \in 0..TimerMax
  BY CommonAssumption, CmdTimeoutAssumption, SMT
<1>1. /\ Cleared \in Receivers(ByteBits) /\ Residues \subseteq Receivers(ByteBits)
      /\ Decrement(cmdr_timeout) \in 0..TimerMax
  BY <1>0, ClearedType, DecrementType
<1>2. \A take \in BOOLEAN : Receiver(cmdr_rx, cmdr_reset, ByteBits, FALSE, w.beat,
                                     w.low, take) \in Receivers(ByteBits)
  BY <1>0, ReceiverType, WiresType
<1>3. 0 \in Nat /\ cmdr_count + 1 \in Nat
  BY SMT
<1>4. CASE CmdrIdle(Ce, CmdrSinkValid, CmdwDone(Ce, CmdwValid))
  BY <1>0, <1>1, <1>3, <1>4 DEF CmdrIdle
<1>5. CASE CmdrWait(w.beat, w.low)
  BY <1>1, <1>2, <1>5 DEF CmdrWait, CmdrTimed
<1>6. CASE CmdrByte(w.beat, w.low, csr.cmd_type, csr.data_type, ResponseLength,
                    CmdrSinkValid)
  <2>1. CmdrTake(CmdrSinkValid) \in BOOLEAN
    BY DEF CmdrTake
  <2> QED BY <1>1, <1>2, <1>3, <1>6, <2>1 DEF CmdrByte, CmdrTimed
<1>7. CASE CmdrBusy(w.beat, ~w.low)
  BY <1>1, <1>7 DEF CmdrBusy, CmdrTimed
<1>8. CASE CmdrClk8(Ce, csr.cmd_type)
  BY <1>3, <1>8 DEF CmdrClk8
<1>9. CASE CmdrTimeout(CmdrSinkValid)
  BY <1>9 DEF CmdrTimeout
<1> QED BY <1>4, <1>5, <1>6, <1>7, <1>8, <1>9 DEF Cmdr, CmdrStep

LEMMA DatawType ==
  ASSUME DatawTypeOK, NEW w \in Wires, Dataw(w)
  PROVE  DatawTypeOK'
<1> USE DEF DatawTypeOK
<1>0. ByteBits \in Nat \ {0}
  BY CommonAssumption, SMT
<1>1. 0 \in Nat /\ dataw_count + 1 \in Nat
  BY SMT
<1>2. Cleared \in Receivers(ByteBits) /\ Residues \subseteq Receivers(ByteBits)
  BY <1>0, ClearedType
<1>3. Receive(dataw_rx, ByteBits, TRUE, w.beat, w.low, FALSE) \in Receivers(ByteBits)
  BY <1>0, ReceiveType, WiresType
<1>4. ASSUME NEW state \in DatawStates, NEW n, NEW next \in DatawStates,
             DatawClocks(Ce, state, n, next), dataw_rx' \in Receivers(ByteBits)
      PROVE  DatawTypeOK'
  BY <1>1, <1>4 DEF DatawClocks
<1>6. CASE DatawIdle(Ce, DatawValid)
  BY <1>1, <1>6 DEF DatawIdle, DatawStates
<1>7. CASE \/ DatawClk2(Ce) \/ DatawData(Ce, BlockEnd)
           \/ DatawCrc16(Ce) \/ DatawClk8(Ce)
  <2>1. \A s \in {"START", "DATA", "CRC16", "STOP", "CLK2", "CLK8", "BUSY"} : s \in DatawStates
    BY DEF DatawStates
  <2>2. CASE DatawClk2(Ce)
    BY <1>4, <2>1, <2>2 DEF DatawClk2
  <2>3. CASE DatawData(Ce, BlockEnd)
    BY <1>4, <2>1, <2>3 DEF DatawData
  <2>4. CASE DatawCrc16(Ce)
    BY <1>2, <1>4, <2>1, <2>4 DEF DatawCrc16
  <2>5. CASE DatawClk8(Ce)
    BY <1>4, <2>1, <2>5 DEF DatawClk8
  <2> QED BY <1>7, <2>2, <2>3, <2>4, <2>5
<1>8. CASE DatawStart(Ce)
  BY <1>8 DEF DatawStart, DatawStates
<1>9. CASE DatawStopBit(Ce)
  BY <1>2, <1>9 DEF DatawStopBit, DatawStates
<1>10. CASE DatawCrc(w.beat, w.low, LastBlock, w.token)
  <2>1. dataw_flags' \subseteq Tokens \ {STATUS_OK}
    <3>1. w.token \in Tokens
      BY WiresType
    <3>2. \/ dataw_flags' = dataw_flags \union ({w.token} \ {STATUS_OK})
          \/ dataw_flags' = dataw_flags
      BY <1>10 DEF DatawCrc
    <3> QED BY <3>1, <3>2
  <2>2. dataw_state' \in DatawStates /\ dataw_count' \in Nat
    BY <1>10 DEF DatawCrc, DatawStates
  <2>3. dataw_rx' \in Receivers(ByteBits)
    BY <1>2, <1>3, <1>10 DEF DatawCrc
  <2> QED BY <2>1, <2>2, <2>3
<1>11. CASE DatawBusy(w.beat, w.low, LastBlock)
  BY <1>1, <1>11 DEF DatawBusy, DatawStates
<1> QED BY <1>6, <1>7, <1>8, <1>9, <1>10, <1>11 DEF Dataw, DatawStep

LEMMA DatarReceiveType ==
  ASSUME DatarTypeOK, NEW beat \in BOOLEAN, NEW low \in BOOLEAN, NEW take \in BOOLEAN,
         NEW length \in Nat, DatarReceive(beat, low, length, take) \/ DatarForget
  PROVE  datar_rx' \in Receivers(BeatsPerByte) /\ datar_data_count' \in Nat
<1> USE DEF DatarTypeOK
<1>0. BeatsPerByte \in Nat \ {0}
  BY CommonAssumption
<1>1. CASE DatarForget
  BY <1>0, <1>1, ClearedType DEF DatarForget
<1>2. CASE DatarReceive(beat, low, length, take)
  <2>1. datar_rx' \in Receivers(BeatsPerByte)
    BY <1>0, <1>2, ReceiverType DEF DatarReceive
  <2>2. length * BeatsPerByte \in Nat
    BY <1>0, SMT
  <2>3. datar_data_count > 0 => datar_data_count - 1 \in Nat
    BY SMT
  <2> QED BY <1>2, <2>1, <2>2, <2>3 DEF DatarReceive
<1> QED BY <1>1, <1>2

LEMMA DatarType ==
  ASSUME DatarTypeOK, CoreTypeOK, NEW w \in Wires, Datar(w)
  PROVE  DatarTypeOK'
<1> USE DEF DatarTypeOK
<1>0. /\ BeatsPerByte \in Nat \ {0} /\ CrcBeats \in Nat \ {0}
      /\ DataTimeout \in 0..TimerMax /\ csr.block_length \in Nat
  <2>1. csr \in Registers
    BY CoreAssumption DEF CoreTypeOK
  <2>2. csr.block_length \in 1..CountMod
    BY <2>1 DEF Registers
  <2> QED BY <2>2, CommonAssumption, DataTimeoutAssumption, CoreAssumption, SMT
<1>1. 0 \in Nat /\ datar_count + 1 \in Nat /\ 0 \in 0..CrcBeats
  BY <1>0, SMT
<1>2. Residues \subseteq Receivers(BeatsPerByte)
  BY <1>0, ClearedType
<1>3. Decrement(datar_timeout) \in 0..TimerMax
  BY DecrementType
<1>4. datar_crc_count < CrcBeats => datar_crc_count + 1 \in 0..CrcBeats
  BY <1>0, SMT
<1>5. ReadReady(w) \in BOOLEAN
  BY DEF ReadReady, DatarSinkValid
<1>6. CASE DatarIdle(Ce, DatarSinkValid)
  BY <1>0, <1>1, <1>2, <1>6 DEF DatarIdle
<1>7. CASE DatarWait(w.beat, w.low, csr.block_length)
  <2>1. datar_rx' \in Receivers(BeatsPerByte) /\ datar_data_count' \in Nat
    BY <1>0, <1>7, WiresType, DatarReceiveType DEF DatarWait
  <2> QED BY <1>3, <1>7, <2>1 DEF DatarWait, DatarTimed
<1>8. CASE DatarData(w.beat, w.low, w.ok, csr.block_length, LastBlock, ReadReady(w))
  <2>1. DatarTake(ReadReady(w)) \in BOOLEAN
    BY DEF DatarTake
  <2>2. datar_rx' \in Receivers(BeatsPerByte) /\ datar_data_count' \in Nat
    BY <1>0, <1>8, <2>1, WiresType, DatarReceiveType DEF DatarData
  <2>3. datar_crc_count' \in 0..CrcBeats /\ datar_count' \in Nat
    BY <1>1, <1>4, <1>8 DEF DatarData
  <2>4. datar_crc_error' \in BOOLEAN
    BY <1>8 DEF DatarData
  <2> QED BY <1>3, <1>8, <2>2, <2>3, <2>4 DEF DatarData, DatarTimed
<1>9. CASE DatarClk8(Ce)
  BY <1>1, <1>9 DEF DatarClk8
<1>10. CASE DatarTimeout(ReadReady(w))
  BY <1>10 DEF DatarTimeout
<1> QED BY <1>6, <1>7, <1>8, <1>9, <1>10 DEF Datar, DatarStep

-----------------------------------------------------------------------------
\* The actions of the core differ only in what they do to a few registers.
LEMMA CoreType ==
  ASSUME CoreTypeOK, CountsOK, NEW w \in Wires, CoreStep(w), Software(w)
  PROVE  /\ CoreTypeOK'
         /\ (core_state = "CMD-SEND" => cmd_count < CmdBytes)'
<1> USE DEF CoreTypeOK, CoreRest, CoreIrq, CoreStates
<1>1. csr' \in Csrs
  BY DEF Software
<1>2. 0 \in 0..CmdBytes /\ 1 \in 0..CmdBytes /\ 0 \in 0..(DataCountMod - 1) /\ 0 < CmdBytes
  BY CoreAssumption, SMT
<1>3. \A taken : CoreDelimit(taken) => count' \in 0..(CountMod - 1)
  BY CoreAssumption, SMT DEF CoreDelimit
<1>4. \A ended : NextBlock(ended) => data_count' \in 0..(DataCountMod - 1)
  BY CoreAssumption, SMT DEF NextBlock
<1>5. NoCmdEvent \in [done: BOOLEAN, timeout: BOOLEAN, crc: BOOLEAN]
  BY DEF NoCmdEvent
<1>6. NoDataEvent \in [done: BOOLEAN, error: BOOLEAN, timeout: BOOLEAN, crc: BOOLEAN]
  BY DEF NoDataEvent
<1>7. CASE CoreIdle(w.send)
  BY <1>1, <1>2, <1>3, <1>7 DEF CoreIdle
<1>8. CASE CoreAccept(w.send)
  BY <1>1, <1>2, <1>3, <1>5, <1>6, <1>8 DEF CoreAccept
<1>9. CASE CoreCmdSend(CmdwReady(Ce, CmdwValid, CmdLast, csr.cmd_type))
  <2> DEFINE ready == CmdwReady(Ce, CmdwValid, CmdLast, csr.cmd_type)
  <2> HIDE DEF ready
  <2>1. CoreCmdSend(ready)
    BY <1>9 DEF ready
  <2>2. core_state' = "CMD-SEND" => ~(ready /\ CmdLast)
    BY <2>1 DEF CoreCmdSend
  <2>3. core_state = "CMD-SEND"
    BY <2>1 DEF CoreCmdSend
  <2>4. /\ cmd_count' \in 0..CmdBytes
        /\ core_state' = "CMD-SEND" => cmd_count' < CmdBytes
    BY <1>2, <2>1, <2>2, <2>3, CoreAssumption, SMT DEF CoreCmdSend, CmdLast, CountsOK
  <2> QED BY <1>1, <1>3, <2>1, <2>4 DEF CoreCmdSend
<1>10. CASE CoreResponseWait(ResponseValid(w))
  BY <1>1, <1>3, <1>10 DEF CoreResponseWait
<1>11. CASE CoreResponseTimeout(ResponseValid(w), CmdrStatus)
  BY <1>1, <1>3, <1>11 DEF CoreResponseTimeout
<1>12. CASE CoreResponseByte(ResponseValid(w), CmdrStatus, CmdrSourceLast(ResponseLength))
  BY <1>1, <1>2, <1>3, <1>12 DEF CoreResponseByte
<1>13. CASE CoreResponseLast(ResponseValid(w), CmdrStatus, CmdrSourceLast(ResponseLength), w.ok)
  BY <1>1, <1>3, <1>13 DEF CoreResponseLast
<1>14. CASE CoreDataWrite(DatawValid, WriteReady(w), DatawToken, WriteStatus(w))
  BY <1>1, <1>3, <1>4, <1>14 DEF CoreDataWrite
<1>15. CASE CoreDataRead(DatarValid, DatarStatus, DatarSourceLast(csr.block_length),
                         ReadReady(w), WriteStatus(w))
  BY <1>1, <1>3, <1>4, <1>15 DEF CoreDataRead
<1>16. CASE CoreDataTimeout(DatarValid, DatarStatus)
  BY <1>1, <1>3, <1>16 DEF CoreDataTimeout
<1> QED BY <1>7, <1>8, <1>9, <1>10, <1>11, <1>12, <1>13, <1>14, <1>15, <1>16 DEF CoreStep

LEMMA HistoryType ==
  ASSUME h \in Histories, NEW w \in Wires, History(w)
  PROVE  h' \in Histories
<1>1. /\ NoHistory \in Histories
      /\ [NoHistory EXCEPT !.owed = OwedWith] \in Histories
  <2>1. h.owed \in -1..2
    BY DEF Histories
  <2>2. OwedWith \in -1..2
    BY <2>1, SMT DEF OwedWith
  <2>3. 0 \in Nat /\ 1 \in -1..2
    BY SMT
  <2> QED BY <2>2, <2>3 DEF NoHistory, Histories
<1> DEFINE g == IF Accepted(w) THEN [NoHistory EXCEPT !.owed = OwedWith] ELSE h
<1>2. g \in Histories
  BY <1>1
<1> HIDE DEF g
<1>3. \A b : One(b) \in Nat
  BY SMT DEF One
<1>4. \A n \in Nat : \A b : n + One(b) \in Nat
  BY <1>3, SMT
<1>5. (IF irq' /\ g.owed >= 0 THEN g.owed - 1 ELSE g.owed) \in -1..2
  <2>1. g.owed \in -1..2
    BY <1>2 DEF Histories
  <2> QED BY <2>1, SMT
<1>6. (IF DatawToken THEN g.seen \union {w.token} ELSE g.seen) \in SUBSET Tokens
  BY <1>2, WiresType DEF Histories
<1> QED BY <1>2, <1>4, <1>5, <1>6 DEF History, Histories, g

\* Every register of core and engines stays in its range, whatever software, the
\* card and the streams do.
THEOREM TypeCorrect == Spec => []TypeOK
<1>1. Init => TypeInv
  <2> SUFFICES ASSUME Init PROVE TypeInv
    OBVIOUS
  <2>1. ClockTypeOK
    BY GapAssumption, SMT DEF Init, ClockInit, ClockTypeOK
  <2>2. CoreTypeOK
    <3>1. 0 \in 0..CmdBytes /\ 0 \in 0..(DataCountMod - 1) /\ 0 \in 0..(CountMod - 1)
      BY CoreAssumption, SMT
    <3> QED BY <3>1 DEF Init, CoreInit, CoreTypeOK, CoreStates, NoCmdEvent, NoDataEvent
  <2>3. CmdwTypeOK
    BY CommonAssumption, SMT DEF Init, CmdwInit, CmdwTypeOK
  <2>4. 0 \in 0..TimerMax /\ 0 \in 0..CrcBeats /\ 0 \in Nat
    BY CommonAssumption, SMT
  <2>5. Cleared \in Receivers(ByteBits) /\ Cleared \in Receivers(BeatsPerByte)
    <3>1. ByteBits \in Nat \ {0} /\ BeatsPerByte \in Nat \ {0}
      BY CommonAssumption, SMT
    <3> QED BY <3>1, ClearedType
  <2>6. CmdrTypeOK
    BY <2>4, <2>5 DEF Init, CmdrInit, CmdrTypeOK
  <2>7. DatawTypeOK
    BY <2>4, <2>5 DEF Init, DatawInit, DatawTypeOK, DatawStates
  <2>8. DatarTypeOK
    BY <2>4, <2>5 DEF Init, DatarInit, DatarTypeOK
  <2>9. h \in Histories /\ fifo \in BOOLEAN /\ fifo_last \in Lasts
    <3>1. 1 \in -1..2
      BY SMT
    <3> QED BY <2>4, <3>1 DEF Init, NoHistory, Histories
  <2>10. CountsOK
    BY DEF Init, CoreInit, CmdwInit, CountsOK
  <2> QED BY <2>1, <2>2, <2>3, <2>6, <2>7, <2>8, <2>9, <2>10 DEF TypeInv, TypeOK
<1>2. TypeInv /\ [Next]_vars => TypeInv'
  <2> SUFFICES ASSUME TypeInv, [Next]_vars PROVE TypeInv'
    OBVIOUS
  <2> USE DEF TypeInv, TypeOK
  <2>1. CASE Next
    <3>1. PICK w \in Wires : Cycle(w)
      BY <2>1 DEF Next
    <3>2. ClockTypeOK'
      BY <3>1, ClockType DEF Cycle
    <3>3. CoreTypeOK' /\ (core_state = "CMD-SEND" => cmd_count < CmdBytes)'
      BY <3>1, CoreType DEF Cycle
    <3>4. /\ CmdwTypeOK'
          /\ (cmdw_state = "WRITE" => cmdw_count < ByteBits)'
          /\ (cmdw_state = "CLK8" => cmdw_count < Clk8)'
      BY <3>1, CmdwType DEF Cycle
    <3>5. CmdrTypeOK' /\ DatawTypeOK' /\ DatarTypeOK'
      BY <3>1, CmdrType, DatawType, DatarType DEF Cycle
    <3>6. h' \in Histories /\ fifo' \in BOOLEAN /\ fifo_last' \in Lasts
      BY <3>1, HistoryType DEF Cycle, HostWrite
    <3> QED BY <3>2, <3>3, <3>4, <3>5, <3>6 DEF CountsOK
  <2>2. CASE UNCHANGED vars
    <3>1. Lasts' = Lasts
      BY DEF Lasts
    <3> QED BY <2>2, <3>1 DEF vars, coreVars, cmdwVars, cmdrVars, datawVars, datarVars,
          CountsOK, ClockTypeOK, CoreTypeOK, CmdwTypeOK, CmdrTypeOK, DatawTypeOK, DatarTypeOK
  <2> QED BY <2>1, <2>2
<1> QED BY <1>1, <1>2, PTL DEF Spec, TypeInv

-----------------------------------------------------------------------------
(* Quiescent is the conjunction of four invariants, one per engine; each   *)
(* is inductive by itself, because core and engine leave their states in   *)
(* the same cycle, on the same wires.                                      *)

CmdwQuiet  == core_state # "CMD-SEND" => cmdw_state = "IDLE"
CmdrQuiet  == core_state # "CMD-RESPONSE" => cmdr_state \in {"IDLE", "TIMEOUT"}
DatawQuiet == core_state # "DATA-WRITE" => dataw_state = "IDLE"
DatarQuiet == core_state # "DATA-READ" => datar_state \in {"IDLE", "CLK8", "TIMEOUT"}

LEMMA CmdwStaysQuiet ==
  ASSUME NEW w, CmdwQuiet, CoreStep(w), Cmdw(w)
  PROVE  CmdwQuiet'
<1>1. CASE core_state # "CMD-SEND"
  <2>1. cmdw_state = "IDLE" /\ ~CmdwValid
    BY <1>1 DEF CmdwQuiet, CmdwValid
  <2>2. cmdw_state' = "IDLE"
    BY <2>1 DEF Cmdw, CmdwStep, CmdwIdle, CmdwBit, CmdwByte, CmdwClk8, LastBit
  <2> QED BY <2>2 DEF CmdwQuiet
<1>2. CASE core_state = "CMD-SEND"
  <2>1. SUFFICES ASSUME core_state' # "CMD-SEND" PROVE cmdw_state' = "IDLE"
    BY DEF CmdwQuiet
  <2>2. CmdwReady(Ce, CmdwValid, CmdLast, csr.cmd_type) /\ CmdLast
    BY <1>2, <2>1 DEF CoreStep, CoreIdle, CoreAccept, CoreCmdSend, CoreResponseWait,
       CoreResponseTimeout, CoreResponseByte, CoreResponseLast, CoreDataWrite,
       CoreDataRead, CoreDataTimeout
  <2>3. CASE LastBit(Ce, CmdwValid) /\ csr.cmd_type # RESPONSE_NONE
    BY <2>2, <2>3 DEF Cmdw, CmdwStep, CmdwIdle, CmdwBit, CmdwByte, CmdwClk8, LastBit
  <2>4. CASE LastClock(Ce)
    BY <2>4 DEF Cmdw, CmdwStep, CmdwIdle, CmdwBit, CmdwByte, CmdwClk8, LastBit, LastClock
  <2> QED BY <2>2, <2>3, <2>4 DEF CmdwReady
<1> QED BY <1>1, <1>2

LEMMA DatawStaysQuiet ==
  ASSUME NEW w, DatawQuiet, CoreStep(w), Dataw(w)
  PROVE  DatawQuiet'
<1> USE DEF DatawStep, DatawIdle, DatawClk2, DatawStart, DatawData, DatawCrc16,
            DatawStopBit, DatawCrc, DatawClk8, DatawBusy, DatawClocks
<1>1. CASE core_state # "DATA-WRITE"
  <2>1. dataw_state = "IDLE" /\ ~DatawValid
    BY <1>1 DEF DatawQuiet, DatawValid
  <2>2. dataw_state' = "IDLE"
    BY <2>1 DEF Dataw
  <2> QED BY <2>2 DEF DatawQuiet
<1>2. CASE core_state = "DATA-WRITE"
  <2>1. SUFFICES ASSUME core_state' # "DATA-WRITE" PROVE dataw_state' = "IDLE"
    BY DEF DatawQuiet
  <2>2. WriteReady(w) /\ BlockEnd /\ LastBlock
    BY <1>2, <2>1 DEF CoreStep, CoreIdle, CoreAccept, CoreCmdSend, CoreResponseWait,
       CoreResponseTimeout, CoreResponseByte, CoreResponseLast, CoreDataWrite,
       CoreDataRead, CoreDataTimeout
  <2>3. DatawNotBusy(w.beat, w.low)
    BY <2>2 DEF WriteReady, DatawReady
  <2> QED BY <2>2, <2>3 DEF Dataw, DatawNotBusy
<1> QED BY <1>1, <1>2

LEMMA CmdrStaysQuiet ==
  ASSUME NEW w, CmdrQuiet, CoreStep(w), Cmdr(w)
  PROVE  CmdrQuiet'
<1> USE DEF CmdrStep, CmdrIdle, CmdrWait, CmdrByte, CmdrBusy, CmdrClk8, CmdrTimeout
<1>1. CASE core_state # "CMD-RESPONSE"
  <2>1. cmdr_state \in {"IDLE", "TIMEOUT"} /\ ~CmdrSinkValid
    BY <1>1 DEF CmdrQuiet, CmdrSinkValid
  <2>2. cmdr_state' \in {"IDLE", "TIMEOUT"}
    BY <2>1 DEF Cmdr
  <2> QED BY <2>2 DEF CmdrQuiet
<1>2. CASE core_state = "CMD-RESPONSE"
  <2>1. SUFFICES ASSUME core_state' # "CMD-RESPONSE"
                 PROVE  cmdr_state' \in {"IDLE", "TIMEOUT"}
    BY DEF CmdrQuiet
  <2>2. /\ ResponseValid(w)
        /\ CmdrStatus = STATUS_TIMEOUT \/ CmdrSourceLast(ResponseLength)
    BY <1>2, <2>1 DEF CoreStep, CoreIdle, CoreAccept, CoreCmdSend, CoreResponseWait,
       CoreResponseTimeout, CoreResponseByte, CoreResponseLast, CoreDataWrite,
       CoreDataRead, CoreDataTimeout
  <2>3. CASE cmdr_state = "TIMEOUT"
    BY <1>2, <2>3 DEF Cmdr, CmdrSinkValid
  <2>4. CASE cmdr_state = "CMD"
    <3>1. CmdrLast(ResponseLength) /\ cmdr_rx.buf
      BY <2>2, <2>4 DEF CmdrStatus, STATUS_OK, STATUS_TIMEOUT, CmdrSourceLast,
         ResponseValid, CmdrValid, CmdrEndOfClk8, CmdrNotBusy
    <3>2. CmdrTake(CmdrSinkValid) /\ ~CmdrHeld(csr.cmd_type, csr.data_type)
      BY <1>2, <2>2, <2>4, <3>1 DEF CmdrTake, CmdrSinkValid, ResponseValid, CmdrValid,
         CmdrEndOfClk8, CmdrNotBusy
    <3> QED BY <2>4, <3>1, <3>2 DEF Cmdr, CmdrTimed
  <2>5. CASE cmdr_state = "CLK8"
    <3>1. CmdrEndOfClk8(Ce) /\ csr.cmd_type # RESPONSE_SHORT_BUSY
      BY <2>2, <2>5 DEF ResponseValid, CmdrValid, CmdrNotBusy
    <3> QED BY <2>5, <3>1 DEF Cmdr
  <2>6. CASE cmdr_state = "BUSY"
    <3>1. CmdrNotBusy(w.beat, ~w.low)
      BY <2>2, <2>6 DEF ResponseValid, CmdrValid, CmdrEndOfClk8
    <3> QED BY <2>6, <3>1 DEF Cmdr, CmdrTimed
  <2>7. cmdr_state \in {"CMD", "CLK8", "BUSY", "TIMEOUT"}
    BY <2>2 DEF ResponseValid, CmdrValid, CmdrEndOfClk8, CmdrNotBusy
  <2> QED BY <2>3, <2>4, <2>5, <2>6, <2>7
<1> QED BY <1>1, <1>2

LEMMA DatarStaysQuiet ==
  ASSUME NEW w, DatarQuiet, CoreStep(w), Datar(w)
  PROVE  DatarQuiet'
<1> USE DEF DatarStep, DatarIdle, DatarWait, DatarData, DatarClk8, DatarTimeout
<1>1. CASE core_state # "DATA-READ"
  <2>1. datar_state \in {"IDLE", "CLK8", "TIMEOUT"} /\ ~DatarSinkValid /\ ~ReadReady(w)
    BY <1>1 DEF DatarQuiet, DatarSinkValid, ReadReady
  <2>2. datar_state' \in {"IDLE", "CLK8", "TIMEOUT"}
    BY <2>1 DEF Datar
  <2> QED BY <2>2 DEF DatarQuiet
<1>2. CASE core_state = "DATA-READ"
  <2>1. SUFFICES ASSUME core_state' # "DATA-READ"
                 PROVE  datar_state' \in {"IDLE", "CLK8", "TIMEOUT"}
    BY DEF DatarQuiet
  <2>2. \/ DatarValid /\ DatarStatus = STATUS_TIMEOUT
        \/ /\ DatarValid /\ DatarStatus # STATUS_TIMEOUT
           /\ DatarSourceLast(csr.block_length) /\ ReadReady(w) /\ LastBlock
    BY <1>2, <2>1 DEF CoreStep, CoreIdle, CoreAccept, CoreCmdSend, CoreResponseWait,
       CoreResponseTimeout, CoreResponseByte, CoreResponseLast, CoreDataWrite,
       CoreDataRead, CoreDataTimeout
  <2>3. CASE DatarValid /\ DatarStatus = STATUS_TIMEOUT
    <3>1. datar_state = "TIMEOUT"
      BY <2>3 DEF DatarStatus, STATUS_OK, STATUS_TIMEOUT, STATUS_CRCERROR
    <3> QED BY <3>1 DEF Datar
  <2>4. CASE /\ DatarValid /\ DatarStatus # STATUS_TIMEOUT
             /\ DatarSourceLast(csr.block_length) /\ ReadReady(w) /\ LastBlock
    <3>1. datar_state = "DATA" /\ DatarEnd(csr.block_length, ReadReady(w))
      BY <2>4 DEF DatarValid, DatarStatus, DatarEnd, DatarTake
    <3> QED BY <2>4, <3>1 DEF Datar, DatarTimed
  <2> QED BY <2>2, <2>3, <2>4
<1> QED BY <1>1, <1>2

\* No engine works outside the core state that runs it, whatever the card
\* answers and whenever software rewrites the registers or strobes send
\* (core.py:126-297 with the engines of phy.py).
THEOREM EnginesQuiescent == Spec => []Quiescent
<1> DEFINE Quiet == CmdwQuiet /\ CmdrQuiet /\ DatawQuiet /\ DatarQuiet
<1>1. Init => Quiet
  BY DEF Init, CoreInit, CmdwInit, CmdrInit, DatawInit, DatarInit,
         CmdwQuiet, CmdrQuiet, DatawQuiet, DatarQuiet
<1>2. Quiet /\ [Next]_vars => Quiet'
  <2>1. ASSUME Quiet, NEW w \in Wires, Cycle(w) PROVE Quiet'
    BY <2>1, CmdwStaysQuiet, CmdrStaysQuiet, DatawStaysQuiet, DatarStaysQuiet DEF Cycle
  <2>2. ASSUME Quiet, UNCHANGED vars PROVE Quiet'
    BY <2>2 DEF vars, coreVars, cmdwVars, cmdrVars, datawVars, datarVars,
                CmdwQuiet, CmdrQuiet, DatawQuiet, DatarQuiet
  <2> QED BY <2>1, <2>2 DEF Next
<1>3. Quiet => Quiescent
  BY DEF Quiescent, CmdwQuiet, CmdrQuiet, DatawQuiet, DatarQuiet
<1> QED BY <1>1, <1>2, <1>3, PTL DEF Spec
=============================================================================
