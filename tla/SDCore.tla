-------------------------------- MODULE SDCore --------------------------------
(***************************************************************************)
(* The core (core.py, class SDCore, lines 22-297): the registers software  *)
(* reads and writes, the block delimiter of the write stream, the          *)
(* interrupt and the main FSM that runs the four engines of the PHY.  The  *)
(* wires from the engines are operator parameters.  Payloads (argument,    *)
(* response, data) are left out; crcOk is the comparison of line 220.      *)
(***************************************************************************)
EXTENDS SDCommon

CONSTANTS CmdBytes,            \* bytes of a command                 (48//8 = 6)
          ShortLen, LongLen,   \* bytes of a response   (48//8 = 6, 136//8 = 17)
          Csrs,                \* what software writes to the registers
          CountMod,            \* modulus of the block delimiter     (2^9 = 512)
          DataCountMod         \* modulus of the block counter            (2^32)

\* The registers: cmd_command, block_length (10 bits; the delimiter below has
\* only 9) and block_count (32 bits).
Registers ==
  [cmd_type : {RESPONSE_NONE, RESPONSE_SHORT, RESPONSE_LONG, RESPONSE_SHORT_BUSY},
   crc : BOOLEAN,
   data_type : {DATA_NONE, DATA_READ, DATA_WRITE},
   block_length : 1..CountMod,
   block_count : 1..(DataCountMod - 1)]

ASSUME CoreAssumption == /\ CmdBytes \in Nat \ {0}
                         /\ ShortLen \in Nat \ {0} /\ LongLen \in Nat \ {0}
                         /\ CountMod \in Nat \ {0} /\ DataCountMod \in Nat \ {0}
                         /\ Csrs \subseteq Registers

VARIABLES core_state,
          csr,       \* the registers software writes
          cmd_count, data_count,
          count,     \* position in the block on the write stream
          cmd_event, \* done, timeout and the internal crc flag
          data_event,\* done, error, timeout, crc
          done_d, irq

\* sink.last as the write stream in front of the core drives it, beside the byte
\* it offers; the surroundings assign it.
VARIABLE fifo_last

coreVars == <<core_state, csr, cmd_count, data_count, count, cmd_event, data_event,
              done_d, irq>>

NoCmdEvent  == [done |-> FALSE, timeout |-> FALSE, crc |-> FALSE]
NoDataEvent == [done |-> FALSE, error |-> FALSE, timeout |-> FALSE, crc |-> FALSE]

CoreInit == /\ core_state = "IDLE"
            /\ csr \in Csrs
            /\ cmd_count = 0 /\ data_count = 0 /\ count = 0
            /\ cmd_event = NoCmdEvent /\ data_event = NoDataEvent
            /\ done_d = FALSE /\ irq = FALSE

CoreStates == {"IDLE", "CMD-SEND", "CMD-RESPONSE", "DATA-WRITE", "DATA-READ"}

CoreTypeOK == /\ core_state \in CoreStates
              /\ csr \in Csrs
              /\ cmd_count \in 0..CmdBytes
              /\ data_count \in 0..(DataCountMod - 1)
              /\ count \in 0..(CountMod - 1)
              /\ cmd_event \in [done: BOOLEAN, timeout: BOOLEAN, crc: BOOLEAN]
              /\ data_event \in [done: BOOLEAN, error: BOOLEAN,
                                 timeout: BOOLEAN, crc: BOOLEAN]
              /\ done_d \in BOOLEAN /\ irq \in BOOLEAN

-----------------------------------------------------------------------------
\* What software reads: cmd_error is never assigned, crc is tied to 0 (98-101).
CmdEvent == [done |-> cmd_event.done, error |-> FALSE,
             timeout |-> cmd_event.timeout, crc |-> FALSE]

\* What the engines see.
CmdLast == cmd_count = CmdBytes - 1
ResponseLength == IF csr.cmd_type = RESPONSE_LONG THEN LongLen ELSE ShortLen
LastBlock == data_count = csr.block_count - 1   \* dataw.last_block, datar.last

\* self.sink.last: the end of a block is ORed into the stream's own last (line 118).
BlockEnd == fifo_last \/ count = csr.block_length - 1

-----------------------------------------------------------------------------
\* Slip: only its own end starts the delimiter again.
CoreDelimitOwn(taken) ==
  count' = IF ~taken THEN count
           ELSE IF count = csr.block_length - 1 THEN 0 ELSE (count + 1) % CountMod

\* The block delimiter (111-118) counts the bytes taken from the write stream.
CoreDelimit(taken) ==
  count' = IF ~taken THEN count
           ELSE IF BlockEnd THEN 0 ELSE (count + 1) % CountMod

\* Slips: a level instead of an edge; the other edge.
CoreIrqLevel == done_d' = cmd_event.done /\ irq' = cmd_event.done
CoreIrqFalling == done_d' = cmd_event.done /\ irq' = (~cmd_event.done /\ done_d)

\* The interrupt (121-123).
CoreIrq == done_d' = cmd_event.done /\ irq' = (cmd_event.done /\ ~done_d)

\* One more block is through.
NextBlock(ended) == data_count' = IF ended THEN (data_count + 1) % DataCountMod
                                           ELSE data_count

\* No byte moves on the write stream outside DATA-WRITE.
CoreRest == CoreDelimit(FALSE) /\ CoreIrq

CoreIdle(send) ==
  /\ core_state = "IDLE"
  /\ ~send
  /\ cmd_count' = 0 /\ data_count' = 0
  /\ cmd_event' = [cmd_event EXCEPT !.done = TRUE]
  /\ data_event' = [data_event EXCEPT !.done = TRUE]
  /\ UNCHANGED core_state
  /\ CoreRest

\* Slips: the flags of the last command stay; a busy core is restarted.
CoreAcceptKeeps(send) ==
  /\ core_state = "IDLE"
  /\ send
  /\ cmd_count' = 0 /\ data_count' = 0
  /\ cmd_event' = [NoCmdEvent EXCEPT !.done = cmd_event.done]
  /\ data_event' = [NoDataEvent EXCEPT !.done = data_event.done]
  /\ core_state' = "CMD-SEND"
  /\ CoreRest
CoreAcceptAlways(send) ==
  /\ send
  /\ cmd_count' = 0 /\ data_count' = 0
  /\ cmd_event' = NoCmdEvent
  /\ data_event' = NoDataEvent
  /\ core_state' = "CMD-SEND"
  /\ CoreRest

CoreAccept(send) ==
  /\ core_state = "IDLE"
  /\ send
  /\ cmd_count' = 0 /\ data_count' = 0
  /\ cmd_event' = NoCmdEvent
  /\ data_event' = NoDataEvent
  /\ core_state' = "CMD-SEND"
  /\ CoreRest

\* ready is cmdw.sink.ready.
CoreCmdSend(ready) ==
  /\ core_state = "CMD-SEND"
  /\ LET sent == ready /\ CmdLast
         reply == csr.cmd_type # RESPONSE_NONE
     IN  /\ cmd_count' = IF sent /\ reply THEN 0
                         ELSE IF ready THEN cmd_count + 1 ELSE cmd_count
         /\ core_state' = IF ~sent THEN "CMD-SEND"
                          ELSE IF reply THEN "CMD-RESPONSE" ELSE "IDLE"
  /\ UNCHANGED <<data_count, cmd_event, data_event>>
  /\ CoreRest

\* The cmdr source endpoint: nothing, a timeout, a byte, the last byte.
CoreResponseWait(valid) ==
  /\ core_state = "CMD-RESPONSE"
  /\ ~valid
  /\ UNCHANGED <<core_state, cmd_count, data_count, cmd_event, data_event>>
  /\ CoreRest

CoreResponseTimeout(valid, status) ==
  /\ core_state = "CMD-RESPONSE"
  /\ valid /\ status = STATUS_TIMEOUT
  /\ cmd_event' = [cmd_event EXCEPT !.timeout = TRUE]
  /\ core_state' = "IDLE"
  /\ UNCHANGED <<cmd_count, data_count, data_event>>
  /\ CoreRest

CoreResponseByte(valid, status, last) ==
  /\ core_state = "CMD-RESPONSE"
  /\ valid /\ status # STATUS_TIMEOUT /\ ~last
  /\ cmd_count' = IF cmd_count = 0 THEN 1 ELSE cmd_count
  /\ UNCHANGED <<core_state, data_count, cmd_event, data_event>>
  /\ CoreRest

CoreResponseLast(valid, status, last, crcOk) ==
  /\ core_state = "CMD-RESPONSE"
  /\ valid /\ status # STATUS_TIMEOUT /\ last
  /\ LET bad == csr.crc /\ ~crcOk
     IN  /\ cmd_event' = [cmd_event EXCEPT !.done = TRUE, !.crc = @ \/ bad]
         /\ core_state' = IF bad THEN "IDLE"
                          ELSE IF csr.data_type = DATA_WRITE THEN "DATA-WRITE"
                          ELSE IF csr.data_type = DATA_READ THEN "DATA-READ"
                          ELSE "IDLE"
  /\ UNCHANGED <<cmd_count, data_count, data_event>>
  /\ CoreRest

\* Slip: every token overwrites the verdict of those before it.
CoreDataWriteLastToken(valid, ready, token, status) ==
  /\ core_state = "DATA-WRITE"
  /\ LET ended == valid /\ ready /\ BlockEnd
     IN  /\ NextBlock(ended)
         /\ core_state' = IF ended /\ LastBlock THEN "IDLE" ELSE "DATA-WRITE"
         /\ data_event' = IF ~token THEN data_event ELSE
              [data_event EXCEPT
                 !.crc = status = STATUS_CRCERROR,
                 !.error = status \notin {STATUS_CRCERROR, STATUS_DATAACCEPTED}]
  /\ UNCHANGED <<cmd_count, cmd_event>>
  /\ CoreDelimit(valid /\ ready)
  /\ CoreIrq

\* valid and ready: the dataw sink endpoint; token and status: its source.
CoreDataWrite(valid, ready, token, status) ==
  /\ core_state = "DATA-WRITE"
  /\ LET ended == valid /\ ready /\ BlockEnd
         crc   == token /\ status = STATUS_CRCERROR
         error == token /\ status \notin {STATUS_CRCERROR, STATUS_DATAACCEPTED}
     IN  /\ NextBlock(ended)
         /\ core_state' = IF ended /\ LastBlock THEN "IDLE" ELSE "DATA-WRITE"
         /\ data_event' = [data_event EXCEPT !.crc = @ \/ crc, !.error = @ \/ error]
  /\ UNCHANGED <<cmd_count, cmd_event>>
  /\ CoreDelimit(valid /\ ready)
  /\ CoreIrq

\* valid, status, last and ready: the datar source endpoint.  Line 287 tests
\* the status of dataw, which is passed as datawStatus.
CoreDataRead(valid, status, last, ready, datawStatus) ==
  /\ core_state = "DATA-READ"
  /\ ~(valid /\ status = STATUS_TIMEOUT)
  /\ LET ended == valid /\ last /\ ready
     IN  /\ NextBlock(ended)
         /\ core_state' = IF ended /\ LastBlock THEN "IDLE" ELSE "DATA-READ"
         /\ data_event' = [data_event EXCEPT
                             !.crc = @ \/ (valid /\ datawStatus = STATUS_CRCERROR)]
  /\ UNCHANGED <<cmd_count, cmd_event>>
  /\ CoreRest

CoreDataTimeout(valid, status) ==
  /\ core_state = "DATA-READ"
  /\ valid /\ status = STATUS_TIMEOUT
  /\ data_event' = [data_event EXCEPT !.timeout = TRUE]
  /\ core_state' = "IDLE"
  /\ UNCHANGED <<cmd_count, data_count, cmd_event>>
  /\ CoreRest
=============================================================================
