-------------------------- MODULE SDCardController --------------------------
(***************************************************************************)
(* The whole controller: SDCore wired to the four engines of the PHY       *)
(* (phy.py, class SDPHY, lines 807-874) and clocked by the contract that   *)
(* SDPHYClocker implements.  One step is one cycle of sys_clk in which     *)
(* every FSM takes exactly one of its actions.                             *)
(*                                                                         *)
(* Around it: software (registers and the send strobe), the host streams   *)
(* (the write stream's valid, the read stream's ready) and the card        *)
(* (what the lines show when they are sampled).                            *)
(***************************************************************************)
EXTENDS ClockContract, SDCore, SDPHYCMDW, SDPHYCMDR, SDPHYDATAW, SDPHYDATAR

CONSTANT Polled \* TRUE: software strobes send only after it has read both done
                \* flags; FALSE: whenever it likes

CONSTANT CardTokens \* how the card may judge a block

CONSTANT WholeBlocks \* TRUE: the write stream marks no byte as last, or only those
                     \* that end a block; FALSE: whichever it likes

ASSUME WholeBlocksAssumption == WholeBlocks \in BOOLEAN
ASSUME PolledAssumption == Polled \in BOOLEAN
ASSUME CardTokensAssumption == CardTokens \subseteq Tokens

VARIABLE fifo   \* sink.valid: the write stream offers a byte

\* History, read by no action.  Since the last command was accepted:
VARIABLE h

Histories ==
  [taken  : Nat,      \* bytes taken from the write stream
   given  : Nat,      \* bytes handed to the read stream
   tokens : Nat,      \* status tokens received for written blocks
   seen   : SUBSET Tokens,  \* which they were
   badCrc : BOOLEAN,  \* a byte of a block with a wrong CRC16 was handed over
   cmdTimed  : BOOLEAN,  \* the response timer was loaded for this command
   dataTimed : BOOLEAN,  \* the read timer was loaded for this command
   lost   : BOOLEAN,  \* the read receiver dropped a beat
   stale  : BOOLEAN,  \* something sampled before a reset was consumed
   owed   : -1..2]    \* interrupts owed to software (one at power-up), capped:
                      \* -1 is one too many, 2 is one lost

vars == <<since, coreVars, cmdwVars, cmdrVars, datawVars, datarVars, fifo,
          fifo_last, h>>
hardware == <<since, coreVars, cmdwVars, cmdrVars, datawVars, datarVars, fifo,
              fifo_last>>

-----------------------------------------------------------------------------
(* The wires of a cycle.  w is what the surroundings put on them:          *)
(*   beat, low : a line is sampled in this cycle, and is low               *)
(*   ok        : the CRC compared in this cycle matches                    *)
(*   ready     : the read stream takes a byte                              *)
(*   token     : the status token the card answers a block with            *)
(*   send      : software strobes cmd_send                                 *)

\* A wire nobody reads in this cycle is tied down; sampling follows a strobe by
\* one cycle.
OrTied(read, values, tied) == IF read THEN values ELSE {tied}

Wires ==
  {w \in [beat  : OrTied(since = 1, BOOLEAN, FALSE),
          low   : OrTied(since = 1, BOOLEAN, FALSE),
          ok    : OrTied(cmdr_state \in {"CMD", "CLK8", "BUSY"} \/ datar_state = "DATA",
                         BOOLEAN, TRUE),
          ready : OrTied(datar_state = "DATA", BOOLEAN, TRUE),
          token : OrTied(DatawToken, CardTokens, STATUS_DATAACCEPTED),
          send  : OrTied(Polled => cmd_event.done /\ data_event.done, BOOLEAN, FALSE)] :
     /\ w.low => w.beat
     /\ ~w.ok => w.beat \/ cmdr_state \in {"CMD", "CLK8", "BUSY"}}

\* Core to cmdw, cmdr, dataw, datar.
CmdwValid  == core_state = "CMD-SEND"
CmdrSinkValid == core_state = "CMD-RESPONSE"
DatawValid == core_state = "DATA-WRITE" /\ fifo
DatarSinkValid == core_state = "DATA-READ"

\* cmdr.source, always taken in CMD-RESPONSE.
ResponseValid(w) == CmdrValid(Ce, w.beat, ~w.low, csr.cmd_type, csr.data_type,
                              ResponseLength, CmdrSinkValid)

\* dataw.sink.ready and dataw.source.status.
WriteReady(w) == DatawReady(Ce, w.beat, w.low, BlockEnd)
WriteStatus(w) == IF DatawToken THEN w.token ELSE STATUS_OK

\* datar.source.ready: CRC bytes are dropped, timeouts are always taken.
ReadReady(w) == DatarSinkValid /\ DatarValid
                /\ (\/ DatarStatus = STATUS_TIMEOUT
                    \/ DatarDrop(csr.block_length)
                    \/ w.ready)

\* clocker.stop.
Stop(w) == DatawStop(DatawValid) \/ DatarStop(ReadReady(w))

-----------------------------------------------------------------------------
\* Each FSM, with its wires connected.
CoreStep(w) ==
  \/ CoreIdle(w.send)
  \/ CoreAccept(w.send)
  \/ CoreCmdSend(CmdwReady(Ce, CmdwValid, CmdLast, csr.cmd_type))
  \/ CoreResponseWait(ResponseValid(w))
  \/ CoreResponseTimeout(ResponseValid(w), CmdrStatus)
  \/ CoreResponseByte(ResponseValid(w), CmdrStatus, CmdrSourceLast(ResponseLength))
  \/ CoreResponseLast(ResponseValid(w), CmdrStatus, CmdrSourceLast(ResponseLength), w.ok)
  \/ CoreDataWrite(DatawValid, WriteReady(w), DatawToken, WriteStatus(w))
  \/ CoreDataRead(DatarValid, DatarStatus, DatarSourceLast(csr.block_length),
                  ReadReady(w), WriteStatus(w))
  \/ CoreDataTimeout(DatarValid, DatarStatus)

Cmdw(w) == CmdwStep(Ce, CmdwValid, CmdLast, csr.cmd_type)

Cmdr(w) == CmdrStep(Ce, w.beat, w.low, ~w.low, CmdrSinkValid, csr.cmd_type,
                    csr.data_type, ResponseLength, CmdrSinkValid,
                    CmdwDone(Ce, CmdwValid))

Dataw(w) == DatawStep(Ce, w.beat, w.low, DatawValid, BlockEnd, LastBlock, w.token)

Datar(w) == DatarStep(Ce, w.beat, w.low, w.ok, DatarSinkValid, csr.block_length,
                      LastBlock, ReadReady(w))

\* Software writes the registers and then strobes send; a strobe the core does
\* not accept has rewritten the registers all the same.
Software(w) == IF w.send THEN csr' \in Csrs ELSE UNCHANGED csr

\* What the write stream may drive on last.  On a byte that ends a block it makes
\* no difference (SDCore, BlockEnd), and without a byte nobody looks at it: the
\* transmitter then holds the clock (NoUnderrun).
Lasts == IF WholeBlocks THEN {FALSE} ELSE BOOLEAN

\* The write stream keeps a byte on offer until it is taken.
HostWrite(w) ==
  \/ /\ fifo /\ ~(DatawValid /\ WriteReady(w))
     /\ UNCHANGED <<fifo, fifo_last>>
  \/ /\ fifo => DatawValid /\ WriteReady(w)
     /\ fifo' \in BOOLEAN /\ fifo_last' \in Lasts /\ (fifo_last' => fifo')

Accepted(w) == core_state = "IDLE" /\ w.send

NoHistory == [taken |-> 0, given |-> 0, tokens |-> 0, seen |-> {}, badCrc |-> FALSE,
              cmdTimed |-> FALSE, dataTimed |-> FALSE, lost |-> FALSE,
              stale |-> FALSE, owed |-> 1]

One(b) == IF b THEN 1 ELSE 0

\* An accepted command owes an interrupt.  Where done still reads 0 the one before
\* has ended without response and its done has not been written yet: the strobe
\* clears it in the very cycle (line 138), so one interrupt is owed for both.
OwedWith == IF ~cmd_event.done THEN h.owed
            ELSE IF h.owed < 2 THEN h.owed + 1 ELSE 2

History(w) ==
  LET g == IF Accepted(w) THEN [NoHistory EXCEPT !.owed = OwedWith] ELSE h
      handed == DatarTake(ReadReady(w)) /\ ~DatarDrop(csr.block_length)
      reading == datar_state \in {"WAIT", "DATA"} /\ ~datar_reset
  IN  h' = [taken  |-> g.taken + One(DatawValid /\ WriteReady(w)),
            given  |-> g.given + One(handed),
            tokens |-> g.tokens + One(DatawToken),
            seen   |-> IF DatawToken THEN g.seen \union {w.token} ELSE g.seen,
            badCrc |-> g.badCrc \/ (DatarTake(ReadReady(w)) /\ datar_crc_error),
            cmdTimed  |-> g.cmdTimed \/ (cmdr_state = "IDLE" /\ cmdr_state' = "WAIT"),
            dataTimed |-> g.dataTimed \/ (datar_state = "IDLE" /\ datar_state' = "WAIT"),
            lost   |-> g.lost \/ (reading /\ Loses(datar_rx, BeatsPerByte, TRUE, w.beat,
                                                   w.low, DatarTake(ReadReady(w)))),
            stale  |-> \/ g.stale
                       \/ CmdrTake(CmdrSinkValid) /\ ~cmdr_rx.fresh
                       \/ DatarTake(ReadReady(w)) /\ ~datar_rx.fresh
                       \/ DatawToken /\ ~dataw_rx.fresh,
            owed   |-> IF irq' /\ g.owed >= 0 THEN g.owed - 1 ELSE g.owed]

Cycle(w) == /\ CoreStep(w) /\ Cmdw(w) /\ Cmdr(w) /\ Dataw(w) /\ Datar(w)
            /\ Software(w) /\ HostWrite(w)
            /\ ClockStep(Stop(w))
            /\ History(w)

Init == /\ ClockInit /\ CoreInit /\ CmdwInit /\ CmdrInit /\ DatawInit /\ DatarInit
        /\ fifo \in BOOLEAN /\ fifo_last \in Lasts /\ (fifo_last => fifo)
        /\ h = NoHistory

Next == \E w \in Wires : Cycle(w)

Spec == Init /\ [][Next]_vars

(* Fairness.  The system clock ticks, also while nobody around the          *)
(* controller does anything: no strobe of software, no byte taken by the    *)
(* read stream, none newly offered on the write stream.  And the clocker    *)
(* strobes again and again if stop is released again and again, which is    *)
(* what SDPHYClocker guarantees (CeRecurs); it owes nothing while the read  *)
(* stream, or the write stream, holds stop.                                 *)
Tick == \E w \in Wires : /\ ~w.send
                         /\ datar_state = "DATA" => ~w.ready
                         /\ Cycle(w)
                         /\ fifo' => fifo
Released == \E w \in Wires : ~Stop(w) /\ Cycle(w)
Strobe == since' = 0

ClockRuns == []<><<Released>>_vars => []<><<Strobe>>_vars
Fairness == WF_vars(Tick) /\ ClockRuns

FairSpec == Spec /\ Fairness

(* A write has no timer (phy.py:503-543), so it ends only with a card that  *)
(* answers each block with a token and then releases D0, and with a host    *)
(* that supplies the data.                                                  *)
CardAnswers == dataw_state = "CRC" /\ \E w \in Wires : w.beat /\ w.low /\ Cycle(w)
CardReleases == dataw_state = "BUSY" /\ \E w \in Wires : w.beat /\ ~w.low /\ Cycle(w)
HostSupplies == core_state = "DATA-WRITE" => fifo

WritesServed == /\ SF_vars(CardAnswers) /\ SF_vars(CardReleases)
                /\ []<>HostSupplies
=============================================================================
