-------------------------- MODULE SDCardProperties --------------------------
(***************************************************************************)
(* What the controller promises, stated over SDCardController.             *)
(***************************************************************************)
EXTENDS SDCardController

\* Every register stays in its range, in the whole controller.
TypeOK == /\ ClockTypeOK /\ CoreTypeOK /\ CmdwTypeOK /\ CmdrTypeOK
          /\ DatawTypeOK /\ DatarTypeOK
          /\ fifo \in BOOLEAN /\ fifo_last \in Lasts
          /\ h \in Histories

-----------------------------------------------------------------------------
(* The engines share one command line and one set of data lines, ORed at   *)
(* the pads (phy.py:845-851).                                              *)

\* An engine works only in the state of the core that runs it; the only
\* leftovers are a read's last eight clocks and the two TIMEOUT states (see
\* NoSpuriousTimeout).  In particular a command is never sent while a response,
\* a token or data are still being received.
Quiescent == /\ core_state # "CMD-SEND" => cmdw_state = "IDLE"
             /\ core_state # "CMD-RESPONSE" => cmdr_state \in {"IDLE", "TIMEOUT"}
             /\ core_state # "DATA-WRITE" => dataw_state = "IDLE"
             /\ core_state # "DATA-READ" => datar_state \in {"IDLE", "CLK8", "TIMEOUT"}

\* Done is final: once software reads done, and until the next command is
\* accepted, the flags that come with it do not change (core.py:127-145): no
\* late answer of an engine reaches the registers.
DoneIsFinal ==
  [][/\ cmd_event.done /\ cmd_event'.done => cmd_event' = cmd_event
     /\ data_event.done /\ data_event'.done => data_event' = data_event]_vars

\* One interrupt per command: the done of each command gives exactly one pulse,
\* which is out once done has been high for two cycles (core.py:120-123).  This
\* holds also for software that strobes whenever it likes: it may take a done back
\* in the cycle it is to be written, and then the two commands share a pulse, but a
\* done it could read has had its own, or gets it in the cycle of the strobe.
OneIrqPerCommand == /\ h.owed \in 0..1
                    /\ cmd_event.done /\ done_d => h.owed = 0

\* Nothing sampled before an engine reset its receiver is ever taken for a
\* response, for data or for a token (phy.py:248, 256, 499, 645, 651).
NothingStale == ~h.stale

\* A write that ends leaves the delimiter at the start of a block and got one token
\* per block, also when the stream ends blocks early with a last of its own; it took
\* every byte of every block if it does not (core.py:111-118, 236-248,
\* phy.py:503-543).
WriteComplete ==
  [][core_state = "DATA-WRITE" /\ core_state' = "IDLE"
       => /\ WholeBlocks => h'.taken = csr.block_length * csr.block_count
          /\ h'.tokens = csr.block_count
          /\ count' = 0]_vars

\* Its flags are the verdict of all its tokens, not of the last one
\* (core.py:250-259): crc iff some block was refused for its CRC, error iff
\* some block got any other answer than accepted.
WriteVerdict ==
  core_state = "DATA-WRITE" =>
    /\ data_event.crc <=> STATUS_CRCERROR \in h.seen
    /\ data_event.error <=> h.seen \ {STATUS_CRCERROR, STATUS_DATAACCEPTED} # {}

\* The data transmitter never clocks out a beat the host has not supplied:
\* stop reaches the clocker in time (phy.py:476, 864).
NoUnderrun == ~(dataw_state = "DATA" /\ Ce /\ ~DatawValid)

\* The read receiver never drops a beat: when the host is late, stop holds the
\* card's clock before its buffers overflow (phy.py:683, 864).
NoOverrun == ~h.lost

\* The whole CRC16 of a block is compared, bit by bit from its first on: the count
\* of compared beats starts in DATA only (phy.py:686), while the beats come from
\* the card's clock, so no CRC beat may arrive while the engine is still in WAIT.
\* Not so for blocks of one byte with strobes two cycles apart and several beats per
\* byte: the first CRC beat comes before that byte has reached the buffer.
CrcWhole ==
  [][csr.block_length > 1 =>
       /\ datar_state = "WAIT" /\ datar_data_count = 0 /\ ~datar_reset => since # 1
       /\ DatarSourceLast(csr.block_length) /\ datar_count' # datar_count
          /\ datar_state = "DATA" => datar_crc_count' = CrcBeats]_vars

-----------------------------------------------------------------------------
(* The abstract specification.                                             *)

Request(r) == [reply  |-> r.cmd_type # RESPONSE_NONE,
               check  |-> r.crc,
               data   |-> IF r.data_type = DATA_READ THEN "read"
                          ELSE IF r.data_type = DATA_WRITE THEN "write" ELSE "none",
               length |-> r.block_length,
               count  |-> r.block_count]

Stage == CASE core_state = "IDLE"       -> "idle"
           [] core_state = "DATA-READ"  -> "read"
           [] core_state = "DATA-WRITE" -> "write"
           [] OTHER                     -> "command"

Transfer == INSTANCE SDTransfer WITH
              Requests <- {Request(r) : r \in Csrs},
              stage    <- Stage,
              req      <- Request(csr),
              cmd      <- [done |-> cmd_event.done, timeout |-> cmd_event.timeout],
              data     <- data_event,
              moved    <- h.given + h.taken,
              answered <- dataw_state \in {"CLK8", "BUSY"}

\* Core, engines and clock together do what SDTransfer says, for software that
\* polls: a read ends with every byte handed over or with a timeout, a block's
\* last byte is taken only after its one token, a write ends with its last byte,
\* and the flags change when and as it allows (core.py:126-297, phy.py:345-714).
ImplementsTransfer == Transfer!Spec

-----------------------------------------------------------------------------
(* Liveness.                                                               *)

\* Every accepted command is done in the end, whatever the card does: it is
\* sent, answered, or timed out (core.py:148-235, phy.py:251-341).
CommandEnds == core_state = "CMD-SEND" ~> cmd_event.done

\* Every read ends, whatever the card and the read stream do: the timer runs
\* through backpressure too, which does stop the clock, so a read stream that never
\* takes a byte sees a timeout (phy.py:649-714).
ReadEnds == core_state = "DATA-READ" ~> core_state = "IDLE" /\ data_event.done

\* Every write ends with a card that answers and a host that supplies the data:
\* core and engine agree on which block is the last (core.py:239-248).
WriteEnds ==
  WritesServed => (core_state = "DATA-WRITE" ~> core_state = "IDLE" /\ data_event.done)

-----------------------------------------------------------------------------
(* What comments and register descriptions say and the code does not do.   *)

\* A command, or a read, reports a timeout only if its own response, its own data,
\* was waited for: the timer is preloaded each time (phy.py:241 "Preload Timeout
\* with Cmd Timeout.", 643).
NoSpuriousTimeout == /\ cmd_event.timeout => h.cmdTimed
                     /\ data_event.timeout => h.dataTimed

\* A wrong CRC is reported: the CRC7 of a response in cmd_event (core.py:44, 221),
\* the CRC16 of a block that was handed over in data_event (core.py:50 "CRC
\* Error.").
CrcReported ==
  /\ cmd_event.crc => CmdEvent.crc \/ CmdEvent.error
  /\ core_state = "IDLE" /\ data_event.done /\ h.badCrc => data_event.crc
=============================================================================
