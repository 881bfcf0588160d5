# A verification model of LiteSDCard

LiteSDCard is an SDCard controller written in Migen: Python that builds
synchronous logic with one clock, `sys_clk`. All concurrency is that of hardware.
Six state machines advance together in every cycle and talk through
valid/ready endpoints, while three parties outside run on their own: software
(CSR writes), the DMA streams (ready or not) and the card (clocked by us, but it
answers when it likes, or never). The tests of the repository simulate each
engine alone against a scripted card (`test/test_phy.py`); what they do not
reach, and what this project is about, is what the machines do to *each other* in
the cycles nobody scripted: a timer that expires in the cycle of the last byte,
backpressure with a beat still on its way, a receiver whose reset arrives one
cycle late, a register rewritten in the middle of a phase.

## 1. Inventory

| Component | Source | State | Operations | Must hold | Status |
|---|---|---|---|---|---|
| SDPHYClocker, sampling strobe of SDPHYIO | `phy.py:43-82`, `718-725` | divided clock, counter, edge and gate registers, CSR `divider` | hold, toggle, count down, gate, sample | exact phases, whole pulses, samples behind strobes, strobes recur | modelled |
| SDPHYR | `phy.py:86-111` | start detector, converter, one-byte buffer | shift in, hand over, reset | no beat lost, nothing from before a reset | modelled |
| SDPHYCMDW | `phy.py:159-217` | FSM, bit counter | send bytes, grant 8 clocks | sends only when asked | modelled |
| SDPHYCMDR | `phy.py:221-341` | FSM, timer, byte counter, SDPHYR | wait, receive, wait out busy, time out | answers the command it was started for, in time | modelled |
| SDPHYDATAW | `phy.py:345-543` | FSM, beat counter, token flags, SDPHYR | frame a block, receive the token, wait out busy | no underrun; one token per block | modelled |
| SDPHYDATAR | `phy.py:547-714` | FSM, timer, counters, SDPHYR, CRC flag | wait, receive, drop the CRC, time out | all bytes, no overrun, none of the CRC | modelled |
| SDPHY (wiring) | `phy.py:807-864` | - | OR of pads, selection by width, stop, sampling | one driver per line, none against the card | modelled |
| SDCore | `core.py:22-297` | CSRs, delimiter, interrupt, FSM | accept, send, receive, write, read, time out | the flags tell what happened; one interrupt; ends | modelled |
| SDPHYInit | `phy.py:115-159` | FSM, counter | reset the card, 80 clocks | meets no running engine on the pads | modelled |
| CRC, CRC16 | `crc.py`, used in `core.py:70-231`, `phy.py:403-493`, `573-691` | shift register, read-out counter, mismatch flag | reset, shift, send, compare | remainder of the division, from a clean start each time | modelled |
| SDBlock2MemDMA | `frontend/dma.py:18-60` | gate, FIFO, converter, writer | open, drop, pack, store, interrupt | memory starts with a block, nothing dropped behind the gate, all of it arrives | modelled |
| SDMem2BlockDMA | `frontend/dma.py:64-92` | reader, converter, FIFO | fetch ahead, unpack, interrupt | the stream starts at base | modelled |
| BISTBlockGenerator, BISTBlockChecker | `frontend/bist.py:50-192` | FSM, block and word counters, error counter | reset, start, run, done | counts exactly the differences over exactly the blocks; ends | modelled |
| SDPHYIOGen, SDPHYIOEmulator | `phy.py:700-803` | pad registers | - | - | not modelled, but for the strobe of `718-725` |
| SDEmulator | `emulator/` | card FSM around Verilog of Project Vault | answer commands | card states | not modelled |
| Card detection | `phy.py:870-874` | one register | interrupt on a level change | - | not modelled |
| gen.py, bench/, test/ | | - | build a netlist, simulate | - | not modelled |

How they interact. `SDCore` runs one engine at a time by raising `valid` on its
endpoint in one of its states: `cmdw` in CMD-SEND, `cmdr` in CMD-RESPONSE,
`dataw` in DATA-WRITE, `datar` in DATA-READ. Engines advance on the strobe
`clocker.ce` (`pads_out.ready`), receivers on the sampling strobe derived from the
pad clock. `dataw` and `datar` raise `stop`, which holds the clock. All pads
are ORed. The receivers are reset by their engines through *registered*
`reset` bits, one cycle late.

Around the core: `SDBlock2MemDMA` takes `source`, `SDMem2BlockDMA` feeds `sink`, both
are started by CSRs that have nothing to do with the core's. The BIST pair may stand
in their place. The initialiser drives the pads of the engines, from a CSR of its
own.

What is hard: (a) timers and last bytes in the same cycle; (b) backpressure by
stopping a clock of which one more beat is under way; (c) residue in receivers
which sample all the time; (d) decisions taken twice, in the core and in the
engine (is this the last block?); (e) flags and interrupt at the border of two
commands; (f) software that writes when it should not; (g) two things that software
starts separately and that meet on a stream or a pad: DMA and core, generator and
checker, initialiser and engines; (h) what a failed transfer leaves in FIFOs,
converters and CRC registers. `PROJECT.json` lists each
at its line under "hazards" with the property that watches it, or the reason why none does:
lengths of 0 or beyond the delimiter, and an initialisation started in the middle of a
command (`phy.py:129`), are left to software by the code, and the models assume that it behaves.

## 2. Modules

| Module | Models | Extends |
|---|---|---|
| `ClockContract` | what the engines rely on of the clocker: strobe distance at least `Gap`, none in the cycle after `stop` | |
| `SDPHYClocker` | the clock generator and sampling strobe, one step per `sys_clk` cycle | instance of `ClockContract` as its abstract specification |
| `SDCommon` | encodings of `common.py`, the widths | |
| `SDPHYR` | the receiver as operators on a record; three engines own one each | |
| `SDPHYCMDW`, `SDPHYCMDR`, `SDPHYDATAW`, `SDPHYDATAR` | the engines: one action per FSM state, wires as operator parameters | `SDCommon`, `SDPHYR` |
| `SDCore` | registers, delimiter, interrupt, one action per arm of the main FSM | `SDCommon` |
| `SDCardController` | all of them wired as in SDPHY, on `ClockContract`; software, host and card around it | all the above |
| `SDCardProperties` | what the controller promises | `SDCardController`; instance of `SDTransfer` under a refinement mapping |
| `SDTransfer` | the abstract specification: one request at a time, answered or not, bytes one by one, a verdict in the flags | |
| `SDPHYInit`, `SDCardPads` | the initialiser; the controller with it, and who drives which line | `SDCardProperties`, `SDPHYInit` |
| `SDDMACommon`, `SDBlock2MemDMA`, `SDMem2BlockDMA` | the two DMAs as actions on their streams | |
| `SDSystem` | both DMAs on the core's streams, the core being `SDTransfer` | the three above; instance of `SDTransfer` |
| `SDBist` | generator and checker with the way between them | |
| `SDCRC` | the CRC register and the messages it protects, for any polynomial and word width | |
| `MCClocker`, `MCController`, `MCPads`, `MCSystem`, `MCBist`, `MCCRC` | instances for TLC | |
| `SDPHYClockerProofs` | theorems about the clocker | TLAPS |
| `SDCardProofs`, `SDCardSafetyProofs`, `SDCardTransferProofs` | theorems about the controller: ranges and engines, flags and interrupts, data and refinement | each on the one before |
| `SDCardPadsProofs` | the same with the initialiser, and who drives which line | `SDCardSafetyProofs` |
| `SDSystemProofs`, `SDBistProofs`, `SDCRCProofs` | theorems about the DMAs, the self test and the CRC | TLAPS |

How to read them against the code:

* **A step is a clock cycle.** `Cycle(w)` conjoins one action of each FSM. A register
  assigned with `NextValue` (or in `sync`) is a primed variable; a combinational signal (`valid`, `ready`,
  `last`, `stop`) is an operator of the unprimed state and of `w`, the record
  of what the surroundings put on the wires in this cycle.
* **Last assignment wins**, as in Migen. The timeout test is the last statement of
  WAIT, CMD, BUSY and DATA and so overrides any other transition of that cycle:
  `CmdrTimed(next)`, `DatarTimed(next)`.
* **Receivers.** In the code a receiver samples whenever the card is clocked, also
  while its engine ignores it. It is tracked only while someone reads it: on
  entering WAIT it becomes one of `Residues` (a byte left in the buffer, or none;
  `fresh` is FALSE) and the registered reset clears it a cycle later, as in the code.
  The receiver of the token becomes one on entering STOP, whose reset is combinational.
  Beats left in the converter and a running start detector are part of the
  residue too, but nothing can read them in the one cycle before the reset.
* **History.** `h` (and `age`, `phase`, `since`, `started` in the clocker) is written
  and never read by actions; the properties compare it with the registers.
* **Slips.** Definitions whose comment says "Slip" (`DatarDropLate`,
  `CoreAcceptAlways`, ...) are not used by the models. Each is a plausible mistake
  in the definition that follows it; put in its place it makes a property fail.
  They show that the properties depend on the code.

The refinement. `Transfer` in `SDCardProperties` maps core states to the stages of
`SDTransfer`, the registers to a request, the bytes that crossed either stream
(`h.given + h.taken`) to `moved`, and the states of the transmitter behind the token to
`answered`. A cycle maps to one abstract step or none: in particular a
read that ends has handed over every byte of every block or reports a timeout, the last byte of
a written block is only taken once the card has judged it, and no flag changes at
another time. `SDSystem` builds on `SDTransfer`, so that what it shows of the DMAs holds
with the real core.

DMAs. FIFO, converter, WishboneDMAReader and WishboneDMAWriter are LiteX
modules and modelled from their use: each may hand on a byte or a word in a cycle or
not (wires `shift`, `ack`, `fetch`). A byte is named by its position in the
transfer or from base while that is the current one, and `Stale` from then on, so
that properties tell new bytes from leftovers. The core moves at most one byte a
cycle.

BIST. A word is named by its position in the sequence; a spoilt one equals none. What
LFSR and Counter compute does not matter as long as both sides compute the same
and successive words differ; both depend on their position since the last reset
only, which is what the names say. What lies between is a queue that keeps the order.

CRC. In `SDCRC` data are bits. The peer is a card that knows what a CRC is: it sends
multiples of the generator polynomial, computed by polynomial multiplication, and the
line flips up to as many bits as the code promises to detect. A unit describes one use of the register:
polynomial, bits per word, words that are covered, words skipped before them (the first byte of a
long response), bits compared in a step.

Abstractions of the controller. Payload (argument, response, data bits) is left out;
there the CRC verdicts are inputs (`ok`, `token`) and `SDCRC` shows what they depend on.
`cmd_response` is not modelled, hence
`cmd_count` matters only as a counter. `data_width` is fixed for a run
(`BeatsPerByte`). The two timeout CSRs keep their reset values. `data_type` 3, which
`common.py` does not define, is never written. `block_length` stays within the
9-bit delimiter and both lengths are at least 1 (`CoreAssumption`): what
happens outside is listed as hazards, without a property.
A byte of the write stream comes with a mark of its own, `fifo_last`, to which the delimiter
adds the end of the block (`core.py:118` has an If without Else). `WholeBlocks` says that
the stream marks nothing but ends of blocks, so the mark makes no difference; without it any byte
may be marked and ends its block early. `SDTransfer`, and with it `SDSystem`, is about
`WholeBlocks`: the write DMA marks the last byte of its length, hence that length has to be that of
the transfer and nothing may be left over from an earlier one (finding 4).
In `SDCardController` the sampling strobe may come one cycle after a strobe and
need not: the card clock is gated when no engine enables it. This allows more
than the code does, so the safety results carry over; the clocker's own
`SampleFollowsCe` shows that no sample comes at another time.

## 3. Runs

Sizes. The widths are scaled so that whole transfers fit: 2 bits per command byte
(8), 2 clocks of CLK8 (8), 2 command bytes (6), responses of 2 and 3 bytes (6, 17),
CRC16 of 4 beats (16), 2 beats per byte (8, 2 or 1), `Gap` 2 (the code's smallest).
Two is the smallest number at which a counter has a first, a last and
a wrap, and one and two bytes in one and two blocks reach every comparison of
counters in the code. The delimiter and block counter wrap at 2 and 4 (512, 2^32).
Timers start at 12 to 28 cycles: every complete response takes more than 10 cycles
and so may beat the timer or lose to it by any number of cycles, in every state; this
is what makes the two timeout findings reachable. `TimerMax` 40 is only the value at
which a timer wraps. No run uses a state constraint: the models are finite.

`SDSystem` has words of two bytes, FIFOs of two (512), DMAs of three words, blocks of
one and of three bytes: block and word boundaries coincide for some transfers and not for others, and
the FIFO is full or empty at any of them. `SDBist` has blocks of two words, a block
counter of three values (so that the count 0 wraps to the last of them), an error counter that stops at 2 while
3 words may be spoilt. `SDCRC` has the real polynomials and word widths on messages
of one or two bytes (each out of three values) and of four beats (every value): sent, or
received with every pattern of up to 2 (CRC7) or 3 (CRC16) flips, one after another.

| Run | Question | Result |
|---|---|---|
| `clocker` | dividers 0 to 8 with every interleaving of `stop`, `clk_en` and divider writes | TypeOK, PhaseLeft, PhaseExact, NoShortPulse, SampleFollowsCe, CeRecurs hold; implements `ClockContract` (2.5k states) |
| `transfers` | reads of 1x1 and 2x2, writes of 2x2 (bytes x blocks) in any order; card, host and tokens free, timers expiring at any moment | implements `SDTransfer`; CrcWhole, NoOverrun, NoUnderrun, WriteComplete, WriteVerdict (0.5M) |
| `mixed` | every response type, reads, writes of one byte and initialisations, one after another | Quiescent, DoneIsFinal, OneIrqPerCommand, NothingStale, NoContention (0.4M) |
| `blind` | software strobes and rewrites at any moment (`Polled = FALSE`) | Quiescent, DoneIsFinal, OneIrqPerCommand (0.14M) |
| `live` | commands, reads of 1x2, and writes of 2x2 from a stream that marks any byte as last (`WholeBlocks = FALSE`) | CommandEnds, ReadEnds, whatever card and streams do; WriteComplete; WriteEnds with a card that answers and a host that supplies (82k) |
| `dma` | either DMA enabled and taken back at any time, requests of every kind, failing at any point | ReadInPlace, ReadKept, OneDmaIrq, ReadReachesMemory (50k) |
| `bist` | resets, starts and counts written in any order, words waiting or spoilt anywhere | ErrorsExact, CheckedWhole, CheckEnds (75k) |
| `crc` | messages sent and received one after another, flipped anywhere | SentIsCodeword, VerdictExact, FlipsDetected (126k) |
| `f_*` | what comments and register descriptions say | violated, see section 5 |

Fairness. `WF(Tick)`: the clock ticks, and by itself it only brings cycles in which software
does not strobe, the read stream takes nothing and the write stream offers nothing new; nothing
is gained from the surroundings by fairness of the clock. `ClockRuns`: if `stop` is released
again and again, strobes recur; this is `CeRecurs`, which the clocker run shows. While a stream
holds `stop` for good no strobe is owed: a read stream that never takes a byte stops the clock
for ever, and ReadEnds holds because the timer runs in system cycles (a timer that paused
with the clock, `DatarPaused`, breaks it). Of the card and the streams something is assumed
only in WriteEnds (`WritesServed`): the code has no timer for a write (`phy.py:503-543`), so a token must
come again and again while one is waited for (`CardAnswers`), D0 must be released
(`CardReleases`) and the host must supply bytes (`HostSupplies`).
In `SDSystem` the DMA's writer leaves IDLE when enabled (`Starts`: the clock), the
FIFO drains into the converter (`Drains`) and memory takes words (`Stores`: the bus is
not blocked for ever); software and card need do nothing. In `SDBist` words get
through (`Sends`, `Receives`); software need do nothing.

Deadlock is checked in every run: there is always a next cycle.

## 4. Proofs

All for every value of the constants within the named assumptions.

| Theorem | States | Argument |
|---|---|---|
| `SDPHYClockerProofs!TypeCorrect`, `PhaseLeftInvariant` | `[]TypeOK`, `[]PhaseLeft` | what is left plus what has passed is the phase; the counter is reloaded only with what `phase` records |
| `PhasesAreExact`, `WholePulses` | `PhaseExact`, `NoShortPulse` | from PhaseLeft; the pin changes only with `clk` as the gate register is transparent only while `clk_d` is high |
| `ClockerImplementsContract` | `ImplementsContract` | `SinceInv`: the time since the last strobe is bounded below by what has passed of the low and high phase, each at least `MinHalf` |
| `SDCardProofs!TypeCorrect` | `[]TypeOK` | inductive with `CountsOK`: the bits and bytes sent so far stay below their lengths |
| `EnginesQuiescent` | `[]Quiescent` | its four conjuncts, one per engine, are each inductive: core and engine leave their states in the same cycle, on the same wires; the one exception, the timer that overrides the last byte, leaves the engine in TIMEOUT, which Quiescent allows |
| `SDCardSafetyProofs!DoneFlagsAreFinal` | `DoneIsFinal` | `DoneInv`: done is low while a command or its data is under way, so flags change only with done low |
| `OneInterrupt` | `[]OneIrqPerCommand` | `IrqInv`: an interrupt is owed exactly until done has been high for a cycle; a command accepted while done reads 0 takes over the one that is owed |
| `VerdictOfAllTokens` | `[]WriteVerdict` | `VerdictInv`: flags and tokens seen are both empty before the data, then grow together |
| `ReceiversFresh` | `[]NothingStale` | `FreshInv`: where an engine looks at its receiver, a reset is pending or everything in it is fresh; in WAIT the byte of the pending cycle moves the FSM on but is not consumed, and the reset is over before CMD or DATA takes one |
| `StopInTime` | `[]NoUnderrun` | Quiescent, and that no strobe follows a strobe or a raised stop by one cycle (contract) |
| `SamplesFollowStrobes` | `SampleFollowsCe` | `SampleInv`: a pin that has just been high was low in the divider and open at the gate, so it can only fall behind a rising edge |
| `SDCardTransferProofs!ReadsLoseNothing` (assumes `Roomy`) | `[]NoOverrun` | `RoomInv`: while the receiver is full, the last strobe is at least two cycles back, and no beat comes before the next one |
| `WholeCrcCompared` (assumes `Polled`, `WholeCrcBytes`) | `CrcWhole` | `WaitInv`, `CrcInv`: every beat stored has been counted once, as data or as CRC (the content of receiver and byte counter equals the beats counted), so the last byte of the block finds all CRC beats counted |
| `WritesAreWhole` (the same) | `WriteComplete`: tokens and counters for any stream, the bytes taken with `WholeBlocks` | `TransferInv`: core and engine count the same blocks and bytes, each from its side; no counter wraps inside a block or a transfer |
| `ControllerImplementsTransfer` (the same, and `WholeBlocks`) | `ImplementsTransfer` | one lemma per state of the core, each cycle a step of `SDTransfer` or a stutter; from `TransferInv`, Quiescent, `DoneInv`, NoUnderrun, and that the byte at which a token comes is the last of its block (a division: `PlaceInBlock`) |
| `SDCardPadsProofs!InitialiserTypeCorrect` | `[]InitTypeOK` | the count is cleared between the phases |
| `PadsNeverContended` | `[]NoContention` | Quiescent leaves at most one engine at work; `AloneInv`: the initialiser only runs with the core in IDLE and the engines at rest |
| `ControllerOnPads` | TypeOK, Quiescent, NothingStale, DoneIsFinal under `PadsSpec` | `PadsRefineController`: without the initialiser's variables every step on the pads is one of the controller or a stutter |
| `SDSystemProofs!TypeCorrect` | `[]TypeOK` | with whole words in memory, and a running writer with at least one left |
| `OneInterruptPerDma` | `[]OneDmaIrq` | `OwedInv`: an interrupt is owed in exactly the cycle before it pulses |
| `ReadIsInPlace`, `ReadIsKept` | `[]ReadInPlace`, `[]ReadKept` | `StoredInv`: FIFO, converter and memory in a row are leftovers followed by one run of the transfer that begins with a block and, with the gate open, ends with the last byte handed over; shifting, packing and storing do not change that row |
| `SDBistProofs!TypeCorrect`, `ErrorsAreExact`, `CheckIsWhole` | `[]TypeOK`, `[]ErrorsExact`, `[]CheckedWhole` | `Inv`: what is on its way is in order and marked at the ends of blocks, the counters of a running side add up to its position, and a check in step is behind the generator by exactly what is on its way |
| `SDCRCProofs!Invariant`, `TypeCorrect` | `[]Inv`, `[]TypeOK` | `Inv`: the register is the remainder of the bits it has seen (`RemainderInv`: with a quotient, the product is those bits followed by the register), the bits sent behind them are those of the register, the verdict so far says whether those that came are, and the line differs from the card's message in as many bits as were flipped |
| `SentMessagesAreCodewords`, `VerdictsAreExact` | `[]SentIsCodeword`, `[]VerdictExact` | `CodewordExactly`: a message is a multiple of the generator exactly if its last bits are the register after the others, as a quotient is determined by the leading coefficients of its product (`QuotientUnique`) |
| `FlipsAreDetected` | `[]FlipsDetected` | `FarApart`: the sum of two codewords is one (`CodewordSum`), so by `SureAssumption` they differ in none or in more than `sure` bits |

About the CRC. The theorems hold for every generator, word width and message length, hence for the
messages of the code: 40 and 120 bits under the CRC7, any number of beats under the CRC16.
That one shift is one step of the division (`ShiftDivides`) is carried to a word, a message and
the quotient by induction over their bits. The provers cannot use an induction theorem, but they can
use that a nonempty set of naturals has a least element (`LeastNat`, from well-foundedness of
the naturals): a least counterexample is refuted instead. For this the chain of shifts in
`SDCRC` is a recursive function, one value per register of the code's chain.

Assumptions. All theorems use those of the constants: `CommonAssumption`,
`CoreAssumption`, `GapAssumption`, `ClockerAssumption`, `BistAssumption`, `UnitsAssumption` and the two on the
timeouts. Some need more, and say so:

* `Polled`: software strobes only after it has read both `done` flags. This is what
  a driver does; without it software rewrites `block_length` in the middle of a block, and then
  no count means anything (`blind` shows what remains true).
* `WholeCrcBytes`: the CRC beats of a block are whole bytes of the receiver. So they are in
  the code: `crc_len` is 2, 8 or 16 bytes of 8, 2 or 1 beats, always 16 beats
  (`phy.py:599`, `614`, `629`).
* `WholeBlocks`: the write stream marks no byte but the last of a block (section 2). The run `live`
  does without.
* `Roomy`: two beats per byte, or strobes four cycles apart. With 1 or 4 lines a byte has
  8 or 2 beats. With 8 lines it has one and the divider decides; `f_overrun` is what
  happens at the fastest one (finding 3).
* `SureAssumption`, only for `FlipsAreDetected`: no codeword but zero has `sure` ones or fewer. It is what
  `sure` means, a fact about the generator and the length of the message, not about
  the register. TLC evaluates it on the units of the run, over all their codewords (up to 2^16).
  For the lengths of the code it is textbook, not proved here: x^7+x^3+1 is primitive with period 127, so two ones need more than
  127 bits (`sure` 2); x^16+x^12+x^5+1 has the factor x+1 and a primitive one of period 32767,
  so three ones are impossible and two need more bits than a block of 512 bytes has (`sure` 3).

A proof that failed changed the model's assumptions in one place: `BistAssumption` now asks for
block counters of more than one value. With one value the register `count`, which resets
to 1, would be out of its range; the code has 32 bits (`bist.py:104`, `179`).

Model-checked only: all liveness (`CeRecurs`, `CommandEnds`, `ReadEnds`, `WriteEnds`,
`ReadReachesMemory`, `CheckEnds`), because fairness and ENABLED are out of the provers' reach. Every
invariant and action property of the passing runs is a theorem.

## 5. Findings

Each has a run whose violated property is what the quoted line says.

1. `phy.py:291`, `307` (`f_timeout`): the timer expires in the cycle of the
   last response byte; the FSM goes to TIMEOUT instead of IDLE or CLK8. The core has
   finished the command; the *next* one is reported as timed out at once. The
   test in DATA (`phy.py:693`) does the same to reads; `f_timeout` with the registers `MCReads`,
   `DataTimeout` 16 and `CmdTimeout` 40, too long to expire first, shows that.
2. `core.py:287` (`f_crc`): DATA-READ tests `dataw.source.status`; a wrong CRC16
   of a read is not reported. Nor is a wrong CRC7: the command ends with `done`
   alone, as `cmd_crc` is never read (`core.py:101`) and `error` never set; the same run with the registers
   `MCCommands` shows that.
3. `phy.py:683` (`f_overrun`): with a byte per clock (8 lines) and two cycles per clock,
   the beat under way when `stop` is raised finds the buffer full and is dropped. With
   `Gap` 4, or with two or more beats per byte (run `transfers`), it does not.
4. `frontend/dma.py:86` (`f_dma`): the write DMA fetches ahead as soon as it is
   enabled, and nothing empties its converter and FIFO. After a write that failed (on its
   command, say), the bytes it had fetched come first in the next write. The read side has a gate
   for its start; its own leftovers may also precede the next read in memory, which
   `ReadInPlace` allows and describes.

Noticed while reading, without a run: `phy.py:58` promises max(1, ceil((storage+1)/2));
line 59 computes the floor, which may be 0. `PhaseExact` shows what the counter
does with it: 0 counts as 1.

## 6. Not modelled

* **SDEmulator** (`emulator/`): a card for simulation. The Python wires up Verilog of
  another project (Project Vault); its card FSM is theirs. The models have a more
  liberal card, which answers anything at any time.
* **SDPHYIOGen, SDPHYIOEmulator**: DDR and tristate primitives; no state but the
  strobe delay, which is in `SDPHYClocker`.
* **Card detection**: one register and an exclusive or.
* **gen.py, bench/**: build netlists and SoCs; nothing of theirs runs. `bench/sim.py` and the
  tests served as documentation of use.
* **LFSR and Counter** bit by bit (`bist.py:18-46`): see BIST above.
* Byte order and addresses inside the library DMAs; bus arbitration.

## 7. Plan

Done: every component with behaviour of its own; the abstract specifications and the
refinements, checked and proved; safety, liveness and violation runs; a theorem for every safety
property a passing run checks.

Still open: what *does* hold of the bytes a write begins with when the write DMA has leftovers (the run
`f_dma` shows what does not), and `SureAssumption` for the lengths of the code.
