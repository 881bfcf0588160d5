------------------------- MODULE SDCardTransferProofs -------------------------
(***************************************************************************)
(* Proofs about the data: beats on their way through the read receiver,    *)
(* bytes and blocks that are counted at both ends of a transfer, and the   *)
(* controller as an implementation of SDTransfer.                          *)
(***************************************************************************)
EXTENDS SDCardSafetyProofs

-----------------------------------------------------------------------------
(* Overrun.  A beat is lost if it arrives while the receiver has no place   *)
(* for it.  The receiver raises stop as soon as its buffer is not emptied,  *)
(* one clock may still be on its way then, and a converter of at least two  *)
(* beats has room for it.  Without a converter (8 lines, one beat a byte)   *)
(* strobes must be four cycles apart for stop to come in time.              *)

Roomy == BeatsPerByte >= 2 \/ Gap >= 4

\* The receiver is looked at, and its reset is over.
Reading == datar_state \in {"WAIT", "DATA"} /\ ~datar_reset

\* There is no place for another beat unless the buffer is emptied.
Crammed == datar_rx.buf /\ (BeatsPerByte = 1 \/ datar_rx.full)

RoomInv ==
  /\ datar_state = "DATA" => ~datar_reset
  /\ Reading =>
       /\ datar_rx.full => datar_rx.beats = 0
       /\ BeatsPerByte = 1 => ~datar_rx.full
       /\ datar_state = "WAIT" => /\ datar_rx.full => ~datar_rx.buf /\ since # 1
                                  /\ datar_rx.buf => datar_rx.beats = 0
                                  /\ Crammed => since = 2
       /\ datar_state = "DATA" => (Crammed => since >= 2)

\* A converter that is full takes nothing in, so only one that is empty can become
\* full; the buffer fills from the converter, or where there is none, from the line.
ConverterOK(r, n) == /\ r.full => r.beats = 0
                     /\ n = 1 => ~r.full

Fills(r, n, beat, take, next) ==
  /\ ConverterOK(next, n)
  /\ next.full /\ next.buf => r.buf /\ ~take
  /\ next.full => beat \/ (r.full /\ r.buf /\ ~take)
  /\ next.full => r.beats # 0 \/ (r.full /\ r.buf /\ ~take)
  /\ next.buf => (r.buf /\ ~take) \/ (n > 1 /\ r.full) \/ (n = 1 /\ beat)
  /\ ~beat => next.beats = r.beats

LEMMA ReceiverFills ==
  ASSUME NEW n \in Nat \ {0}, NEW r \in Receivers(n), ConverterOK(r, n),
         NEW beat \in BOOLEAN, NEW low \in BOOLEAN, NEW take \in BOOLEAN
  PROVE  Fills(r, n, beat, take, Receive(r, n, TRUE, beat, low, take))
<1> DEFINE next == Receive(r, n, TRUE, beat, low, take)
<1> USE DEF Fills, ConverterOK
<1>1. /\ r.full \in BOOLEAN /\ r.buf \in BOOLEAN /\ r.run \in BOOLEAN
      /\ r.beats \in 0..(n - 1)
  BY DEF Receivers
<1> DEFINE load == Accepts(r, TRUE, beat, low) /\ ConverterReady(r, n, take)
           last == load /\ r.beats = n - 1
<1>2. load => beat /\ (r.full => ~r.buf \/ take) /\ (n = 1 => ~r.buf \/ take)
  BY <1>1 DEF Accepts, ConverterReady, BufferReady
<1>3. /\ next.beats = IF last THEN 0 ELSE IF load THEN r.beats + 1 ELSE r.beats
      /\ next.full = (n > 1 /\ (last \/ (r.full /\ r.buf /\ ~take)))
      /\ next.buf = IF ~r.buf \/ take THEN (IF n = 1 THEN load ELSE r.full) ELSE r.buf
  BY <1>1 DEF Receive, BufferReady
<1> SUFFICES Fills(r, n, beat, take, next)
  OBVIOUS
<1> HIDE DEF next
<1>4. load \in BOOLEAN
  BY <1>1 DEF Accepts, ConverterReady, BufferReady
<1> HIDE DEF load
<1>5. CASE n = 1
  <2>0. ~(n > 1) /\ n - 1 = 0
    BY <1>5, SMT
  <2>3. r.beats = 0
    BY <1>1, <1>5, SMT
  <2>4. next.beats = 0
    BY <1>3, <2>0, <2>3
  <2>1. next.beats = 0 /\ ~next.full
    BY <1>3, <2>0, <2>4
  <2>2. next.buf => (r.buf /\ ~take) \/ load
    BY <1>3, <1>5
  <2> QED BY <1>2, <1>5, <2>1, <2>2, <2>3
<1>6. CASE n # 1
  <2>1. n > 1
    BY <1>6, SMT
  <2>5. n - 1 # 0
    BY <2>1, SMT
  <2>2. last => r.beats # 0 /\ ~r.full /\ next.beats = 0
    BY <1>3, <2>5
  <2>3. CASE last
    BY <1>1, <1>2, <1>3, <1>6, <2>1, <2>2, <2>3
  <2>4. CASE ~last
    BY <1>1, <1>2, <1>3, <1>6, <2>1, <2>4
  <2> QED BY <2>3, <2>4
<1> QED BY <1>5, <1>6

\* The clock: after a beat there is no sampling for a cycle; with a distance of four
\* none for three; and none two cycles after stop was raised.
LEMMA Spacing ==
  ASSUME ClockTypeOK, NEW stop, ClockStep(stop)
  PROVE  /\ since = 1 => since' # 1
         /\ Gap >= 4 /\ since = 1 => since' = 2
         /\ Gap >= 4 /\ since = 2 => since' >= 2
         /\ stop /\ since >= 2 => since' >= 2
         /\ stop /\ since = 1 => since' >= 2
BY GapAssumption, SMT DEF ClockTypeOK, ClockStep, NoEdge, Edge, Later

LEMMA RoomStep ==
  ASSUME Roomy, TypeOK, RoomInv, NEW w \in Wires, Cycle(w)
  PROVE  RoomInv'
<1> DEFINE n == BeatsPerByte
           take == DatarTake(ReadReady(w))
           next == Receive(datar_rx, n, TRUE, w.beat, w.low, take)
<1>1. /\ n \in Nat \ {0} /\ datar_rx \in Receivers(n) /\ w.beat \in BOOLEAN
      /\ w.low \in BOOLEAN /\ take \in BOOLEAN /\ datar_reset \in BOOLEAN
      /\ since \in 0..Gap /\ Gap \in Nat
  BY CommonAssumption, GapAssumption, WiresType DEF TypeOK, DatarTypeOK, ClockTypeOK, DatarTake
<1>2. w.beat => since = 1
  BY DEF Wires, OrTied
<1>3. ClockTypeOK /\ ClockStep(Stop(w))
  BY DEF TypeOK, Cycle
<1>4. n = 1 => Gap >= 4
  BY <1>1, SMT DEF Roomy
<1>5. CASE datar_state \notin {"WAIT", "DATA"}
  BY <1>5 DEF Cycle, Datar, DatarStep, DatarIdle, DatarWait, DatarData, DatarClk8,
     DatarTimeout, RoomInv, Reading
<1>6. CASE datar_state \in {"WAIT", "DATA"} /\ datar_state' \notin {"WAIT", "DATA"}
  BY <1>6 DEF RoomInv, Reading
<1>7. CASE datar_state = "WAIT" /\ datar_state' \in {"WAIT", "DATA"}
  <2>1. DatarWait(w.beat, w.low, csr.block_length)
    BY <1>7 DEF Cycle, Datar, DatarStep, DatarIdle, DatarWait, DatarData, DatarClk8,
       DatarTimeout
  <2>2. /\ ~datar_reset' /\ ~take
        /\ datar_rx' = IF datar_reset THEN Cleared ELSE next
        /\ datar_state' = IF datar_rx.buf THEN "DATA" ELSE "WAIT"
    BY <1>7, <2>1 DEF DatarWait, DatarTimed, DatarReceive, Receiver, DatarTake
  <2>3. CASE datar_reset
    BY <2>2, <2>3 DEF Cleared, RoomInv, Reading, Crammed
  <2>4. CASE ~datar_reset
    <3>1. /\ datar_rx.full => datar_rx.beats = 0 /\ ~datar_rx.buf /\ since # 1
          /\ n = 1 => ~datar_rx.full
          /\ datar_rx.buf => datar_rx.beats = 0
          /\ datar_rx.buf /\ n = 1 => since = 2
      BY <1>7, <2>4 DEF RoomInv, Reading, Crammed
    <3>2. datar_rx' = next
      BY <2>2, <2>4
    <3>3. /\ next.full => next.beats = 0
          /\ n = 1 => ~next.full
          /\ next.full /\ next.buf => datar_rx.buf
          /\ next.full => w.beat \/ (datar_rx.full /\ datar_rx.buf)
          /\ next.full => datar_rx.beats # 0 \/ (datar_rx.full /\ datar_rx.buf)
          /\ next.buf => datar_rx.buf \/ (n > 1 /\ datar_rx.full) \/ (n = 1 /\ w.beat)
          /\ ~w.beat => next.beats = datar_rx.beats
      <4>1. Fills(datar_rx, n, w.beat, take, next)
        <5>1. ConverterOK(datar_rx, n)
          BY <3>1 DEF ConverterOK
        <5> HIDE DEF n, take
        <5> QED BY <1>1, <5>1, ReceiverFills
      <4> HIDE DEF next
      <4> QED BY <2>2, <4>1 DEF Fills, ConverterOK
    <3> HIDE DEF next
    <3>4. CASE ~datar_rx.buf
      <4>1. datar_state' = "WAIT" /\ ~(next.full /\ next.buf)
        BY <2>2, <3>3, <3>4
      <4>2. next.full => since' # 1
        BY <1>2, <1>3, <3>1, <3>3, <3>4, Spacing
      <4>3. next.buf => next.beats = 0
        <5>1. CASE n = 1
          <6>1. next.beats \in 0..0
            <7>1. next \in Receivers(n)
              BY <1>1, ReceiveType DEF next
            <7> QED BY <5>1, <7>1, SMT DEF Receivers
          <6> QED BY <6>1, SMT
        <5>2. CASE n # 1
          BY <1>2, <3>1, <3>3, <3>4, <5>2
        <5> QED BY <5>1, <5>2
      <4>4. n = 1 /\ next.buf => since' = 2
        BY <1>2, <1>3, <1>4, <3>1, <3>3, <3>4, Spacing
      <4> QED BY <2>2, <3>2, <3>3, <4>1, <4>2, <4>3, <4>4 DEF RoomInv, Reading, Crammed
    <3>5. CASE datar_rx.buf
      <4>1. datar_state' = "DATA" /\ ~next.full
        BY <2>2, <3>1, <3>3, <3>5
      <4>2. n = 1 => since' >= 2
        BY <1>3, <1>4, <3>1, <3>5, Spacing
      <4> QED BY <2>2, <3>2, <4>1, <4>2 DEF RoomInv, Reading, Crammed
    <3> QED BY <1>1, <3>4, <3>5 DEF Receivers
  <2> QED BY <1>1, <2>3, <2>4
<1>8. CASE datar_state = "DATA" /\ datar_state' \in {"WAIT", "DATA"}
  <2>1. DatarData(w.beat, w.low, w.ok, csr.block_length, LastBlock, ReadReady(w))
    BY <1>8 DEF Cycle, Datar, DatarStep, DatarIdle, DatarWait, DatarData, DatarClk8,
       DatarTimeout
  <2>2. /\ datar_state' = "DATA" /\ ~datar_reset /\ ~datar_reset'
        /\ datar_rx' = next
    BY <1>8, <2>1 DEF DatarData, DatarTimed, DatarReceive, Receiver, RoomInv
  <2>3. /\ datar_rx.full => datar_rx.beats = 0
        /\ n = 1 => ~datar_rx.full
        /\ datar_rx.buf /\ (n = 1 \/ datar_rx.full) => since >= 2
    BY <1>8, <2>2 DEF RoomInv, Reading, Crammed
  <2>4. /\ next.full => next.beats = 0
        /\ n = 1 => ~next.full
        /\ next.full /\ next.buf => datar_rx.buf /\ ~take
        /\ next.full => w.beat \/ (datar_rx.full /\ datar_rx.buf /\ ~take)
        /\ next.buf => (datar_rx.buf /\ ~take) \/ (n > 1 /\ datar_rx.full) \/ (n = 1 /\ w.beat)
    <3>1. Fills(datar_rx, n, w.beat, take, next)
      <4>1. ConverterOK(datar_rx, n)
        BY <2>3 DEF ConverterOK
      <4> HIDE DEF n, take
      <4> QED BY <1>1, <4>1, ReceiverFills
    <3> HIDE DEF next
    <3> QED BY <3>1 DEF Fills, ConverterOK
  <2>5. datar_rx.buf /\ ~take => Stop(w)
    BY <1>8 DEF DatarTake, Stop, DatarStop
  <2> HIDE DEF next, take
  <2>6. CASE n = 1
    <3>1. next.buf => since' >= 2
      <4>1. CASE datar_rx.buf /\ ~take
        BY <1>3, <2>3, <2>5, <2>6, <4>1, Spacing
      <4>2. CASE ~(datar_rx.buf /\ ~take)
        <5>1. next.buf => since' = 2
          BY <1>2, <1>3, <1>4, <2>3, <2>4, <2>6, <4>2, Spacing
        <5> QED BY <5>1, SMT
      <4> QED BY <4>1, <4>2
    <3> QED BY <2>2, <2>4, <2>6, <3>1 DEF RoomInv, Reading, Crammed
  <2>7. CASE n # 1
    <3>1. next.full /\ next.buf => since' >= 2
      BY <1>2, <1>3, <2>3, <2>4, <2>5, Spacing
    <3> QED BY <2>2, <2>4, <2>7, <3>1 DEF RoomInv, Reading, Crammed
  <2> QED BY <2>6, <2>7
<1> QED BY <1>5, <1>6, <1>7, <1>8

LEMMA NothingLost ==
  ASSUME TypeOK, RoomInv, ~h.lost, NEW w \in Wires, Cycle(w)
  PROVE  ~h'.lost
<1> DEFINE g == IF Accepted(w) THEN [NoHistory EXCEPT !.owed = OwedWith] ELSE h
           take == DatarTake(ReadReady(w))
<1>1. ~g.lost
  BY DEF NoHistory
<1>2. ~(Reading /\ Loses(datar_rx, BeatsPerByte, TRUE, w.beat, w.low, take))
  <2> SUFFICES ASSUME Reading, Loses(datar_rx, BeatsPerByte, TRUE, w.beat, w.low, take)
               PROVE  FALSE
    OBVIOUS
  <2>1. Crammed /\ since = 1
    BY DEF Loses, Accepts, ConverterReady, BufferReady, Crammed, Wires, OrTied
  <2>2. since # 1
    BY <2>1, SMT DEF RoomInv, Reading
  <2> QED BY <2>1, <2>2
<1> QED BY <1>1, <1>2 DEF Cycle, History, Reading

\* The read receiver loses no beat, however long the host keeps it waiting and
\* whatever software does, with 1 or 4 data lines at any clock, with 8 at a divided
\* one (phy.py:683, 864 with 92-111).
THEOREM ReadsLoseNothing == ASSUME Roomy PROVE Spec => []NoOverrun
<1> DEFINE Inv == RoomInv /\ ~h.lost
<1>1. Init => Inv
  BY DEF Init, DatarInit, NoHistory, RoomInv, Reading
<1>2. TypeOK /\ Inv /\ [Next]_vars => Inv'
  <2>1. ASSUME Inv, UNCHANGED vars PROVE Inv'
    BY <2>1 DEF vars, datarVars, RoomInv, Reading, Crammed
  <2> QED BY <2>1, RoomStep, NothingLost DEF Next
<1>3. Inv => NoOverrun
  BY DEF NoOverrun
<1> QED BY <1>1, <1>2, <1>3, TypeCorrect, PTL DEF Spec

-----------------------------------------------------------------------------
(* The CRC16 of a block.  What the receiver has stored is compared with    *)
(* what has been counted: every beat stored has been counted once, as data *)
(* or as CRC, unless the count of CRC beats is complete already.           *)

LEMMA RegistersStay ==
  ASSUME Polled, DoneInv, NEW w \in Wires, Cycle(w), core_state # "IDLE"
  PROVE  csr' = csr
BY DEF DoneInv, Wires, OrTied, Cycle, Software

LEMMA BlocksAreNotEmpty ==
  ASSUME CoreTypeOK
  PROVE  /\ csr.block_length \in 1..CountMod
         /\ csr.block_count \in 1..(DataCountMod - 1)
<1>1. csr \in Registers
  BY CoreAssumption DEF CoreTypeOK
<1> QED BY <1>1 DEF Registers

\* Beats in a receiver.
Content(r, n) == r.beats + (IF r.full THEN n ELSE 0) + (IF r.buf THEN n ELSE 0)

LEMMA ContentType ==
  ASSUME NEW n \in Nat \ {0}, NEW r \in Receivers(n)
  PROVE  Content(r, n) \in Nat
<1>1. r.beats \in 0..(n - 1)
  BY DEF Receivers
<1> QED BY <1>1, SMT DEF Content

\* A receiver stores what it accepts, and gives up a byte when it is taken.
Stores(r, n, beat, low, take) ==
  Accepts(r, TRUE, beat, low) /\ ConverterReady(r, n, take)

Flows(r, n, beat, low, take) ==
  Content(Receive(r, n, TRUE, beat, low, take), n) + (IF take THEN n ELSE 0)
    = Content(r, n) + (IF Stores(r, n, beat, low, take) THEN 1 ELSE 0)

LEMMA ContentFlow ==
  ASSUME NEW n \in Nat \ {0}, NEW r \in Receivers(n), ConverterOK(r, n),
         NEW beat \in BOOLEAN, NEW low \in BOOLEAN, NEW take \in BOOLEAN,
         take => r.buf
  PROVE  Flows(r, n, beat, low, take)
<1> DEFINE next == Receive(r, n, TRUE, beat, low, take)
           load == Stores(r, n, beat, low, take)
           last == load /\ r.beats = n - 1
<1>1. /\ r.full \in BOOLEAN /\ r.buf \in BOOLEAN /\ r.run \in BOOLEAN
      /\ r.beats \in 0..(n - 1)
  BY DEF Receivers
<1>2. load \in BOOLEAN /\ (load /\ r.full => ~r.buf \/ take)
      /\ (load /\ n = 1 => ~r.buf \/ take)
  BY <1>1 DEF Stores, Accepts, ConverterReady, BufferReady
<1>3. /\ next.beats = IF last THEN 0 ELSE IF load THEN r.beats + 1 ELSE r.beats
      /\ next.full = (n > 1 /\ (last \/ (r.full /\ r.buf /\ ~take)))
      /\ next.buf = IF ~r.buf \/ take THEN (IF n = 1 THEN load ELSE r.full) ELSE r.buf
  BY <1>1 DEF Receive, Stores, BufferReady
<1> SUFFICES Content(next, n) + (IF take THEN n ELSE 0)
               = Content(r, n) + (IF load THEN 1 ELSE 0)
  BY DEF Flows
<1> HIDE DEF next, load
<1> USE DEF Content, ConverterOK
<1>4. CASE n = 1
  <2>1. r.beats = 0 /\ next.beats = 0 /\ ~next.full /\ ~r.full
    <3>1. ~(n > 1) /\ n - 1 = 0
      BY <1>4, SMT
    <3>2. r.beats = 0
      BY <1>1, <1>4, SMT
    <3> QED BY <1>3, <1>4, <3>1, <3>2
  <2>2. next.buf = IF ~r.buf \/ take THEN load ELSE r.buf
    BY <1>3, <1>4
  <2>3. CASE r.buf /\ ~take
    <3>1. ~load /\ next.buf
      BY <1>2, <1>4, <2>2, <2>3
    <3> QED BY <2>1, <2>3, <3>1, <1>4, SMT
  <2>4. CASE ~(r.buf /\ ~take)
    <3>1. next.buf = load /\ (r.buf <=> take)
      BY <2>2, <2>4
    <3>2. CASE load
      BY <1>1, <2>1, <3>1, <3>2, <1>4, SMT
    <3>3. CASE ~load
      BY <1>1, <2>1, <3>1, <3>3, <1>4, SMT
    <3> QED BY <3>2, <3>3
  <2> QED BY <2>3, <2>4
<1>5. CASE n # 1
  <2>1. n > 1 /\ n - 1 # 0
    BY <1>5, SMT
  <2>2. CASE last
    <3>1. next.beats = 0 /\ next.full /\ ~r.full /\ r.beats = n - 1 /\ load
      BY <1>3, <2>1, <2>2
    <3>2. next.buf <=> r.buf /\ ~take
      BY <1>3, <1>5, <3>1
    <3> QED BY <1>1, <3>1, <3>2, SMT
  <2>3. CASE ~last
    <3>1. /\ next.beats = IF load THEN r.beats + 1 ELSE r.beats
          /\ next.full <=> r.full /\ r.buf /\ ~take
      BY <1>3, <2>1, <2>3
    <3>2. next.buf <=> (IF ~r.buf \/ take THEN r.full ELSE r.buf)
      BY <1>3, <1>5
    <3> QED BY <1>1, <1>2, <3>1, <3>2, SMT
  <2> QED BY <2>2, <2>3
<1> QED BY <1>4, <1>5

\* Beats stored since the reset, and the data beats of a block.
StoredBeats == datar_count * BeatsPerByte + Content(datar_rx, BeatsPerByte)
BlockBeats == csr.block_length * BeatsPerByte

\* Until the first byte is seen, all beats of the block are stored or to come.
WaitInv ==
  datar_state = "WAIT" =>
    /\ datar_count = 0 /\ datar_crc_count = 0
    /\ ~datar_reset =>
         /\ ConverterOK(datar_rx, BeatsPerByte)
         /\ datar_rx.full => ~datar_rx.buf /\ since # 1
         /\ datar_rx.buf => datar_rx.beats = 0 /\ (BeatsPerByte > 1 \/ since # 1)
         /\ Content(datar_rx, BeatsPerByte) + datar_data_count = BlockBeats

CrcInv ==
  datar_state = "DATA" =>
    /\ ~datar_reset
    /\ ConverterOK(datar_rx, BeatsPerByte)
    /\ datar_data_count > 0 => datar_crc_count = 0
    /\ csr.block_length > 1 =>
         \/ datar_crc_count = CrcBeats
         \/ StoredBeats + datar_data_count <= BlockBeats + datar_crc_count

\* A block has beats, and one of several bytes has more than one byte's.
LEMMA BeatsOfABlock ==
  ASSUME CoreTypeOK
  PROVE  /\ BlockBeats \in Nat /\ BlockBeats >= BeatsPerByte
         /\ csr.block_length > 1 => BlockBeats >= 2 * BeatsPerByte
<1>1. BeatsPerByte \in Nat \ {0} /\ csr.block_length \in Nat /\ csr.block_length >= 1
  BY BlocksAreNotEmpty, CommonAssumption, CoreAssumption, SMT
<1>2. \A k \in Nat : k >= 1 => k * BeatsPerByte >= BeatsPerByte
  BY <1>1, SMT
<1>3. \A k \in Nat : k > 1 => k * BeatsPerByte >= 2 * BeatsPerByte
  BY <1>1, SMT
<1>4. BlockBeats \in Nat
  BY <1>1, SMT DEF BlockBeats
<1> QED BY <1>1, <1>2, <1>3, <1>4 DEF BlockBeats

\* What one cycle does to receiver and count, while the engine waits.
LEMMA WaitingReceives ==
  ASSUME TypeOK, WaitInv, NEW w \in Wires, Cycle(w), datar_state = "WAIT",
         ~datar_reset, datar_timeout # 0, csr' = csr
  PROVE  /\ ConverterOK(datar_rx, BeatsPerByte)'
         /\ datar_rx'.full => ~datar_rx'.buf /\ since' # 1
         /\ ~datar_rx.buf /\ datar_rx'.buf => datar_rx'.beats = 0 /\ (BeatsPerByte > 1 \/ since' # 1)
         /\ ~datar_rx.buf \/ csr.block_length > 1 =>
              Content(datar_rx, BeatsPerByte)' + datar_data_count' = BlockBeats'
<1> DEFINE n == BeatsPerByte
           next == Receive(datar_rx, n, TRUE, w.beat, w.low, FALSE)
           load == Stores(datar_rx, n, w.beat, w.low, FALSE)
           accept == Accepts(datar_rx, TRUE, w.beat, w.low)
<1>1. /\ n \in Nat \ {0} /\ datar_rx \in Receivers(n) /\ w.beat \in BOOLEAN
      /\ w.low \in BOOLEAN /\ FALSE \in BOOLEAN /\ datar_data_count \in Nat
  BY CommonAssumption, WiresType DEF TypeOK, DatarTypeOK
<1>2. w.beat => since = 1 /\ since' # 1
  BY Spacing DEF Wires, OrTied, Cycle, TypeOK
<1>3. /\ ConverterOK(datar_rx, n)
      /\ datar_rx.full => ~datar_rx.buf /\ since # 1
      /\ datar_rx.buf => datar_rx.beats = 0 /\ (n > 1 \/ since # 1)
      /\ Content(datar_rx, n) + datar_data_count = BlockBeats
  BY DEF WaitInv
<1>4. /\ datar_rx' = next
      /\ datar_data_count' = IF accept /\ datar_data_count > 0
                             THEN datar_data_count - 1 ELSE datar_data_count
  BY DEF Cycle, Datar, DatarStep, DatarIdle, DatarWait, DatarData, DatarClk8, DatarTimeout,
     DatarReceive, Receiver
<1>5. Fills(datar_rx, n, w.beat, FALSE, next)
  <2> HIDE DEF n
  <2> QED BY <1>1, <1>3, ReceiverFills
<1>6. Content(next, n) = Content(datar_rx, n) + (IF load THEN 1 ELSE 0)
  <2>1. Content(next, n) + (IF FALSE THEN n ELSE 0)
          = Content(datar_rx, n) + (IF load THEN 1 ELSE 0)
    <3>1. Flows(datar_rx, n, w.beat, w.low, FALSE)
      <4> HIDE DEF n
      <4> QED BY <1>1, <1>3, ContentFlow
    <3> QED BY <3>1 DEF Flows
  <2>2. next \in Receivers(n)
    BY <1>1, ReceiveType
  <2>3. Content(next, n) \in Nat
    <3> HIDE DEF n, next
    <3> QED BY <1>1, <2>2, ContentType
  <2> HIDE DEF next, load, n
  <2> QED BY <2>1, <2>3, SMT
<1>7. accept => w.beat /\ load
  <2> SUFFICES ASSUME accept PROVE w.beat /\ load
    OBVIOUS
  <2>1. w.beat /\ since = 1 /\ ~datar_rx.full /\ (datar_rx.buf => n > 1)
    BY <1>2, <1>3 DEF Accepts
  <2>2. n > 1 => n # 1
    BY SMT
  <2> QED BY <2>1, <2>2 DEF Stores, ConverterReady, BufferReady
<1>8. accept /\ (~datar_rx.buf \/ csr.block_length > 1) => datar_data_count > 0
  <2> SUFFICES ASSUME accept, ~datar_rx.buf \/ csr.block_length > 1
               PROVE  datar_data_count > 0
    OBVIOUS
  <2>1. ~datar_rx.full
    BY <1>2, <1>3, <1>7
  <2>2. BlockBeats \in Nat /\ BlockBeats >= n /\ (csr.block_length > 1 => BlockBeats >= 2 * n)
    BY BeatsOfABlock DEF TypeOK
  <2>3. datar_rx.beats \in 0..(n - 1)
    BY <1>1 DEF Receivers
  <2> HIDE DEF accept, load, next, n
  <2>4. CASE ~datar_rx.buf
    <3>1. Content(datar_rx, n) = datar_rx.beats
      BY <2>1, <2>3, <2>4, SMT DEF Content
    <3> QED BY <1>1, <1>3, <2>2, <2>3, <3>1, SMT
  <2>5. CASE datar_rx.buf
    <3>1. Content(datar_rx, n) = n
      BY <1>1, <1>3, <2>1, <2>5, SMT DEF Content
    <3>2. BlockBeats >= 2 * n
      BY <2>2, <2>5
    <3> QED BY <1>1, <1>3, <2>2, <3>1, <3>2, SMT
  <2> QED BY <2>4, <2>5
<1>9. BlockBeats' = BlockBeats
  BY DEF BlockBeats
<1> HIDE DEF next, load, n
<1>10. ConverterOK(next, n) /\ (next.full => ~next.buf /\ since' # 1)
  BY <1>2, <1>3, <1>5 DEF Fills
<1>11. ~datar_rx.buf /\ next.buf => next.beats = 0 /\ (n > 1 \/ since' # 1)
  <2> SUFFICES ASSUME ~datar_rx.buf, next.buf PROVE next.beats = 0 /\ (n > 1 \/ since' # 1)
    OBVIOUS
  <2>1. (n > 1 /\ datar_rx.full) \/ (n = 1 /\ w.beat)
    BY <1>5 DEF Fills
  <2>2. CASE n > 1 /\ datar_rx.full
    BY <1>2, <1>3, <1>5, <2>2 DEF Fills, ConverterOK
  <2>3. CASE n = 1 /\ w.beat
    <3>1. next \in Receivers(n)
      BY <1>1, ReceiveType DEF next
    <3>2. next.beats = 0
      BY <2>3, <3>1, SMT DEF Receivers
    <3> QED BY <1>2, <2>3, <3>2
  <2> QED BY <2>1, <2>2, <2>3
<1>12. ~datar_rx.buf \/ csr.block_length > 1 => Content(next, n) + datar_data_count' = BlockBeats
  <2> SUFFICES ASSUME ~datar_rx.buf \/ csr.block_length > 1
               PROVE  Content(next, n) + datar_data_count' = BlockBeats
    OBVIOUS
  <2>1. Content(datar_rx, n) \in Nat
    BY <1>1, ContentType
  <2>2. load => accept
    BY DEF load, Stores
  <2> HIDE DEF accept
  <2>3. CASE accept
    BY <1>1, <1>3, <1>4, <1>6, <1>7, <1>8, <2>1, <2>3, SMT
  <2>4. CASE ~accept
    BY <1>1, <1>3, <1>4, <1>6, <2>1, <2>2, <2>4, SMT
  <2> QED BY <2>3, <2>4
<1> QED BY <1>4, <1>9, <1>10, <1>11, <1>12 DEF n, ConverterOK, Content

\* ... and while it takes data: no beat is stored that has not been counted.
LEMMA TakingReceives ==
  ASSUME TypeOK, CrcInv, NEW w \in Wires, Cycle(w), datar_state = "DATA",
         datar_state' = "DATA", csr' = csr
  PROVE  CrcInv'
<1> DEFINE n == BeatsPerByte
           take == DatarTake(ReadReady(w))
           next == Receive(datar_rx, n, TRUE, w.beat, w.low, take)
           accept == Accepts(datar_rx, TRUE, w.beat, w.low)
           load == Stores(datar_rx, n, w.beat, w.low, take)
           crcBeat == w.beat /\ datar_data_count = 0 /\ datar_crc_count < CrcBeats
<1>1. /\ n \in Nat \ {0} /\ datar_rx \in Receivers(n) /\ w.beat \in BOOLEAN
      /\ w.low \in BOOLEAN /\ take \in BOOLEAN /\ datar_data_count \in Nat
      /\ datar_count \in Nat /\ datar_crc_count \in 0..CrcBeats /\ CrcBeats \in Nat
      /\ (take => datar_rx.buf)
  BY CommonAssumption, WiresType DEF TypeOK, DatarTypeOK, DatarTake
<1>2. /\ ~datar_reset /\ ConverterOK(datar_rx, n)
      /\ datar_data_count > 0 => datar_crc_count = 0
      /\ csr.block_length > 1 =>
           \/ datar_crc_count = CrcBeats
           \/ StoredBeats + datar_data_count <= BlockBeats + datar_crc_count
  BY DEF CrcInv
<1>3. DatarData(w.beat, w.low, w.ok, csr.block_length, LastBlock, ReadReady(w))
  BY DEF Cycle, Datar, DatarStep, DatarIdle, DatarWait, DatarData, DatarClk8, DatarTimeout
<1>4. /\ datar_rx' = next /\ ~datar_reset'
      /\ datar_data_count' = IF accept /\ datar_data_count > 0
                             THEN datar_data_count - 1 ELSE datar_data_count
      /\ datar_count' = IF take THEN datar_count + 1 ELSE datar_count
      /\ datar_crc_count' = IF crcBeat THEN datar_crc_count + 1 ELSE datar_crc_count
  BY <1>2, <1>3 DEF DatarData, DatarTimed, DatarReceive, Receiver
<1>5. Fills(datar_rx, n, w.beat, take, next)
  <2> HIDE DEF n, take
  <2> QED BY <1>1, <1>2, ReceiverFills
<1>6. Content(next, n) + (IF take THEN n ELSE 0)
        = Content(datar_rx, n) + (IF load THEN 1 ELSE 0)
  <2>1. /\ n \in Nat \ {0} /\ datar_rx \in Receivers(n) /\ ConverterOK(datar_rx, n)
        /\ w.beat \in BOOLEAN /\ w.low \in BOOLEAN /\ take \in BOOLEAN
        /\ take => datar_rx.buf
    BY <1>1, <1>2
  <2>2. Flows(datar_rx, n, w.beat, w.low, take)
    <3> HIDE DEF n, take
    <3> QED BY <2>1, ContentFlow
  <2> QED BY <2>2 DEF Flows
<1>7. load => accept
  BY DEF Stores
<1>8. accept => w.beat
  BY DEF Accepts
<1>9. Content(datar_rx, n) \in Nat /\ Content(next, n) \in Nat
  <2>1. next \in Receivers(n)
    <3> HIDE DEF n, take
    <3> QED BY <1>1, ReceiveType
  <2> HIDE DEF n, next
  <2> QED BY <1>1, <2>1, ContentType
<1>10. StoredBeats' = StoredBeats + (IF load THEN 1 ELSE 0)
  <2>1. datar_count' * n = datar_count * n + (IF take THEN n ELSE 0)
    <3> HIDE DEF take, next
    <3>1. CASE take
      <4>1. (datar_count + 1) * n = datar_count * n + n
        BY <1>1, SMT
      <4> QED BY <1>4, <3>1, <4>1
    <3>2. CASE ~take
      <4>1. datar_count * n \in Nat
        BY <1>1, SMT
      <4> QED BY <1>4, <3>2, <4>1, SMT
    <3> QED BY <3>1, <3>2
  <2>2. datar_count * n \in Nat
    BY <1>1, SMT
  <2>3. StoredBeats' = datar_count' * n + Content(next, n)
    BY <1>4 DEF StoredBeats
  <2> DEFINE before == datar_count * n
             after == datar_count' * n
             held == Content(datar_rx, n)
             left == Content(next, n)
  <2>4. StoredBeats = before + held
    BY DEF StoredBeats
  <2> HIDE DEF before, after, held, left, take, load, next
  <2>5. /\ before \in Nat /\ after = before + (IF take THEN n ELSE 0)
        /\ held \in Nat /\ left \in Nat /\ n \in Nat
        /\ left + (IF take THEN n ELSE 0) = held + (IF load THEN 1 ELSE 0)
    BY <1>1, <1>6, <1>9, <2>1, <2>2 DEF before, after, held, left
  <2>6. StoredBeats' = after + left
    BY <2>3 DEF after, left
  <2>7. after + left = before + held + (IF load THEN 1 ELSE 0)
    BY <2>5, SMT
  <2> QED BY <2>4, <2>6, <2>7
<1>11. StoredBeats \in Nat /\ BlockBeats \in Nat /\ BlockBeats' = BlockBeats
  <2>1. datar_count * n \in Nat
    BY <1>1, SMT
  <2>2. BlockBeats \in Nat
    BY BeatsOfABlock DEF TypeOK
  <2> DEFINE m == datar_count * n
             held == Content(datar_rx, n)
  <2>3. StoredBeats = m + held
    BY DEF StoredBeats
  <2> HIDE DEF m, held
  <2>4. m \in Nat /\ held \in Nat
    BY <1>9, <2>1 DEF m, held
  <2>5. StoredBeats \in Nat
    BY <2>3, <2>4, SMT
  <2> QED BY <2>2, <2>5 DEF BlockBeats
<1> HIDE DEF load, accept, take, next, n
<1>12. datar_data_count' > 0 => datar_crc_count' = 0
  BY <1>1, <1>2, <1>4, SMT
<1>13. ASSUME csr.block_length > 1
       PROVE  \/ datar_crc_count' = CrcBeats
              \/ StoredBeats' + datar_data_count' <= BlockBeats' + datar_crc_count'
  <2>1. CASE datar_crc_count = CrcBeats
    BY <1>1, <1>4, <2>1, SMT
  <2>2. CASE StoredBeats + datar_data_count <= BlockBeats + datar_crc_count
             /\ datar_crc_count # CrcBeats
    <3>1. /\ load => StoredBeats' = StoredBeats + 1
          /\ ~load => StoredBeats' = StoredBeats + 0
      BY <1>10
    <3>4. /\ StoredBeats \in Nat /\ BlockBeats \in Nat /\ BlockBeats' = BlockBeats
          /\ datar_data_count \in Nat /\ datar_crc_count \in Nat
          /\ StoredBeats + datar_data_count <= BlockBeats + datar_crc_count
      <4>1. datar_crc_count \in Nat
        BY <1>1, SMT
      <4> QED BY <1>1, <1>11, <2>2, <4>1
    <3>2. CASE load
      <4>1. accept /\ w.beat /\ StoredBeats' = StoredBeats + 1
        BY <1>7, <1>8, <3>1, <3>2
      <4>2. CASE datar_data_count > 0
        <5>1. datar_data_count' = datar_data_count - 1 /\ datar_crc_count' = datar_crc_count
          BY <1>1, <1>4, <4>1, <4>2, SMT
        <5>2. StoredBeats' = StoredBeats + 1
          BY <4>1
        <5> QED BY <3>4, <5>1, <5>2, SMT
      <4>3. CASE datar_data_count = 0
        <5>1. datar_data_count' = datar_data_count /\ datar_crc_count' = datar_crc_count + 1
          BY <1>1, <1>4, <2>2, <4>1, <4>3, SMT
        <5>2. StoredBeats' = StoredBeats + 1
          BY <4>1
        <5> QED BY <3>4, <5>1, <5>2, SMT
      <4> QED BY <1>1, <4>2, <4>3, SMT
    <3>3. CASE ~load
      <4>1. StoredBeats' = StoredBeats
        <5>1. StoredBeats' = StoredBeats + 0
          BY <3>1, <3>3
        <5> QED BY <3>4, <5>1, SMT
      <4>2. StoredBeats + datar_data_count' <= BlockBeats + datar_crc_count
        <5>1. \/ datar_data_count' = datar_data_count
              \/ datar_data_count' = datar_data_count - 1
          BY <1>4
        <5> QED BY <3>4, <5>1, SMT
      <4>3. datar_data_count' \in Nat
        BY <1>1, <1>4, SMT
      <4>4. \/ datar_crc_count' = datar_crc_count
            \/ datar_crc_count' = datar_crc_count + 1
        BY <1>4
      <4>5. StoredBeats + datar_data_count' <= BlockBeats + datar_crc_count'
        <5>1. CASE datar_crc_count' = datar_crc_count
          BY <4>2, <5>1
        <5>2. CASE datar_crc_count' = datar_crc_count + 1
          <6> DEFINE d == datar_data_count'
          <6>1. d \in Nat /\ StoredBeats + d <= BlockBeats + datar_crc_count
            BY <4>2, <4>3
          <6> HIDE DEF d
          <6>2. StoredBeats + d <= BlockBeats + (datar_crc_count + 1)
            BY <3>4, <6>1, SMT
          <6> QED BY <5>2, <6>2 DEF d
        <5> QED BY <4>4, <5>1, <5>2
      <4> QED BY <3>4, <4>1, <4>5
    <3> QED BY <3>2, <3>3
  <2> QED BY <1>2, <1>13, <2>1, <2>2
<1>14. ConverterOK(datar_rx', n)
  BY <1>4, <1>5 DEF Fills
<1> QED BY <1>4, <1>12, <1>13, <1>14 DEF CrcInv, n, ConverterOK

LEMMA BeatStep ==
  ASSUME Polled, TypeOK, DoneInv, Quiescent, WaitInv, CrcInv, NEW w \in Wires, Cycle(w)
  PROVE  WaitInv' /\ CrcInv'
<1>1. datar_state \in {"WAIT", "DATA"} => csr' = csr
  BY RegistersStay DEF Quiescent
<1>2. CASE datar_state \notin {"WAIT", "DATA"}
  <2>1. datar_state' # "DATA"
    BY <1>2 DEF Cycle, Datar, DatarStep, DatarIdle, DatarWait, DatarData, DatarClk8,
       DatarTimeout
  <2>2. datar_state' = "WAIT" => datar_reset' /\ datar_count' = 0 /\ datar_crc_count' = 0
    BY <1>2 DEF Cycle, Datar, DatarStep, DatarIdle, DatarWait, DatarData, DatarClk8,
       DatarTimeout
  <2> QED BY <2>1, <2>2 DEF WaitInv, CrcInv
<1>3. CASE datar_state' \notin {"WAIT", "DATA"}
  BY <1>3 DEF WaitInv, CrcInv
<1>4. CASE datar_state = "WAIT" /\ datar_state' \in {"WAIT", "DATA"}
  <2>1. DatarWait(w.beat, w.low, csr.block_length)
    BY <1>4 DEF Cycle, Datar, DatarStep, DatarIdle, DatarWait, DatarData, DatarClk8,
       DatarTimeout
  <2>2. /\ datar_timeout # 0 /\ ~datar_reset'
        /\ datar_state' = IF datar_rx.buf THEN "DATA" ELSE "WAIT"
        /\ datar_count' = 0 /\ datar_crc_count' = 0
    BY <1>4, <2>1 DEF DatarWait, DatarTimed, WaitInv
  <2>3. BlockBeats' = BlockBeats /\ csr' = csr
    BY <1>1, <1>4 DEF BlockBeats
  <2>4. 0 * BeatsPerByte = 0 /\ BlockBeats \in Nat
    <3>1. BeatsPerByte \in Int
      BY CommonAssumption
    <3>2. 0 * BeatsPerByte = 0
      BY <3>1, SMT
    <3> QED BY <3>2, BeatsOfABlock DEF TypeOK
  <2>5. StoredBeats' = 0 + Content(datar_rx, BeatsPerByte)'
    BY <2>2, <2>4 DEF StoredBeats
  <2>6. CASE datar_reset
    <3>1. datar_rx' = Cleared /\ datar_data_count' = BlockBeats
      BY <2>1, <2>2, <2>6 DEF DatarWait, DatarReceive, Receiver, BlockBeats
    <3>2. Content(datar_rx', BeatsPerByte) = 0 /\ ConverterOK(datar_rx', BeatsPerByte)
      BY <3>1, SMT DEF Content, ConverterOK, Cleared
    <3>3. Content(datar_rx, BeatsPerByte)' + datar_data_count' = BlockBeats'
      BY <2>3, <2>4, <3>1, <3>2, SMT DEF Content
    <3>4. StoredBeats' + datar_data_count' <= BlockBeats' + datar_crc_count'
      <4>1. StoredBeats' = 0
        BY <2>5, <3>2, SMT DEF Content
      <4> QED BY <2>2, <2>3, <2>4, <3>1, <4>1, SMT
    <3> QED BY <2>2, <3>1, <3>2, <3>3, <3>4 DEF WaitInv, CrcInv, ConverterOK, Cleared
  <2>7. CASE ~datar_reset
    <3>1. /\ ConverterOK(datar_rx, BeatsPerByte)'
          /\ datar_rx'.full => ~datar_rx'.buf /\ since' # 1
          /\ ~datar_rx.buf /\ datar_rx'.buf =>
               datar_rx'.beats = 0 /\ (BeatsPerByte > 1 \/ since' # 1)
          /\ ~datar_rx.buf \/ csr.block_length > 1 =>
               Content(datar_rx, BeatsPerByte)' + datar_data_count' = BlockBeats'
      BY <1>4, <2>2, <2>3, <2>7, WaitingReceives
    <3>2. CASE ~datar_rx.buf
      BY <2>2, <3>1, <3>2 DEF WaitInv, CrcInv
    <3>3. CASE datar_rx.buf
      <4>1. csr'.block_length > 1 =>
              StoredBeats' + datar_data_count' <= BlockBeats' + datar_crc_count'
        <5> SUFFICES ASSUME csr'.block_length > 1
                     PROVE  StoredBeats' + datar_data_count' <= BlockBeats' + datar_crc_count'
          OBVIOUS
        <5>1. Content(datar_rx, BeatsPerByte)' + datar_data_count' = BlockBeats
          BY <2>3, <3>1
        <5>2. Content(datar_rx, BeatsPerByte)' \in Nat
          <6>1. datar_rx' \in Receivers(BeatsPerByte) /\ BeatsPerByte \in Nat \ {0}
            BY DatarType, CommonAssumption DEF TypeOK, DatarTypeOK, Cycle
          <6> QED BY <6>1, ContentType
        <5> DEFINE held == Content(datar_rx, BeatsPerByte)'
        <5>3. held \in Nat /\ StoredBeats' = 0 + held /\ held + datar_data_count' = BlockBeats
          BY <2>5, <5>1, <5>2
        <5> HIDE DEF held
        <5>4. StoredBeats' = held
          BY <5>3, SMT
        <5>5. BlockBeats <= BlockBeats + 0
          BY <2>4, SMT
        <5> QED BY <2>2, <2>3, <5>3, <5>4, <5>5
      <4> QED BY <2>2, <3>1, <3>3, <4>1, SMT DEF WaitInv, CrcInv
    <3> QED BY <3>2, <3>3
  <2> QED BY <2>6, <2>7
<1>5. CASE datar_state = "DATA" /\ datar_state' \in {"WAIT", "DATA"}
  <2>1. datar_state' = "DATA"
    BY <1>5 DEF Cycle, Datar, DatarStep, DatarIdle, DatarWait, DatarData, DatarClk8,
       DatarTimeout, DatarTimed
  <2> QED BY <1>1, <1>5, <2>1, TakingReceives DEF WaitInv
<1> QED BY <1>2, <1>3, <1>4, <1>5

\* Every width has whole bytes of CRC16: 2, 8 and 16 (phy.py:599, 614, 629).
WholeCrcBytes == CrcBeats = CrcLen * BeatsPerByte

LEMMA WaitsForData ==
  ASSUME TypeOK, WaitInv, datar_state = "WAIT", ~datar_reset, csr.block_length > 1
  PROVE  datar_data_count # 0
<1> DEFINE n == BeatsPerByte
<1>1. /\ n \in Nat \ {0} /\ datar_rx \in Receivers(n)
      /\ BlockBeats \in Nat /\ BlockBeats >= 2 * n
      /\ datar_data_count \in Nat
  BY CommonAssumption, BeatsOfABlock DEF TypeOK, DatarTypeOK
<1>2. /\ datar_rx.full \/ datar_rx.buf => datar_rx.beats = 0
      /\ ~(datar_rx.full /\ datar_rx.buf)
      /\ Content(datar_rx, n) + datar_data_count = BlockBeats
  BY DEF WaitInv, ConverterOK
<1>3. datar_rx.beats \in 0..(n - 1) /\ datar_rx.full \in BOOLEAN /\ datar_rx.buf \in BOOLEAN
  BY <1>1 DEF Receivers
<1> HIDE DEF n
<1>4. Content(datar_rx, n) \in Nat /\ Content(datar_rx, n) <= n
  BY <1>1, <1>2, <1>3, SMT DEF Content
<1> QED BY <1>1, <1>2, <1>4, SMT

LEMMA EndsWithWholeCrc ==
  ASSUME WholeCrcBytes, TypeOK, CrcInv, NEW w \in Wires, Cycle(w),
         datar_state = "DATA", csr.block_length > 1,
         DatarSourceLast(csr.block_length), datar_count' # datar_count
  PROVE  datar_crc_count' = CrcBeats
<1> DEFINE n == BeatsPerByte
           take == DatarTake(ReadReady(w))
<1>1. /\ n \in Nat \ {0} /\ datar_rx \in Receivers(n) /\ CrcLen \in Int
      /\ datar_count \in Nat /\ datar_data_count \in Nat
      /\ datar_crc_count \in 0..CrcBeats /\ CrcBeats \in Nat
      /\ csr.block_length \in Nat /\ BlockBeats \in Nat
  <2>1. csr.block_length \in Nat
    BY BlocksAreNotEmpty, CoreAssumption, SMT DEF TypeOK
  <2>2. CrcLen \in Int
    BY CommonAssumption, SMT DEF CrcLen
  <2> QED BY <2>1, <2>2, CommonAssumption, BeatsOfABlock DEF TypeOK, DatarTypeOK
<1>2. DatarData(w.beat, w.low, w.ok, csr.block_length, LastBlock, ReadReady(w))
  BY DEF Cycle, Datar, DatarStep, DatarIdle, DatarWait, DatarData, DatarClk8, DatarTimeout
<1>3. take /\ datar_rx.buf
  BY <1>2 DEF DatarData, DatarEnd, DatarTake
<1>4. datar_count = csr.block_length + CrcLen - 1
  BY DEF DatarSourceLast
<1>5. \/ datar_crc_count = CrcBeats
      \/ StoredBeats + datar_data_count <= BlockBeats + datar_crc_count
  BY DEF CrcInv
<1>6. Content(datar_rx, n) \in Nat /\ Content(datar_rx, n) >= n
  <2>1. datar_rx.beats \in 0..(n - 1)
    BY <1>1 DEF Receivers
  <2> HIDE DEF n
  <2>2. n \in Nat /\ (IF datar_rx.full THEN n ELSE 0) \in Nat
    BY <1>1
  <2>3. (IF datar_rx.buf THEN n ELSE 0) = n
    BY <1>3
  <2> QED BY <2>1, <2>2, <2>3, SMT DEF Content
<1>7. StoredBeats >= BlockBeats + CrcBeats /\ StoredBeats \in Nat
  <2>1. (csr.block_length + CrcLen - 1) * n = csr.block_length * n + CrcLen * n - n
    BY <1>1, SMT
  <2> DEFINE m == datar_count * n
             held == Content(datar_rx, n)
  <2>2. m = BlockBeats + CrcBeats - n
    BY <1>4, <2>1 DEF BlockBeats, WholeCrcBytes
  <2>3. StoredBeats = m + held
    BY DEF StoredBeats
  <2>4. m \in Nat
    BY <1>1, SMT
  <2> HIDE DEF m, held
  <2>5. held \in Nat /\ held >= n
    BY <1>6 DEF held
  <2> HIDE DEF n
  <2> QED BY <1>1, <2>2, <2>3, <2>4, <2>5, SMT
<1>8. datar_crc_count = CrcBeats
  BY <1>1, <1>5, <1>7, SMT
<1> QED BY <1>1, <1>2, <1>8, SMT DEF DatarData

\* Software that polls gets the verdict over the whole CRC16 of every block of two
\* bytes or more: no CRC beat comes before the engine counts them, and with the
\* last byte of the block all of them have been compared (phy.py:573-587, 660-714).
THEOREM WholeCrcCompared == ASSUME Polled, WholeCrcBytes PROVE Spec => CrcWhole
<1> DEFINE Whole ==
      csr.block_length > 1 =>
        /\ datar_state = "WAIT" /\ datar_data_count = 0 /\ ~datar_reset => since # 1
        /\ DatarSourceLast(csr.block_length) /\ datar_count' # datar_count
           /\ datar_state = "DATA" => datar_crc_count' = CrcBeats
<1>1. Init => WaitInv /\ CrcInv
  BY DEF Init, DatarInit, WaitInv, CrcInv
<1>2. TypeOK /\ DoneInv /\ Quiescent /\ WaitInv /\ CrcInv /\ [Next]_vars
        => (WaitInv /\ CrcInv)'
  <2>1. ASSUME WaitInv, CrcInv, UNCHANGED vars PROVE (WaitInv /\ CrcInv)'
    BY <2>1 DEF vars, datarVars, coreVars, WaitInv, CrcInv, StoredBeats, BlockBeats,
       Content, ConverterOK
  <2> QED BY <2>1, BeatStep DEF Next
<1>3. TypeOK /\ WaitInv /\ CrcInv /\ [Next]_vars => [Whole]_vars
  BY WaitsForData, EndsWithWholeCrc DEF Next
<1> QED BY <1>1, <1>2, <1>3, TypeCorrect, DoneInvariant, EnginesQuiescent, PTL
        DEF Spec, CrcWhole

-----------------------------------------------------------------------------
(* Counting.  Core and engine count the same blocks and bytes, each from   *)
(* its side: the core by data_count and count, a write by what it has      *)
(* taken, a read by what it has handed over, the card by its tokens.       *)

WriteTakes(w) == DatawValid /\ WriteReady(w)
ReadGives(w)  == DatarTake(ReadReady(w)) /\ ~DatarDrop(csr.block_length)

\* A write at work.  While the card judges a block, its last byte waits.
Judging == dataw_state \in {"CRC16", "STOP", "CRC", "CLK8", "BUSY"}
Judged  == dataw_state \in {"CLK8", "BUSY"}

WritingInv ==
  /\ h.given = 0
  /\ count < csr.block_length /\ data_count < csr.block_count
  /\ WholeBlocks => h.taken = data_count * csr.block_length + count
  /\ h.tokens = data_count + One(Judged)
  /\ Judging => fifo /\ BlockEnd

\* A read at work.  The bytes of the CRC are counted and not handed over.
ReadingInv ==
  /\ h.taken = 0
  /\ data_count < csr.block_count
  /\ datar_state \in {"IDLE", "WAIT", "CLK8"} => h.given = data_count * csr.block_length
  /\ datar_state = "WAIT" => datar_count = 0
  /\ datar_state = "DATA" =>
       /\ datar_count < csr.block_length + CrcLen
       /\ h.given = data_count * csr.block_length
           + (IF datar_count < csr.block_length THEN datar_count ELSE csr.block_length)

NothingMoved == h.taken = 0 /\ h.given = 0 /\ h.tokens = 0 /\ data_count = 0

TransferInv ==
  /\ core_state # "DATA-WRITE" => count = 0
  /\ core_state \in {"CMD-SEND", "CMD-RESPONSE"} => NothingMoved
  /\ core_state = "CMD-RESPONSE" => csr.cmd_type # RESPONSE_NONE
  /\ core_state = "DATA-WRITE" => WritingInv
  /\ core_state = "DATA-READ" => ReadingInv

LEMMA Counters ==
  ASSUME NEW w, Cycle(w)
  PROVE  /\ h'.taken = (IF Accepted(w) THEN 0 ELSE h.taken) + One(WriteTakes(w))
         /\ h'.given = (IF Accepted(w) THEN 0 ELSE h.given) + One(ReadGives(w))
         /\ h'.tokens = (IF Accepted(w) THEN 0 ELSE h.tokens) + One(DatawToken)
BY DEF Cycle, History, NoHistory, WriteTakes, ReadGives

\* Bytes move, and tokens come, only in the state of the core that is about them.
LEMMA StillOutside ==
  ASSUME TypeOK, Quiescent, NEW w
  PROVE  /\ core_state # "DATA-WRITE" => ~WriteTakes(w) /\ ~DatawToken /\ ~Judged
         /\ core_state # "DATA-READ" => ~ReadGives(w)
BY DEF Quiescent, WriteTakes, ReadGives, DatawValid, DatawToken, DatarTake, Judged

\* The counts at hand, as numbers.
LEMMA Numbers ==
  ASSUME TypeOK
  PROVE  /\ csr.block_length \in Nat /\ csr.block_length >= 1 /\ csr.block_length <= CountMod
         /\ csr.block_count \in Nat /\ csr.block_count >= 1 /\ csr.block_count < DataCountMod
         /\ data_count \in Nat /\ count \in Nat /\ datar_count \in Nat
         /\ h.taken \in Nat /\ h.given \in Nat /\ h.tokens \in Nat
         /\ CountMod \in Nat /\ DataCountMod \in Nat
         /\ data_count * csr.block_length \in Nat
<1>1. /\ csr.block_length \in 1..CountMod /\ csr.block_count \in 1..(DataCountMod - 1)
      /\ CountMod \in Nat \ {0} /\ DataCountMod \in Nat \ {0}
      /\ data_count \in 0..(DataCountMod - 1) /\ count \in 0..(CountMod - 1)
  BY BlocksAreNotEmpty, CoreAssumption DEF TypeOK, CoreTypeOK
<1>2. /\ h.taken \in Nat /\ h.given \in Nat /\ h.tokens \in Nat /\ datar_count \in Nat
  BY DEF TypeOK, Histories, DatarTypeOK
<1>3. /\ csr.block_length \in Nat /\ csr.block_length >= 1 /\ csr.block_length <= CountMod
      /\ csr.block_count \in Nat /\ csr.block_count >= 1 /\ csr.block_count < DataCountMod
      /\ data_count \in Nat /\ count \in Nat
      /\ CountMod \in Nat /\ DataCountMod \in Nat
  BY <1>1, SMT
<1>4. data_count * csr.block_length \in Nat
  BY <1>3, SMT
<1> QED BY <1>2, <1>3, <1>4

LEMMA NoWrap ==
  ASSUME NEW n \in Nat, NEW m \in Nat, n + 1 < m
  PROVE  (n + 1) % m = n + 1
BY SMT

LEMMA OneMoreBlock ==
  ASSUME NEW d \in Nat, NEW b \in Nat
  PROVE  (d + 1) * b = d * b + b
BY SMT

LEMMA ZeroBlocks ==
  ASSUME NEW b \in Nat
  PROVE  0 * b = 0
BY SMT

\* Before the data.
LEMMA CommandStep ==
  ASSUME Polled, TypeOK, DoneInv, Quiescent, TransferInv, NEW w \in Wires, Cycle(w),
         core_state \in {"IDLE", "CMD-SEND", "CMD-RESPONSE"}
  PROVE  TransferInv'
<1>1. ~WriteTakes(w) /\ ~DatawToken /\ ~ReadGives(w) /\ ~Judged
  BY StillOutside
<1>2. /\ h'.taken = (IF Accepted(w) THEN 0 ELSE h.taken) + 0
      /\ h'.given = (IF Accepted(w) THEN 0 ELSE h.given) + 0
      /\ h'.tokens = (IF Accepted(w) THEN 0 ELSE h.tokens) + 0
  BY <1>1, Counters DEF One
<1>3. /\ h'.taken = (IF Accepted(w) THEN 0 ELSE h.taken)
      /\ h'.given = (IF Accepted(w) THEN 0 ELSE h.given)
      /\ h'.tokens = (IF Accepted(w) THEN 0 ELSE h.tokens)
  BY <1>2, Numbers, SMT
<1>4. count' = 0
  <2>1. CoreDelimit(FALSE)
    BY DEF Cycle, CoreStep, CoreIdle, CoreAccept, CoreCmdSend, CoreResponseWait,
       CoreResponseTimeout, CoreResponseByte, CoreResponseLast, CoreDataWrite,
       CoreDataRead, CoreDataTimeout, CoreRest
  <2> QED BY <2>1 DEF CoreDelimit, TransferInv
<1>5. core_state # "IDLE" => csr' = csr
  BY RegistersStay
<1>6. core_state' # "IDLE" => NothingMoved'
  BY <1>3 DEF Cycle, CoreStep, CoreIdle, CoreAccept, CoreCmdSend, CoreResponseWait,
     CoreResponseTimeout, CoreResponseByte, CoreResponseLast, CoreDataWrite,
     CoreDataRead, CoreDataTimeout, TransferInv, NothingMoved, Accepted
<1>7. core_state' = "CMD-RESPONSE" => csr'.cmd_type # RESPONSE_NONE
  BY <1>5 DEF Cycle, CoreStep, CoreIdle, CoreAccept, CoreCmdSend, CoreResponseWait,
     CoreResponseTimeout, CoreResponseByte, CoreResponseLast, CoreDataWrite,
     CoreDataRead, CoreDataTimeout, TransferInv
<1>8. /\ core_state' = "DATA-WRITE" => core_state = "CMD-RESPONSE"
      /\ core_state' = "DATA-READ" => core_state = "CMD-RESPONSE"
  BY DEF Cycle, CoreStep, CoreIdle, CoreAccept, CoreCmdSend, CoreResponseWait,
     CoreResponseTimeout, CoreResponseByte, CoreResponseLast, CoreDataWrite,
     CoreDataRead, CoreDataTimeout
<1>9. 0 * csr.block_length = 0 /\ 0 < csr.block_length /\ 0 < csr.block_count /\ 0 + 0 = 0
  BY Numbers, ZeroBlocks, SMT
<1>10. core_state' = "DATA-WRITE" => WritingInv'
  <2> SUFFICES ASSUME core_state' = "DATA-WRITE" PROVE WritingInv'
    OBVIOUS
  <2>1. dataw_state' = "IDLE"
    BY <1>8 DEF Quiescent, DatawValid, Cycle, Dataw, DatawStep, DatawIdle, DatawClk2,
       DatawStart, DatawData, DatawCrc16, DatawStopBit, DatawCrc, DatawClk8, DatawBusy,
       DatawClocks
  <2> QED BY <1>4, <1>5, <1>6, <1>8, <1>9, <2>1
          DEF WritingInv, NothingMoved, Judging, Judged, One
<1>11. core_state' = "DATA-READ" => ReadingInv'
  <2> SUFFICES ASSUME core_state' = "DATA-READ" PROVE ReadingInv'
    OBVIOUS
  <2>1. datar_state' \in {"IDLE", "CLK8", "TIMEOUT"}
    BY <1>8 DEF Quiescent, DatarSinkValid, Cycle, Datar, DatarStep, DatarIdle, DatarWait,
       DatarData, DatarClk8, DatarTimeout
  <2> QED BY <1>5, <1>6, <1>8, <1>9, <2>1 DEF ReadingInv, NothingMoved
<1>12. core_state' \in {"CMD-SEND", "CMD-RESPONSE"} => core_state' # "IDLE"
  OBVIOUS
<1> QED BY <1>4, <1>6, <1>7, <1>10, <1>11, <1>12 DEF TransferInv

\* During a write, a byte is taken inside a block by the last beat of it, at the end
\* of a block by the release of D0, and then the block has its token.
LEMMA WriteTakesWhen ==
  ASSUME NoUnderrun, WritingInv, core_state = "DATA-WRITE", NEW w
  PROVE  WriteTakes(w) <=> \/ dataw_state = "DATA" /\ DatawLastBeat(Ce) /\ ~BlockEnd
                           \/ dataw_state = "BUSY" /\ DatawNotBusy(w.beat, w.low)
BY DEF WriteTakes, WriteReady, DatawReady, DatawLastBeat, DatawNotBusy, DatawValid,
       NoUnderrun, WritingInv, Judging

\* Without a last of the stream's own, blocks end by the delimiter alone.
LEMMA OwnEnd ==
  ASSUME TypeOK, WholeBlocks
  PROVE  BlockEnd <=> count = csr.block_length - 1
BY DEF TypeOK, Lasts, BlockEnd

\* What the core does in DATA-WRITE.
LEMMA CoreWrites ==
  ASSUME TypeOK, WritingInv, core_state = "DATA-WRITE", NEW w, Cycle(w)
  PROVE  /\ ~WriteTakes(w) => core_state' = "DATA-WRITE" /\ data_count' = data_count
                              /\ count' = count
         /\ WriteTakes(w) /\ ~BlockEnd =>
              core_state' = "DATA-WRITE" /\ data_count' = data_count /\ count' = count + 1
         /\ WriteTakes(w) /\ BlockEnd =>
              /\ core_state' = IF LastBlock THEN "IDLE" ELSE "DATA-WRITE"
              /\ data_count' = data_count + 1 /\ count' = 0
<1>1. CoreDataWrite(DatawValid, WriteReady(w), DatawToken, WriteStatus(w))
  BY DEF Cycle, CoreStep, CoreIdle, CoreAccept, CoreCmdSend, CoreResponseWait,
     CoreResponseTimeout, CoreResponseByte, CoreResponseLast, CoreDataRead, CoreDataTimeout
<1>2. /\ data_count' = IF WriteTakes(w) /\ BlockEnd
                       THEN (data_count + 1) % DataCountMod ELSE data_count
      /\ count' = IF ~WriteTakes(w) THEN count
                  ELSE IF BlockEnd THEN 0 ELSE (count + 1) % CountMod
      /\ core_state' = IF WriteTakes(w) /\ BlockEnd /\ LastBlock THEN "IDLE" ELSE "DATA-WRITE"
  BY <1>1 DEF CoreDataWrite, NextBlock, CoreDelimit, WriteTakes
<1>3. data_count < csr.block_count /\ count < csr.block_length
  BY DEF WritingInv
<1>4. (data_count + 1) % DataCountMod = data_count + 1
  <2>1. data_count + 1 < DataCountMod
    BY <1>3, Numbers, SMT
  <2> QED BY <2>1, Numbers, NoWrap
<1>5. ~BlockEnd => (count + 1) % CountMod = count + 1
  <2> SUFFICES ASSUME ~BlockEnd PROVE (count + 1) % CountMod = count + 1
    OBVIOUS
  <2>1. count # csr.block_length - 1
    BY DEF BlockEnd
  <2>2. count + 1 < CountMod
    BY <1>3, <2>1, Numbers, SMT
  <2> QED BY <2>2, Numbers, NoWrap
<1> QED BY <1>2, <1>4, <1>5

LEMMA WriteStep ==
  ASSUME Polled, TypeOK, DoneInv, Quiescent, NoUnderrun, TransferInv,
         NEW w \in Wires, Cycle(w), core_state = "DATA-WRITE"
  PROVE  TransferInv'
<1> USE DEF DatawStep, DatawIdle, DatawClk2, DatawStart, DatawData, DatawCrc16,
            DatawStopBit, DatawCrc, DatawClk8, DatawBusy, DatawClocks
<1>1. WritingInv /\ csr' = csr /\ ~Accepted(w)
  BY RegistersStay DEF TransferInv, Accepted
<1>2. Dataw(w) /\ HostWrite(w)
  BY DEF Cycle
<1>3. core_state' \in {"IDLE", "DATA-WRITE"}
  BY <1>1, CoreWrites
<1>4. /\ h'.taken = h.taken + One(WriteTakes(w))
      /\ h'.given = h.given + One(ReadGives(w))
      /\ h'.tokens = h.tokens + One(DatawToken)
  BY <1>1, Counters
<1>5. h'.given = 0
  <2>1. ~ReadGives(w)
    BY StillOutside
  <2>2. h'.given = 0 + 0
    BY <1>1, <1>4, <2>1 DEF WritingInv, One
  <2> QED BY <2>2, SMT
<1>6. data_count < csr.block_count /\ count < csr.block_length
  BY <1>1 DEF WritingInv
<1>7. CASE ~WriteTakes(w)
  <2>1. core_state' = "DATA-WRITE" /\ data_count' = data_count /\ count' = count
    BY <1>1, <1>7, CoreWrites
  <2>2. h'.taken = h.taken
    <3>1. h'.taken = h.taken + 0
      BY <1>4, <1>7 DEF One
    <3> QED BY <3>1, Numbers, SMT
  <2>3. h'.tokens = data_count + One(Judged')
    <3>1. CASE DatawToken
      <4>1. ~Judged /\ Judged'
        BY <1>2, <3>1 DEF DatawToken, Judged, Dataw
      <4>2. h'.tokens = data_count + 0 + 1
        BY <1>1, <1>4, <3>1, <4>1 DEF WritingInv, One
      <4>3. h'.tokens = data_count + 1
        BY <4>2, Numbers, SMT
      <4> QED BY <4>1, <4>3 DEF One
    <3>2. CASE ~DatawToken
      <4>1. Judged' = Judged
        <5>1. dataw_state = "BUSY" => ~DatawNotBusy(w.beat, w.low)
          BY <1>1, <1>7, WriteTakesWhen
        <5>2. dataw_state = "CRC" => dataw_state' = "CRC"
          BY <1>2, <3>2 DEF Dataw
        <5>3. dataw_state = "BUSY" => dataw_state' = "BUSY"
          BY <1>2, <5>1 DEF Dataw
        <5>4. dataw_state = "CLK8" => dataw_state' \in {"CLK8", "BUSY"}
          BY <1>2 DEF Dataw
        <5>5. dataw_state \notin {"CRC", "BUSY", "CLK8"}
                => dataw_state' \notin {"BUSY", "CLK8"}
          BY <1>2 DEF Dataw
        <5> QED BY <5>2, <5>3, <5>4, <5>5 DEF Judged
      <4>2. h'.tokens = h.tokens
        <5>1. h'.tokens = h.tokens + 0
          BY <1>4, <3>2 DEF One
        <5> QED BY <5>1, Numbers, SMT
      <4> QED BY <1>1, <4>1, <4>2 DEF WritingInv
    <3> QED BY <3>1, <3>2
  <2>4. ASSUME Judging' PROVE fifo' /\ BlockEnd'
    <3>0. fifo /\ BlockEnd => fifo' /\ BlockEnd'
      BY <1>1, <1>2, <1>7, <2>1 DEF HostWrite, WriteTakes, BlockEnd
    <3>1. CASE Judging
      BY <1>1, <3>0, <3>1 DEF WritingInv
    <3>2. CASE ~Judging
      <4>1. dataw_state = "DATA" /\ DatawLastBeat(Ce) /\ BlockEnd /\ Ce
        BY <1>2, <2>4, <3>2 DEF Judging, Dataw, DatawLastBeat
      <4>2. fifo
        BY <4>1 DEF NoUnderrun, DatawValid
      <4> QED BY <3>0, <4>1, <4>2
    <3> QED BY <3>1, <3>2
  <2>5. WritingInv'
    BY <1>1, <1>5, <2>1, <2>2, <2>3, <2>4 DEF WritingInv
  <2> QED BY <2>1, <2>5 DEF TransferInv
<1>8. CASE WriteTakes(w) /\ ~BlockEnd
  <2>1. core_state' = "DATA-WRITE" /\ data_count' = data_count /\ count' = count + 1
    BY <1>1, <1>8, CoreWrites
  <2>2. dataw_state = "DATA" /\ DatawLastBeat(Ce)
    BY <1>1, <1>8, WriteTakesWhen DEF WritingInv, Judging
  <2>3. dataw_state' = "DATA" /\ ~DatawToken
    BY <1>2, <1>8, <2>2 DEF Dataw, DatawLastBeat, DatawToken
  <2>4. count # csr.block_length - 1
    BY <1>8 DEF BlockEnd
  <2>5. count + 1 < csr.block_length
    BY <1>6, <2>4, Numbers, SMT
  <2>6. WholeBlocks => h'.taken = data_count * csr.block_length + (count + 1)
    <3> SUFFICES ASSUME WholeBlocks
                 PROVE  h'.taken = data_count * csr.block_length + (count + 1)
      OBVIOUS
    <3>1. h'.taken = data_count * csr.block_length + count + 1
      BY <1>1, <1>4, <1>8 DEF WritingInv, One
    <3> DEFINE m == data_count * csr.block_length
    <3>2. m \in Nat /\ count \in Nat /\ h'.taken = m + count + 1
      BY <3>1, Numbers
    <3> HIDE DEF m
    <3>3. m + count + 1 = m + (count + 1)
      BY <3>2, SMT
    <3> QED BY <3>2, <3>3 DEF m
  <2>7. h'.tokens = data_count + 0
    <3>1. h'.tokens = data_count + 0 + 0
      BY <1>1, <1>4, <2>2, <2>3 DEF WritingInv, One, Judged
    <3> QED BY <3>1, Numbers, SMT
  <2>8. WritingInv'
    BY <1>1, <1>5, <1>6, <2>1, <2>3, <2>5, <2>6, <2>7
       DEF WritingInv, Judging, Judged, One
  <2> QED BY <2>1, <2>8 DEF TransferInv
<1>9. CASE WriteTakes(w) /\ BlockEnd
  <2>1. /\ core_state' = IF LastBlock THEN "IDLE" ELSE "DATA-WRITE"
        /\ data_count' = data_count + 1 /\ count' = 0
    BY <1>1, <1>9, CoreWrites
  <2>2. CASE LastBlock
    <3>1. core_state' = "IDLE"
      BY <2>1, <2>2
    <3> QED BY <2>1, <3>1 DEF TransferInv
  <2>3. CASE ~LastBlock
    <3>1. dataw_state = "BUSY" /\ DatawNotBusy(w.beat, w.low)
      BY <1>1, <1>9, WriteTakesWhen
    <3>2. dataw_state' = "CLK2" /\ ~DatawToken
      BY <1>2, <2>3, <3>1 DEF Dataw, DatawToken
    <3>3. data_count + 1 < csr.block_count
      <4>1. data_count # csr.block_count - 1
        BY <2>3 DEF LastBlock
      <4> QED BY <1>6, <4>1, Numbers, SMT
    <3>4. WholeBlocks => h'.taken = (data_count + 1) * csr.block_length + 0
      <4> SUFFICES ASSUME WholeBlocks
                   PROVE  h'.taken = (data_count + 1) * csr.block_length + 0
        OBVIOUS
      <4>1. h'.taken = data_count * csr.block_length + (csr.block_length - 1) + 1
        BY <1>1, <1>4, <1>9, OwnEnd DEF WritingInv, One
      <4>2. (data_count + 1) * csr.block_length = data_count * csr.block_length + csr.block_length
        BY Numbers, OneMoreBlock
      <4> DEFINE m == data_count * csr.block_length
      <4>3. m \in Nat /\ h'.taken = m + (csr.block_length - 1) + 1
        BY <4>1, Numbers
      <4> HIDE DEF m
      <4>4. m + (csr.block_length - 1) + 1 = m + csr.block_length + 0
        BY <4>3, Numbers, SMT
      <4>5. h'.taken = m + csr.block_length + 0
        BY <4>3, <4>4
      <4> QED BY <4>2, <4>5 DEF m
    <3>5. h'.tokens = (data_count + 1) + 0
      <4>1. h'.tokens = data_count + 1 + 0
        BY <1>1, <1>4, <3>1, <3>2 DEF WritingInv, One, Judged
      <4> QED BY <4>1
    <3>6. 0 < csr.block_length
      BY Numbers, SMT
    <3>7. core_state' = "DATA-WRITE"
      BY <2>1, <2>3
    <3>8. WritingInv'
      BY <1>1, <1>5, <2>1, <3>2, <3>3, <3>4, <3>5, <3>6
         DEF WritingInv, Judging, Judged, One
    <3> QED BY <3>7, <3>8 DEF TransferInv
  <2> QED BY <2>2, <2>3
<1> QED BY <1>7, <1>8, <1>9

\* What is true when a write ends.
LEMMA WriteEndsWhole ==
  ASSUME Polled, TypeOK, DoneInv, Quiescent, NoUnderrun, TransferInv, NEW w \in Wires,
         Cycle(w), core_state = "DATA-WRITE", core_state' = "IDLE"
  PROVE  /\ WholeBlocks => h'.taken = csr.block_length * csr.block_count
         /\ h'.tokens = csr.block_count
         /\ count' = 0
<1>1. WritingInv /\ ~Accepted(w)
  BY DEF TransferInv, Accepted
<1>2. WriteTakes(w) /\ BlockEnd /\ LastBlock /\ count' = 0
  BY <1>1, CoreWrites
<1>3. dataw_state = "BUSY" /\ ~DatawToken
  BY <1>1, <1>2, WriteTakesWhen DEF DatawToken
<1> DEFINE b == csr.block_length
           n == csr.block_count
<1>4. b \in Nat /\ n \in Nat /\ data_count = n - 1 /\ (WholeBlocks => count = b - 1)
  BY <1>2, Numbers, OwnEnd DEF LastBlock
<1>5. /\ WholeBlocks => h'.taken = data_count * b + count + 1
      /\ h'.tokens = data_count + 1 + 0
  BY <1>1, <1>2, <1>3, Counters DEF WritingInv, One, Judged
<1> HIDE DEF b, n
<1>6. (n - 1) * b + (b - 1) + 1 = b * n /\ (n - 1) + 1 + 0 = n
  BY <1>4, SMT
<1> QED BY <1>2, <1>4, <1>5, <1>6 DEF b, n

LEMMA SomeCrc ==
  ASSUME WholeCrcBytes
  PROVE  CrcLen \in Nat /\ CrcLen >= 1
<1>1. BeatsPerByte \in Nat \ {0} /\ CrcBeats \in Nat \ {0} /\ CrcLen \in Int
  BY CommonAssumption, SMT DEF CrcLen
<1>2. CrcLen <= 0 => CrcLen * BeatsPerByte <= 0
  BY <1>1, SMT
<1>3. CrcLen * BeatsPerByte \in Nat \ {0}
  BY <1>1 DEF WholeCrcBytes
<1> DEFINE product == CrcLen * BeatsPerByte
<1> HIDE DEF product
<1>4. product \in Nat \ {0} /\ (CrcLen <= 0 => product <= 0)
  BY <1>2, <1>3 DEF product
<1> QED BY <1>1, <1>4, SMT

\* What the core does in DATA-READ, unless the engine reports a timeout.
LEMMA CoreReads ==
  ASSUME TypeOK, ReadingInv, core_state = "DATA-READ", datar_state # "TIMEOUT",
         NEW w, Cycle(w)
  PROVE  LET ended == DatarEnd(csr.block_length, ReadReady(w))
         IN  /\ core_state' = IF ended /\ LastBlock THEN "IDLE" ELSE "DATA-READ"
             /\ data_count' = IF ended THEN data_count + 1 ELSE data_count
             /\ count' = count
<1> DEFINE ended == DatarEnd(csr.block_length, ReadReady(w))
<1>1. DatarStatus # STATUS_TIMEOUT
  BY DEF DatarStatus, STATUS_OK, STATUS_TIMEOUT, STATUS_CRCERROR
<1>2. CoreDataRead(DatarValid, DatarStatus, DatarSourceLast(csr.block_length),
                   ReadReady(w), WriteStatus(w))
  BY <1>1 DEF Cycle, CoreStep, CoreIdle, CoreAccept, CoreCmdSend, CoreResponseWait,
     CoreResponseTimeout, CoreResponseByte, CoreResponseLast, CoreDataWrite,
     CoreDataTimeout
<1>3. ended = (DatarValid /\ DatarSourceLast(csr.block_length) /\ ReadReady(w))
  BY DEF DatarEnd, DatarTake, DatarValid
<1>4. /\ core_state' = IF ended /\ LastBlock THEN "IDLE" ELSE "DATA-READ"
      /\ data_count' = IF ended THEN (data_count + 1) % DataCountMod ELSE data_count
      /\ count' = count
  BY <1>2, <1>3 DEF CoreDataRead, NextBlock, CoreRest, CoreDelimit
<1>5. (data_count + 1) % DataCountMod = data_count + 1
  <2>1. data_count < csr.block_count
    BY DEF ReadingInv
  <2>2. data_count + 1 < DataCountMod
    BY <2>1, Numbers, SMT
  <2> QED BY <2>2, Numbers, NoWrap
<1> QED BY <1>4, <1>5

LEMMA ReadStep ==
  ASSUME Polled, WholeCrcBytes, TypeOK, DoneInv, Quiescent, TransferInv,
         NEW w \in Wires, Cycle(w), core_state = "DATA-READ"
  PROVE  TransferInv'
<1> USE DEF DatarStep, DatarIdle, DatarWait, DatarData, DatarClk8, DatarTimeout, DatarTimed
<1> DEFINE ended == DatarEnd(csr.block_length, ReadReady(w))
           take  == DatarTake(ReadReady(w))
<1>1. ReadingInv /\ csr' = csr /\ ~Accepted(w)
  BY RegistersStay DEF TransferInv, Accepted
<1>2. Datar(w)
  BY DEF Cycle
<1>3. h'.taken = 0
  <2>1. ~WriteTakes(w)
    BY StillOutside
  <2>2. h'.taken = 0 + 0
    BY <1>1, <2>1, Counters DEF ReadingInv, One
  <2> QED BY <2>2, SMT
<1>4. h'.given = h.given + One(ReadGives(w))
  BY <1>1, Counters
<1>5. data_count < csr.block_count /\ CrcLen \in Nat /\ CrcLen >= 1
  BY <1>1, SomeCrc DEF ReadingInv
<1>6. count = 0 /\ 0 < csr.block_length + CrcLen /\ 0 < csr.block_length
  BY <1>5, Numbers, SMT DEF TransferInv
<1>7. CASE datar_state = "TIMEOUT"
  <2>1. CoreDataTimeout(DatarValid, DatarStatus)
    BY <1>7 DEF Cycle, CoreStep, CoreIdle, CoreAccept, CoreCmdSend, CoreResponseWait,
       CoreResponseTimeout, CoreResponseByte, CoreResponseLast, CoreDataWrite,
       CoreDataRead, DatarValid, DatarStatus
  <2> QED BY <1>6, <2>1 DEF CoreDataTimeout, CoreRest, CoreDelimit, TransferInv
<1>8. CASE datar_state \in {"IDLE", "WAIT", "CLK8"}
  <2>1. ~ended /\ ~ReadGives(w)
    BY <1>8 DEF DatarEnd, DatarTake, ReadGives
  <2>2. core_state' = "DATA-READ" /\ data_count' = data_count /\ count' = count
    BY <1>1, <1>8, <2>1, CoreReads
  <2>3. h'.given = data_count * csr.block_length
    <3>1. h'.given = h.given + 0
      BY <1>4, <2>1 DEF One
    <3>2. h'.given = h.given
      BY <3>1, Numbers, SMT
    <3> QED BY <1>1, <1>8, <3>2 DEF ReadingInv
  <2>4. /\ datar_state' = "WAIT" => datar_count' = 0
        /\ datar_state' = "DATA" => datar_count' = 0
    BY <1>1, <1>2, <1>8 DEF Datar, ReadingInv
  <2>5. data_count * csr.block_length = data_count * csr.block_length + 0
    BY Numbers, SMT
  <2>6. ReadingInv'
    BY <1>1, <1>3, <1>5, <1>6, <2>2, <2>3, <2>4, <2>5 DEF ReadingInv
  <2> QED BY <1>6, <2>2, <2>6 DEF TransferInv
<1>9. CASE datar_state = "DATA"
  <2>1. /\ datar_count < csr.block_length + CrcLen
        /\ h.given = data_count * csr.block_length
            + (IF datar_count < csr.block_length THEN datar_count ELSE csr.block_length)
    BY <1>1, <1>9 DEF ReadingInv
  <2>2. /\ core_state' = IF ended /\ LastBlock THEN "IDLE" ELSE "DATA-READ"
        /\ data_count' = IF ended THEN data_count + 1 ELSE data_count
        /\ count' = count
    BY <1>1, <1>9, CoreReads
  <2>3. ReadGives(w) <=> take /\ datar_count < csr.block_length
    <3>1. datar_count > csr.block_length - 1 <=> ~(datar_count < csr.block_length)
      BY Numbers, SMT
    <3> QED BY <1>9, <3>1 DEF ReadGives, DatarDrop, DatarTake
  <2>4. ended <=> take /\ datar_count = csr.block_length + CrcLen - 1
    BY <1>9 DEF DatarEnd, DatarSourceLast
  <2>5. CASE ended /\ LastBlock
    <3>1. core_state' = "IDLE"
      BY <2>2, <2>5
    <3> QED BY <1>6, <2>2, <3>1 DEF TransferInv
  <2>6. CASE ended /\ ~LastBlock
    <3>1. datar_state' \in {"IDLE", "TIMEOUT"}
      BY <1>2, <1>9, <2>6 DEF Datar
    <3>2. ~(datar_count < csr.block_length)
      <4>1. datar_count = csr.block_length + CrcLen - 1
        BY <2>4, <2>6
      <4> QED BY <1>5, <4>1, Numbers, SMT
    <3>3. h'.given = data_count * csr.block_length + csr.block_length + 0
      BY <1>4, <2>1, <2>3, <3>2 DEF One
    <3>4. h'.given = (data_count + 1) * csr.block_length
      <4>1. (data_count + 1) * csr.block_length
              = data_count * csr.block_length + csr.block_length
        BY Numbers, OneMoreBlock
      <4> DEFINE m == data_count * csr.block_length
      <4>2. m \in Nat /\ h'.given = m + csr.block_length + 0
        BY <3>3, Numbers
      <4> HIDE DEF m
      <4>3. h'.given = m + csr.block_length
        BY <4>2, Numbers, SMT
      <4> QED BY <4>1, <4>3 DEF m
    <3>5. data_count + 1 < csr.block_count
      <4>1. data_count # csr.block_count - 1
        BY <2>6 DEF LastBlock
      <4> QED BY <1>5, <4>1, Numbers, SMT
    <3>6. core_state' = "DATA-READ" /\ data_count' = data_count + 1
      BY <2>2, <2>6
    <3>7. ReadingInv'
      BY <1>1, <1>3, <3>1, <3>4, <3>5, <3>6 DEF ReadingInv
    <3> QED BY <1>6, <2>2, <3>6, <3>7 DEF TransferInv
  <2>7. CASE ~ended
    <3>1. /\ datar_state' \in {"DATA", "TIMEOUT"}
          /\ datar_count' = IF take THEN datar_count + 1 ELSE datar_count
      BY <1>2, <1>9, <2>7 DEF Datar
    <3>2. core_state' = "DATA-READ" /\ data_count' = data_count
      BY <2>2, <2>7
    <3> DEFINE m == data_count * csr.block_length
    <3>3. m \in Nat
      BY Numbers
    <3> HIDE DEF m, take, ended
    <3>4. CASE ~take
      <4>1. h'.given = h.given + 0 /\ datar_count' = datar_count
        BY <1>4, <2>3, <3>1, <3>4 DEF One
      <4>2. h'.given = h.given
        BY <4>1, Numbers, SMT
      <4>3. ReadingInv'
        BY <1>1, <1>3, <1>5, <2>1, <3>1, <3>2, <4>1, <4>2 DEF ReadingInv
      <4> QED BY <1>6, <2>2, <3>2, <4>3 DEF TransferInv
    <3>5. CASE take
      <4>1. datar_count' = datar_count + 1 /\ datar_count + 1 < csr.block_length + CrcLen
        <5>1. datar_count # csr.block_length + CrcLen - 1
          BY <2>4, <2>7, <3>5
        <5>2. datar_count < csr.block_length + CrcLen
          BY <2>1
        <5>3. datar_count \in Nat /\ csr.block_length \in Nat
          BY Numbers
        <5>4. datar_count + 1 < csr.block_length + CrcLen
          BY <1>5, <5>1, <5>2, <5>3, SMT
        <5> QED BY <3>1, <3>5, <5>4
      <4>2. h'.given = m + (IF datar_count + 1 < csr.block_length
                            THEN datar_count + 1 ELSE csr.block_length)
        <5>1. CASE datar_count < csr.block_length
          <6>1. h'.given = m + datar_count + 1
            BY <1>4, <2>1, <2>3, <3>5, <5>1 DEF One, m
          <6>2. (IF datar_count + 1 < csr.block_length
                 THEN datar_count + 1 ELSE csr.block_length) = datar_count + 1
            BY <5>1, Numbers, SMT
          <6>3. m + datar_count + 1 = m + (datar_count + 1)
            BY <3>3, Numbers, SMT
          <6> QED BY <6>1, <6>2, <6>3
        <5>2. CASE ~(datar_count < csr.block_length)
          <6>1. h'.given = m + csr.block_length + 0
            BY <1>4, <2>1, <2>3, <3>5, <5>2 DEF One, m
          <6>2. (IF datar_count + 1 < csr.block_length
                 THEN datar_count + 1 ELSE csr.block_length) = csr.block_length
            BY <5>2, Numbers, SMT
          <6>3. m + csr.block_length + 0 = m + csr.block_length
            BY <3>3, Numbers, SMT
          <6> QED BY <6>1, <6>2, <6>3
        <5> QED BY <5>1, <5>2
      <4>3. ReadingInv'
        BY <1>1, <1>3, <1>5, <3>1, <3>2, <4>1, <4>2 DEF ReadingInv, m
      <4> QED BY <1>6, <2>2, <3>2, <4>3 DEF TransferInv
    <3> QED BY <3>4, <3>5
  <2> QED BY <2>5, <2>6, <2>7
<1> QED BY <1>7, <1>8, <1>9 DEF TypeOK, DatarTypeOK

LEMMA TransferInvariant == ASSUME Polled, WholeCrcBytes PROVE Spec => []TransferInv
<1>1. Init => TransferInv
  BY DEF Init, CoreInit, TransferInv
<1>2. TypeOK /\ DoneInv /\ Quiescent /\ NoUnderrun /\ TransferInv /\ [Next]_vars
        => TransferInv'
  <2>1. ASSUME TypeOK, DoneInv, Quiescent, NoUnderrun, TransferInv,
               NEW w \in Wires, Cycle(w)
        PROVE  TransferInv'
    <3>1. core_state \in CoreStates
      BY <2>1 DEF TypeOK, CoreTypeOK
    <3> QED BY <2>1, <3>1, CommandStep, WriteStep, ReadStep DEF CoreStates
  <2>2. ASSUME TransferInv, UNCHANGED vars PROVE TransferInv'
    BY <2>2 DEF vars, coreVars, datawVars, datarVars, TransferInv, WritingInv, ReadingInv,
       NothingMoved, Judging, Judged, BlockEnd
  <2> QED BY <2>1, <2>2 DEF Next
<1> QED BY <1>1, <1>2, TypeCorrect, DoneInvariant, EnginesQuiescent, StopInTime, PTL
        DEF Spec

\* A write that ends had one token for each block and leaves the delimiter at the
\* start of a block, for all lengths and whatever host and card do, also if the host
\* ends blocks early with a last of its own; it took every byte of every block if the
\* host does not (core.py:111-118, 236-248, phy.py:503-543).
THEOREM WritesAreWhole == ASSUME Polled, WholeCrcBytes PROVE Spec => WriteComplete
<1> DEFINE Complete == core_state = "DATA-WRITE" /\ core_state' = "IDLE"
                         => /\ WholeBlocks => h'.taken = csr.block_length * csr.block_count
                            /\ h'.tokens = csr.block_count
                            /\ count' = 0
<1>1. TypeOK /\ DoneInv /\ Quiescent /\ NoUnderrun /\ TransferInv /\ [Next]_vars
        => [Complete]_vars
  BY WriteEndsWhole DEF Next
<1> QED BY <1>1, TypeCorrect, DoneInvariant, EnginesQuiescent, StopInTime,
           TransferInvariant, PTL DEF Spec, WriteComplete

-----------------------------------------------------------------------------
(* The controller implements SDTransfer.  The bytes moved are those of the *)
(* two streams, of which a command uses one at most.                       *)

\* Two bytes at the same place of the stream are in the same block.
LEMMA ByBlocks ==
  ASSUME NEW b \in Nat \ {0}, NEW q \in Int, NEW d \in Nat,
         NEW r \in 0..(b - 1), NEW c \in 0..(b - 1), b * q + r = b * d + c
  PROVE  q = d
<1>1. CASE q < d
  <2>1. PICK k \in Nat : d = q + 1 + k
    <3>1. d - q - 1 \in Nat /\ d = q + 1 + (d - q - 1)
      BY <1>1, SMT
    <3> QED BY <3>1
  <2>2. b * d = b * q + b + b * k /\ b * k >= 0
    BY <2>1, SMT
  <2> DEFINE x == b * q
             y == b * k
  <2>3. x \in Int /\ y \in Int /\ y >= 0 /\ x + r = x + b + y + c
    <3>1. x \in Int /\ y \in Int
      BY SMT
    <3> QED BY <2>2, <3>1
  <2> HIDE DEF x, y
  <2> QED BY <2>3, SMT
<1>2. CASE q > d
  <2>1. PICK k \in Nat : q = d + 1 + k
    <3>1. q - d - 1 \in Nat /\ q = d + 1 + (q - d - 1)
      BY <1>2, SMT
    <3> QED BY <3>1
  <2>2. b * q = b * d + b + b * k /\ b * k >= 0
    BY <2>1, SMT
  <2> DEFINE x == b * d
             y == b * k
  <2>3. x \in Int /\ y \in Int /\ y >= 0 /\ x + b + y + r = x + c
    <3>1. x \in Int /\ y \in Int
      BY SMT
    <3> QED BY <2>2, <3>1
  <2> HIDE DEF x, y
  <2> QED BY <2>3, SMT
<1> QED BY <1>1, <1>2, SMT

LEMMA Division ==
  ASSUME NEW b \in Nat, b > 0, NEW x \in Nat
  PROVE  x = b * (x \div b) + (x % b)
BY SMTT(30)

\* The place of a byte in its block.
LEMMA PlaceInBlock ==
  ASSUME NEW b \in Nat \ {0}, NEW d \in Nat, NEW c \in Nat, c < b
  PROVE  (d * b + c) % b = c
<1> DEFINE x == d * b + c
<1>1. x \in Nat /\ x = b * d + c
  BY SMT
<1> HIDE DEF x
<1>2. b \in Nat /\ b > 0 /\ c \in 0..(b - 1)
  BY SMT
<1>3. x % b \in 0..(b - 1) /\ x \div b \in Int
  BY <1>1, <1>2, SMT
<1> DEFINE q == x \div b
           r == x % b
<1>4. x = b * q + r
  BY <1>1, <1>2, Division
<1>5. q \in Int /\ r \in 0..(b - 1) /\ b * q + r = b * d + c
  BY <1>1, <1>3, <1>4
<1> HIDE DEF q, r
<1>6. q = d
  BY <1>2, <1>5, ByBlocks
<1> DEFINE p == b * d
<1>7. p \in Int /\ p + r = p + c
  <2>1. p \in Int
    BY SMT
  <2> QED BY <1>5, <1>6, <2>1
<1> HIDE DEF p
<1>8. r = c
  BY <1>2, <1>5, <1>7, SMT
<1> QED BY <1>8 DEF x, r

\* Only the last byte of the last block completes a transfer.
LEMMA ByteOfTransfer ==
  ASSUME NEW b \in Nat \ {0}, NEW n \in Nat \ {0}, NEW d \in Nat, NEW c \in Nat, c < b, d < n
  PROVE  /\ d * b + c < b * n
         /\ d * b + c + 1 = b * n <=> c = b - 1 /\ d = n - 1
<1>1. PICK k \in Nat : n = d + 1 + k
  <2>1. n - d - 1 \in Nat /\ n = d + 1 + (n - d - 1)
    BY SMT
  <2> QED BY <2>1
<1>2. /\ b * n = d * b + b + k * b
      /\ k # 0 => k * b >= b
      /\ k * b >= 0 /\ k * b \in Int /\ d * b \in Int
      /\ k = 0 => k * b = 0
  BY <1>1, SMT
<1>3. k = 0 <=> d = n - 1
  BY <1>1, SMT
<1> DEFINE p == d * b
           m == k * b
           t == b * n
<1>4. /\ p \in Int /\ m \in Int /\ t = p + b + m /\ (k # 0 => m >= b) /\ m >= 0
      /\ k = 0 => m = 0
  BY <1>2
<1> HIDE DEF p, m, t
<1>5. p + c < t /\ (p + c + 1 = t <=> c = b - 1 /\ k = 0)
  BY <1>4, SMT
<1> QED BY <1>3, <1>5 DEF p, t

\* The flags of the command event that software may read.
CmdFlags == [done: BOOLEAN, timeout: BOOLEAN]

LEMMA SameFlags ==
  ASSUME NEW r \in CmdFlags, NEW s \in CmdFlags, s.done = r.done, s.timeout = r.timeout
  PROVE  s = r
BY SMT DEF CmdFlags

LEMMA FlagsSet ==
  ASSUME NEW d \in BOOLEAN, NEW t \in BOOLEAN
  PROVE  /\ [[done |-> d, timeout |-> t] EXCEPT !.done = TRUE] = [done |-> TRUE, timeout |-> t]
         /\ [[done |-> d, timeout |-> t] EXCEPT !.timeout = TRUE] = [done |-> d, timeout |-> TRUE]
<1> DEFINE r == [done |-> d, timeout |-> t]
           a == [r EXCEPT !.done = TRUE]
           b == [r EXCEPT !.timeout = TRUE]
           p == [done |-> TRUE, timeout |-> t]
           q == [done |-> d, timeout |-> TRUE]
<1>1. r \in CmdFlags /\ p \in CmdFlags /\ q \in CmdFlags
  BY SMT DEF CmdFlags
<1>2. r.done = d /\ r.timeout = t
  BY Zenon
<1>3. p.done = TRUE /\ p.timeout = t /\ q.done = d /\ q.timeout = TRUE
  BY Zenon
<1> HIDE DEF r, p, q
<1>4. a \in CmdFlags /\ b \in CmdFlags
  BY <1>1, Zenon DEF CmdFlags
<1>5. a.done = TRUE /\ a.timeout = t /\ b.done = d /\ b.timeout = TRUE
  BY <1>1, <1>2, Zenon DEF CmdFlags
<1> HIDE DEF a, b
<1>6. a = p /\ b = q
  BY <1>1, <1>3, <1>4, <1>5, SameFlags
<1> QED BY <1>6 DEF a, b, p, q, r

Moved == h.given + h.taken

LEMMA IdleImplements ==
  ASSUME Polled, TypeOK, Quiescent, NEW w \in Wires, Cycle(w), core_state = "IDLE"
  PROVE  Transfer!Next
<1>1. ~WriteTakes(w) /\ ~ReadGives(w) /\ ~Judged
  BY StillOutside
<1>2. ~Judged'
  BY DEF Quiescent, Judged, Cycle, Dataw, DatawStep, DatawIdle, DatawClk2,
     DatawStart, DatawData, DatawCrc16, DatawStopBit, DatawCrc, DatawClk8, DatawBusy,
     DatawClocks
<1>3. /\ h'.taken = (IF Accepted(w) THEN 0 ELSE h.taken) + 0
      /\ h'.given = (IF Accepted(w) THEN 0 ELSE h.given) + 0
  BY <1>1, Counters DEF One
<1>4. /\ cmd_event \in [done: BOOLEAN, timeout: BOOLEAN, crc: BOOLEAN]
      /\ data_event \in [done: BOOLEAN, error: BOOLEAN, timeout: BOOLEAN, crc: BOOLEAN]
  BY DEF TypeOK, CoreTypeOK
<1>5. CoreIdle(w.send) \/ CoreAccept(w.send)
  BY DEF Cycle, CoreStep, CoreCmdSend, CoreResponseWait, CoreResponseTimeout,
     CoreResponseByte, CoreResponseLast, CoreDataWrite, CoreDataRead, CoreDataTimeout
<1>6. CASE ~w.send
  <2>1. CoreIdle(w.send)
    BY <1>5, <1>6 DEF CoreAccept
  <2>2. csr' = csr
    BY <1>6 DEF Cycle, Software
  <2>3. Moved' = Moved
    <3>1. h'.taken = h.taken + 0 /\ h'.given = h.given + 0
      BY <1>3, <1>6 DEF Accepted
    <3>2. h'.taken = h.taken /\ h'.given = h.given
      BY <3>1, Numbers, SMT
    <3> QED BY <3>2 DEF Moved
  <2>4. /\ core_state' = "IDLE"
        /\ cmd_event' = [cmd_event EXCEPT !.done = TRUE]
        /\ data_event' = [data_event EXCEPT !.done = TRUE]
    BY <2>1 DEF CoreIdle
  <2>5. cmd_event'.done = TRUE /\ cmd_event'.timeout = cmd_event.timeout
    BY <1>4, <2>4
  <2>6. Request(csr)' = Request(csr)
    BY <2>2 DEF Request
  <2>7. Transfer!Settle
    <3>1. [done |-> cmd_event.done, timeout |-> cmd_event.timeout]'
            = [[done |-> cmd_event.done, timeout |-> cmd_event.timeout] EXCEPT !.done = TRUE]
      <4>1. [done |-> cmd_event.done, timeout |-> cmd_event.timeout]'
              = [done |-> TRUE, timeout |-> cmd_event.timeout]
        BY <2>5
      <4>2. cmd_event.done \in BOOLEAN /\ cmd_event.timeout \in BOOLEAN
        BY <1>4
      <4> QED BY <4>1, <4>2, FlagsSet
    <3>2. UNCHANGED <<Stage, Request(csr), Moved>>
      BY <2>3, <2>4, <2>6 DEF Stage
    <3>3. UNCHANGED Judged
      BY <1>1, <1>2 DEF Judged
    <3>4. Stage = "idle"
      BY DEF Stage
    <3> QED BY <2>4, <3>1, <3>2, <3>3, <3>4 DEF Transfer!Settle, Moved, Judged
  <2> QED BY <2>7 DEF Transfer!Next
<1>7. CASE w.send
  <2>1. CoreAccept(w.send)
    BY <1>5, <1>7 DEF CoreIdle
  <2>2. cmd_event.done /\ data_event.done
    BY <1>7 DEF Wires, OrTied
  <2>3. csr' \in Csrs
    BY <1>7 DEF Cycle, Software
  <2>4. Moved' = 0
    <3>1. h'.taken = 0 + 0 /\ h'.given = 0 + 0
      BY <1>3, <1>7 DEF Accepted
    <3> QED BY <3>1, SMT DEF Moved
  <2>5. core_state' = "CMD-SEND" /\ cmd_event' = NoCmdEvent /\ data_event' = NoDataEvent
    BY <2>1 DEF CoreAccept
  <2>6. Transfer!Send(Request(csr'))
    <3>1. Request(csr)' = Request(csr')
      BY DEF Request
    <3> QED BY <1>1, <1>2, <2>2, <2>4, <2>5, <3>1
            DEF Transfer!Send, Transfer!Pending, NoCmdEvent, NoDataEvent, Stage, Moved,
                Judged
  <2>7. Request(csr') \in {Request(r) : r \in Csrs}
    BY <2>3
  <2> QED BY <2>6, <2>7 DEF Transfer!Next
<1> QED BY <1>6, <1>7

LEMMA NothingMoves ==
  ASSUME Polled, TypeOK, DoneInv, Quiescent, NEW w \in Wires, Cycle(w),
         core_state \in {"CMD-SEND", "CMD-RESPONSE"}
  PROVE  csr' = csr /\ UNCHANGED <<Request(csr), Moved, Judged>>
<1>1. ~WriteTakes(w) /\ ~ReadGives(w) /\ ~Judged /\ ~Accepted(w)
  BY StillOutside DEF Accepted
<1>2. ~Judged'
  BY DEF Quiescent, Judged, Cycle, Dataw, DatawStep, DatawIdle, DatawClk2,
     DatawStart, DatawData, DatawCrc16, DatawStopBit, DatawCrc, DatawClk8, DatawBusy,
     DatawClocks
<1>3. h'.taken = h.taken + 0 /\ h'.given = h.given + 0
  BY <1>1, Counters DEF One
<1>4. h'.taken = h.taken /\ h'.given = h.given
  BY <1>3, Numbers, SMT
<1>5. csr' = csr
  BY RegistersStay
<1>6. UNCHANGED <<Request(csr), Moved>>
  BY <1>4, <1>5 DEF Request, Moved
<1>7. UNCHANGED Judged
  BY <1>1, <1>2 DEF Judged
<1> QED BY <1>5, <1>6, <1>7

LEMMA SendImplements ==
  ASSUME Polled, TypeOK, DoneInv, Quiescent, NEW w \in Wires, Cycle(w),
         core_state = "CMD-SEND"
  PROVE  Transfer!Next \/ UNCHANGED Transfer!vars
<1> DEFINE sent == CmdwReady(Ce, CmdwValid, CmdLast, csr.cmd_type) /\ CmdLast
           reply == csr.cmd_type # RESPONSE_NONE
<1>1. CoreCmdSend(CmdwReady(Ce, CmdwValid, CmdLast, csr.cmd_type))
  BY DEF Cycle, CoreStep, CoreIdle, CoreAccept, CoreResponseWait, CoreResponseTimeout,
     CoreResponseByte, CoreResponseLast, CoreDataWrite, CoreDataRead, CoreDataTimeout
<1>2. /\ core_state' = IF ~sent THEN "CMD-SEND" ELSE IF reply THEN "CMD-RESPONSE" ELSE "IDLE"
      /\ UNCHANGED <<cmd_event, data_event>>
  BY <1>1 DEF CoreCmdSend
<1>3. UNCHANGED <<Request(csr), Moved, Judged>>
  BY NothingMoves
<1>4. UNCHANGED [done |-> cmd_event.done, timeout |-> cmd_event.timeout]
  BY <1>2
<1> HIDE DEF sent, reply
<1>5. CASE sent /\ ~reply
  <2>1. core_state' = "IDLE"
    BY <1>2, <1>5
  <2>2. Stage = "command" /\ Stage' = "idle"
    BY <2>1 DEF Stage
  <2>3. ~Request(csr).reply
    BY <1>5 DEF Request, reply
  <2>4. Transfer!NoReply
    BY <1>2, <1>3, <1>4, <2>2, <2>3 DEF Transfer!NoReply, Moved, Judged
  <2> QED BY <2>4 DEF Transfer!Next
<1>6. CASE ~(sent /\ ~reply)
  <2>1. core_state' \in {"CMD-SEND", "CMD-RESPONSE"}
    BY <1>2, <1>6
  <2>2. UNCHANGED Stage
    BY <2>1 DEF Stage
  <2> QED BY <1>2, <1>3, <1>4, <2>2 DEF Transfer!vars, Moved, Judged
<1> QED BY <1>5, <1>6

LEMMA ResponseImplements ==
  ASSUME Polled, TypeOK, DoneInv, Quiescent, TransferInv, NEW w \in Wires, Cycle(w),
         core_state = "CMD-RESPONSE"
  PROVE  Transfer!Next \/ UNCHANGED Transfer!vars
<1>1. UNCHANGED <<Request(csr), Moved, Judged>> /\ csr' = csr
  BY NothingMoves
<1>2. Stage = "command" /\ csr.cmd_type # RESPONSE_NONE
  BY DEF Stage, TransferInv
<1>3. Request(csr).reply
  BY <1>2 DEF Request
<1>4. cmd_event \in [done: BOOLEAN, timeout: BOOLEAN, crc: BOOLEAN]
  BY DEF TypeOK, CoreTypeOK
<1>5. cmd_event.done \in BOOLEAN /\ cmd_event.timeout \in BOOLEAN
  BY <1>4
<1>6. CASE CoreResponseWait(ResponseValid(w))
           \/ CoreResponseByte(ResponseValid(w), CmdrStatus, CmdrSourceLast(ResponseLength))
  <2>1. UNCHANGED <<core_state, cmd_event, data_event>>
    BY <1>6 DEF CoreResponseWait, CoreResponseByte
  <2>2. UNCHANGED Stage /\ UNCHANGED [done |-> cmd_event.done, timeout |-> cmd_event.timeout]
    BY <2>1 DEF Stage
  <2> QED BY <1>1, <2>1, <2>2 DEF Transfer!vars, Moved, Judged
<1>7. CASE CoreResponseTimeout(ResponseValid(w), CmdrStatus)
  <2>1. /\ cmd_event' = [cmd_event EXCEPT !.timeout = TRUE]
        /\ core_state' = "IDLE" /\ data_event' = data_event
    BY <1>7 DEF CoreResponseTimeout
  <2>2. cmd_event'.done = cmd_event.done /\ cmd_event'.timeout = TRUE
    BY <1>4, <2>1
  <2>3. [done |-> cmd_event.done, timeout |-> cmd_event.timeout]'
          = [[done |-> cmd_event.done, timeout |-> cmd_event.timeout] EXCEPT !.timeout = TRUE]
    <3>1. [done |-> cmd_event.done, timeout |-> cmd_event.timeout]'
            = [done |-> cmd_event.done, timeout |-> TRUE]
      BY <2>2
    <3> QED BY <1>5, <3>1, FlagsSet
  <2>4. Stage' = "idle"
    BY <2>1 DEF Stage
  <2>5. Transfer!NoAnswer
    BY <1>1, <1>2, <1>3, <2>1, <2>3, <2>4 DEF Transfer!NoAnswer, Moved, Judged
  <2> QED BY <2>5 DEF Transfer!Next
<1>8. CASE CoreResponseLast(ResponseValid(w), CmdrStatus, CmdrSourceLast(ResponseLength), w.ok)
  <2> DEFINE bad == csr.crc /\ ~w.ok
  <2>1. /\ cmd_event' = [cmd_event EXCEPT !.done = TRUE, !.crc = @ \/ bad]
        /\ core_state' = IF bad THEN "IDLE"
                         ELSE IF csr.data_type = DATA_WRITE THEN "DATA-WRITE"
                         ELSE IF csr.data_type = DATA_READ THEN "DATA-READ" ELSE "IDLE"
        /\ data_event' = data_event
    BY <1>8 DEF CoreResponseLast
  <2>2. cmd_event'.done = TRUE /\ cmd_event'.timeout = cmd_event.timeout
    BY <1>4, <2>1
  <2>3. [done |-> cmd_event.done, timeout |-> cmd_event.timeout]'
          = [[done |-> cmd_event.done, timeout |-> cmd_event.timeout] EXCEPT !.done = TRUE]
    <3>1. [done |-> cmd_event.done, timeout |-> cmd_event.timeout]'
            = [done |-> TRUE, timeout |-> cmd_event.timeout]
      BY <2>2
    <3> QED BY <1>5, <3>1, FlagsSet
  <2>4. Request(csr).data = IF csr.data_type = DATA_READ THEN "read"
                            ELSE IF csr.data_type = DATA_WRITE THEN "write" ELSE "none"
    BY DEF Request
  <2>5. Stage' = IF ~bad /\ Request(csr).data # "none" THEN Request(csr).data ELSE "idle"
    BY <2>1, <2>4 DEF Stage, DATA_READ, DATA_WRITE
  <2>6. Request(csr).check \/ ~bad
    BY DEF Request
  <2> HIDE DEF bad
  <2>7. CASE bad
    <3>1. Stage' = "idle" /\ Request(csr).check
      BY <2>5, <2>6, <2>7
    <3>2. Transfer!Answer(FALSE)
      BY <1>1, <1>2, <1>3, <2>1, <2>3, <3>1 DEF Transfer!Answer, Moved, Judged
    <3> QED BY <3>2 DEF Transfer!Next
  <2>8. CASE ~bad
    <3>1. Stage' = IF Request(csr).data # "none" THEN Request(csr).data ELSE "idle"
      BY <2>5, <2>8
    <3>2. Transfer!Answer(TRUE)
      BY <1>1, <1>2, <1>3, <2>1, <2>3, <3>1 DEF Transfer!Answer, Moved, Judged
    <3> QED BY <3>2 DEF Transfer!Next
  <2> QED BY <2>7, <2>8
<1> QED BY <1>6, <1>7, <1>8 DEF Cycle, CoreStep, CoreIdle, CoreAccept, CoreCmdSend,
        CoreDataWrite, CoreDataRead, CoreDataTimeout

\* The flags of the data event.
DataFlags == [done: BOOLEAN, error: BOOLEAN, timeout: BOOLEAN, crc: BOOLEAN]

LEMMA SameDataFlags ==
  ASSUME NEW r \in DataFlags, NEW s \in DataFlags, s.done = r.done, s.error = r.error,
         s.timeout = r.timeout, s.crc = r.crc
  PROVE  s = r
BY SMT DEF DataFlags

\* No verdict, no change.
LEMMA FlagsKept ==
  ASSUME NEW r \in DataFlags, NEW c \in BOOLEAN, NEW e \in BOOLEAN, ~c, ~e
  PROVE  /\ [r EXCEPT !.crc = @ \/ c, !.error = @ \/ e] = r
         /\ [r EXCEPT !.crc = @ \/ c] = r
<1> DEFINE a == [r EXCEPT !.crc = @ \/ c, !.error = @ \/ e]
           b == [r EXCEPT !.crc = @ \/ c]
<1>1. r.done \in BOOLEAN /\ r.error \in BOOLEAN /\ r.timeout \in BOOLEAN /\ r.crc \in BOOLEAN
  BY Zenon DEF DataFlags
<1>2. (r.crc \/ c) = r.crc /\ (r.error \/ e) = r.error
  BY <1>1, SMT
<1>3. /\ a.done = r.done /\ a.timeout = r.timeout
      /\ a.crc = (r.crc \/ c) /\ a.error = (r.error \/ e)
      /\ b.done = r.done /\ b.timeout = r.timeout /\ b.error = r.error
      /\ b.crc = (r.crc \/ c)
  BY Zenon DEF DataFlags
<1>4. (r.crc \/ c) \in BOOLEAN /\ (r.error \/ e) \in BOOLEAN
  BY <1>1, <1>2
<1>5. a \in DataFlags /\ b \in DataFlags
  BY <1>4, Zenon DEF DataFlags
<1> HIDE DEF a, b
<1>6. a = r /\ b = r
  BY <1>2, <1>3, <1>5, SameDataFlags
<1> QED BY <1>6 DEF a, b

LEMMA WriteImplements ==
  ASSUME Polled, WholeBlocks, TypeOK, DoneInv, Quiescent, NoUnderrun, TransferInv,
         NEW w \in Wires, Cycle(w), core_state = "DATA-WRITE"
  PROVE  Transfer!Next \/ UNCHANGED Transfer!vars
<1> DEFINE b == csr.block_length
           crc == DatawToken /\ WriteStatus(w) = STATUS_CRCERROR
           error == DatawToken /\ WriteStatus(w) \notin {STATUS_CRCERROR, STATUS_DATAACCEPTED}
<1>1. WritingInv /\ csr' = csr /\ ~Accepted(w)
  BY RegistersStay DEF TransferInv, Accepted
<1>2. /\ cmd_event' = cmd_event
      /\ data_event' = [data_event EXCEPT !.crc = @ \/ crc, !.error = @ \/ error]
  <2>1. CoreDataWrite(DatawValid, WriteReady(w), DatawToken, WriteStatus(w))
    BY DEF Cycle, CoreStep, CoreIdle, CoreAccept, CoreCmdSend, CoreResponseWait,
       CoreResponseTimeout, CoreResponseByte, CoreResponseLast, CoreDataRead,
       CoreDataTimeout
  <2> QED BY <2>1 DEF CoreDataWrite
<1>3. UNCHANGED <<Request(csr), [done |-> cmd_event.done, timeout |-> cmd_event.timeout]>>
  BY <1>1, <1>2 DEF Request
<1>4. crc \in BOOLEAN /\ error \in BOOLEAN
  <2>1. dataw_rx.buf \in BOOLEAN
    BY DEF TypeOK, DatawTypeOK, Receivers
  <2> QED BY <2>1, SMT DEF DatawToken
<1>5. data_event \in DataFlags
  BY DEF TypeOK, CoreTypeOK, DataFlags
<1>6. ~DatawToken => data_event' = data_event
  <2> SUFFICES ASSUME ~DatawToken PROVE data_event' = data_event
    OBVIOUS
  <2>1. ~crc /\ ~error
    OBVIOUS
  <2> HIDE DEF crc, error
  <2> QED BY <1>2, <1>4, <1>5, <2>1, FlagsKept
<1>7. ~(crc /\ error)
  OBVIOUS
<1> HIDE DEF crc, error
<1>8. /\ h'.taken = h.taken + One(WriteTakes(w))
      /\ h'.given = h.given + 0 /\ h.given = 0
  <2>1. ~ReadGives(w)
    BY StillOutside
  <2> QED BY <1>1, <2>1, Counters DEF One, WritingInv
<1>9. /\ b \in Nat \ {0} /\ csr.block_count \in Nat \ {0} /\ data_count \in Nat /\ count \in Nat
      /\ count < b /\ data_count < csr.block_count
  BY <1>1, Numbers, SMT DEF WritingInv
<1>10. Moved = data_count * b + count
  <2>1. Moved = 0 + h.taken
    BY <1>8 DEF Moved
  <2>2. Moved = h.taken
    BY <2>1, Numbers, SMT
  <2> QED BY <1>1, <2>2 DEF WritingInv
<1>11. Request(csr).length = b /\ Request(csr).count = csr.block_count /\ Stage = "write"
  BY DEF Request, Stage
<1>12. Moved % b = b - 1 <=> BlockEnd
  <2>1. Moved % b = count
    <3> HIDE DEF b
    <3> QED BY <1>9, <1>10, PlaceInBlock
  <2> QED BY <2>1, OwnEnd
<1>13. Dataw(w)
  BY DEF Cycle
<1> USE DEF DatawStep, DatawIdle, DatawClk2, DatawStart, DatawData, DatawCrc16,
            DatawStopBit, DatawCrc, DatawClk8, DatawBusy, DatawClocks
<1>14. CASE WriteTakes(w)
  <2>1. h'.taken = h.taken + 1 /\ ~DatawToken
    BY <1>1, <1>8, <1>14, WriteTakesWhen DEF One, DatawToken
  <2>2. Moved' = Moved + 1
    <3>1. h'.given = 0 /\ h'.taken = h.taken + 1
      BY <1>8, <2>1, SMT
    <3>2. Moved' = 0 + (h.taken + 1) /\ Moved = 0 + h.taken
      BY <1>8, <3>1 DEF Moved
    <3> QED BY <3>2, Numbers, SMT
  <2>3. BlockEnd => Judged
    BY <1>1, <1>14, WriteTakesWhen DEF Judged
  <2>4. ~Judged'
    BY <1>1, <1>13, <1>14, WriteTakesWhen DEF Dataw, Judged
  <2>5. Stage' = IF Moved' = b * csr.block_count THEN "idle" ELSE "write"
    <3>1. Moved' = b * csr.block_count <=> BlockEnd /\ LastBlock
      <4>1. data_count * b + count + 1 = b * csr.block_count
              <=> count = b - 1 /\ data_count = csr.block_count - 1
        <5> HIDE DEF b
        <5> QED BY <1>9, ByteOfTransfer
      <4> QED BY <1>10, <2>2, <4>1, OwnEnd DEF LastBlock
    <3>2. core_state' = IF BlockEnd /\ LastBlock THEN "IDLE" ELSE "DATA-WRITE"
      BY <1>1, <1>14, CoreWrites
    <3> QED BY <3>1, <3>2 DEF Stage
  <2>6. Transfer!WriteByte
    <3>1. Transfer!LastOfBlock => Judged
      BY <1>11, <1>12, <2>3 DEF Transfer!LastOfBlock, Moved
    <3>2. Stage' = IF Moved' = Transfer!Total THEN "idle" ELSE "write"
      BY <1>11, <2>5 DEF Transfer!Total
    <3>3. Judged' = FALSE
      BY <2>4 DEF Judged
    <3>4. data_event' = data_event
      BY <1>6, <2>1
    <3> HIDE DEF b
    <3> QED BY <1>3, <1>11, <2>2, <3>1, <3>2, <3>3, <3>4
            DEF Transfer!WriteByte, Moved, Judged
  <2> QED BY <2>6 DEF Transfer!Next
<1>15. CASE ~WriteTakes(w)
  <2>1. core_state' = "DATA-WRITE"
    BY <1>1, <1>15, CoreWrites
  <2>2. UNCHANGED Stage
    BY <2>1 DEF Stage
  <2>3. UNCHANGED Moved
    <3>1. h'.taken = h.taken + 0 /\ h'.given = h.given + 0
      BY <1>8, <1>15 DEF One
    <3>2. h'.taken = h.taken /\ h'.given = h.given
      BY <3>1, Numbers, SMT
    <3> QED BY <3>2 DEF Moved
  <2>4. CASE DatawToken
    <3>1. ~Judged /\ Judged'
      BY <1>13, <2>4 DEF DatawToken, Judged, Dataw
    <3>2. Judged' = TRUE
      BY <3>1 DEF Judged
    <3>3. BlockEnd
      BY <1>1, <2>4 DEF WritingInv, Judging, DatawToken
    <3>4. Transfer!LastOfBlock
      BY <1>11, <1>12, <3>3 DEF Transfer!LastOfBlock, Moved
    <3>5. Transfer!Token(crc, error)
      BY <1>2, <1>3, <1>7, <1>11, <2>2, <2>3, <3>1, <3>2, <3>4
         DEF Transfer!Token, Moved, Judged
    <3> QED BY <1>4, <3>5 DEF Transfer!Next
  <2>5. CASE ~DatawToken
    <3>1. UNCHANGED Judged
      <4>1. dataw_state = "BUSY" => ~DatawNotBusy(w.beat, w.low)
        BY <1>1, <1>15, WriteTakesWhen
      <4>2. dataw_state = "CRC" => dataw_state' = "CRC"
        BY <1>13, <2>5 DEF Dataw
      <4>3. dataw_state = "BUSY" => dataw_state' = "BUSY"
        BY <1>13, <4>1 DEF Dataw
      <4>4. dataw_state = "CLK8" => dataw_state' \in {"CLK8", "BUSY"}
        BY <1>13 DEF Dataw
      <4>5. dataw_state \notin {"CRC", "BUSY", "CLK8"}
              => dataw_state' \notin {"BUSY", "CLK8"}
        BY <1>13 DEF Dataw
      <4> QED BY <4>2, <4>3, <4>4, <4>5 DEF Judged
    <3> QED BY <1>3, <1>6, <2>2, <2>3, <2>5, <3>1 DEF Transfer!vars, Moved, Judged
  <2> QED BY <2>4, <2>5
<1> QED BY <1>14, <1>15

LEMMA ReadImplements ==
  ASSUME Polled, WholeCrcBytes, TypeOK, DoneInv, Quiescent, TransferInv,
         NEW w \in Wires, Cycle(w), core_state = "DATA-READ"
  PROVE  Transfer!Next \/ UNCHANGED Transfer!vars
<1> DEFINE b == csr.block_length
           ended == DatarEnd(b, ReadReady(w))
           crc == DatarValid /\ WriteStatus(w) = STATUS_CRCERROR
<1>1. ReadingInv /\ csr' = csr /\ ~Accepted(w)
  BY RegistersStay DEF TransferInv, Accepted
<1>2. ~WriteTakes(w) /\ ~DatawToken /\ ~Judged
  BY StillOutside
<1>3. ~Judged'
  BY DEF Quiescent, Judged, DatawValid, Cycle, Dataw, DatawStep, DatawIdle, DatawClk2,
     DatawStart, DatawData, DatawCrc16, DatawStopBit, DatawCrc, DatawClk8, DatawBusy,
     DatawClocks
<1>4. UNCHANGED Request(csr) /\ UNCHANGED Judged
  BY <1>1, <1>2, <1>3 DEF Request, Judged
<1>5. Moved' = Moved + One(ReadGives(w)) /\ Moved = h.given
  <2>1. h'.taken = 0 + 0 /\ h'.given = h.given + One(ReadGives(w)) /\ h.taken = 0
    BY <1>1, <1>2, Counters DEF One, ReadingInv
  <2>2. Moved' = h.given + One(ReadGives(w)) + (0 + 0) /\ Moved = h.given + 0
    BY <2>1 DEF Moved
  <2>3. One(ReadGives(w)) \in Nat
    BY DEF One
  <2> QED BY <2>2, <2>3, Numbers, SMT
<1>6. Request(csr).length = b /\ Request(csr).count = csr.block_count /\ Stage = "read"
  BY DEF Request, Stage
<1>7. /\ b \in Nat \ {0} /\ csr.block_count \in Nat \ {0} /\ data_count \in Nat
      /\ datar_count \in Nat /\ data_count < csr.block_count
      /\ CrcLen \in Nat /\ CrcLen >= 1
  BY <1>1, Numbers, SomeCrc, SMT DEF ReadingInv
<1>8. CASE datar_state = "TIMEOUT"
  <2>1. CoreDataTimeout(DatarValid, DatarStatus)
    BY <1>8 DEF Cycle, CoreStep, CoreIdle, CoreAccept, CoreCmdSend, CoreResponseWait,
       CoreResponseTimeout, CoreResponseByte, CoreResponseLast, CoreDataWrite,
       CoreDataRead, DatarValid, DatarStatus
  <2>2. /\ data_event' = [data_event EXCEPT !.timeout = TRUE]
        /\ core_state' = "IDLE" /\ cmd_event' = cmd_event
    BY <2>1 DEF CoreDataTimeout
  <2>3. Moved' = Moved
    <3>1. ~ReadGives(w)
      BY <1>8 DEF ReadGives, DatarTake
    <3>2. Moved' = h.given + 0 /\ Moved = h.given
      BY <1>5, <3>1 DEF One
    <3> QED BY <3>2, Numbers, SMT
  <2>4. Stage' = "idle" /\ UNCHANGED [done |-> cmd_event.done, timeout |-> cmd_event.timeout]
    BY <2>2 DEF Stage
  <2>5. Transfer!ReadTimeout
    BY <1>4, <1>6, <2>2, <2>3, <2>4 DEF Transfer!ReadTimeout, Moved, Judged
  <2> QED BY <2>5 DEF Transfer!Next
<1>9. CASE datar_state # "TIMEOUT"
  <2>1. CoreDataRead(DatarValid, DatarStatus, DatarSourceLast(b), ReadReady(w), WriteStatus(w))
    <3>1. DatarStatus # STATUS_TIMEOUT
      BY <1>9 DEF DatarStatus, STATUS_OK, STATUS_TIMEOUT, STATUS_CRCERROR
    <3> QED BY <3>1 DEF Cycle, CoreStep, CoreIdle, CoreAccept, CoreCmdSend,
            CoreResponseWait, CoreResponseTimeout, CoreResponseByte, CoreResponseLast,
            CoreDataWrite, CoreDataTimeout
  <2>2. cmd_event' = cmd_event /\ data_event' = [data_event EXCEPT !.crc = @ \/ crc]
    BY <2>1 DEF CoreDataRead
  <2>3. data_event' = data_event
    <3>1. ~crc
      BY <1>2 DEF WriteStatus, STATUS_OK, STATUS_CRCERROR
    <3>2. data_event \in DataFlags
      BY DEF TypeOK, CoreTypeOK, DataFlags
    <3>3. crc = FALSE
      BY <3>1
    <3> HIDE DEF crc
    <3> QED BY <2>2, <3>2, <3>3, FlagsKept
  <2>4. UNCHANGED [done |-> cmd_event.done, timeout |-> cmd_event.timeout]
    BY <2>2
  <2>5. core_state' = IF ended /\ LastBlock THEN "IDLE" ELSE "DATA-READ"
    BY <1>1, <1>9, CoreReads
  <2>6. ended => ~ReadGives(w) /\ datar_state = "DATA" /\ ~(datar_count < b)
    <3> SUFFICES ASSUME ended PROVE ~ReadGives(w) /\ datar_state = "DATA" /\ ~(datar_count < b)
      OBVIOUS
    <3>1. datar_state = "DATA" /\ datar_count = b + CrcLen - 1
      BY DEF DatarEnd, DatarTake, DatarSourceLast
    <3>2. ~(datar_count < b) /\ datar_count > b - 1
      BY <1>7, <3>1, SMT
    <3> QED BY <3>1, <3>2 DEF ReadGives, DatarDrop
  <2>7. CASE ReadGives(w)
    <3>1. datar_state = "DATA" /\ datar_count < b
      <4>1. datar_state = "DATA" /\ ~(datar_count > b - 1)
        BY <2>7 DEF ReadGives, DatarTake, DatarDrop
      <4> QED BY <1>7, <4>1, SMT
    <3>2. Moved = data_count * b + datar_count
      BY <1>1, <1>5, <3>1 DEF ReadingInv
    <3>3. Moved < b * csr.block_count
      <4>1. data_count * b + datar_count < b * csr.block_count
        <5> HIDE DEF b
        <5> QED BY <1>7, <3>1, ByteOfTransfer
      <4> QED BY <3>2, <4>1
    <3>4. Stage' = "read"
      BY <2>5, <2>6, <2>7 DEF Stage
    <3>5. Moved' = Moved + 1
      BY <1>5, <2>7 DEF One
    <3>6. Moved < Transfer!Total
      BY <1>6, <3>3 DEF Transfer!Total
    <3> HIDE DEF b
    <3>7. Transfer!ReadByte
      BY <1>4, <1>6, <2>3, <2>4, <3>4, <3>5, <3>6 DEF Transfer!ReadByte, Moved, Judged
    <3> QED BY <3>7 DEF Transfer!Next
  <2>8. CASE ~ReadGives(w)
    <3>1. Moved' = Moved
      <4>1. Moved' = h.given + 0 /\ Moved = h.given
        BY <1>5, <2>8 DEF One
      <4> QED BY <4>1, Numbers, SMT
    <3>2. CASE ended /\ LastBlock
      <4>1. Stage' = "idle"
        BY <2>5, <3>2 DEF Stage
      <4>2. Moved = b * csr.block_count
        <5>1. Moved = data_count * b + b /\ data_count = csr.block_count - 1
          BY <1>1, <1>5, <2>6, <3>2 DEF ReadingInv, LastBlock
        <5>2. (csr.block_count - 1) * b + b = b * csr.block_count
          <6> HIDE DEF b
          <6> DEFINE n == csr.block_count
          <6>1. n \in Nat /\ b \in Nat
            BY <1>7
          <6> HIDE DEF n
          <6>2. (n - 1) * b + b = b * n
            BY <6>1, SMT
          <6> QED BY <6>2 DEF n
        <5> QED BY <5>1, <5>2
      <4>3. Moved = Transfer!Total
        BY <1>6, <4>2 DEF Transfer!Total
      <4> HIDE DEF b
      <4>4. Transfer!ReadEnd
        BY <1>4, <1>6, <2>3, <2>4, <3>1, <4>1, <4>3 DEF Transfer!ReadEnd, Moved, Judged
      <4> QED BY <4>4 DEF Transfer!Next
    <3>3. CASE ~(ended /\ LastBlock)
      <4>1. UNCHANGED Stage
        BY <2>5, <3>3 DEF Stage
      <4> QED BY <1>4, <2>3, <2>4, <3>1, <4>1 DEF Transfer!vars, Moved, Judged
    <3> QED BY <3>2, <3>3
  <2> QED BY <2>7, <2>8
<1> QED BY <1>8, <1>9

\* The controller, down to its beats, implements the abstract transfers on which the
\* DMA engines are built, whatever software that polls asks for and whatever the card
\* does, with any host that does not end blocks early: a read ends with every byte handed over or with a timeout, the last byte
\* of a block is taken after its one token only, a write ends with its last byte, and
\* the flags change when and as SDTransfer allows (core.py:126-297, phy.py:345-714).
THEOREM ControllerImplementsTransfer ==
  ASSUME Polled, WholeCrcBytes, WholeBlocks PROVE Spec => ImplementsTransfer
<1>1. Init => Transfer!Init
  <2> SUFFICES ASSUME Init PROVE Transfer!Init
    OBVIOUS
  <2>1. /\ core_state = "IDLE" /\ csr \in Csrs
        /\ cmd_event = NoCmdEvent /\ data_event = NoDataEvent
        /\ dataw_state = "IDLE" /\ h = NoHistory
    BY DEF Init, CoreInit, DatawInit
  <2>2. h.given + h.taken = 0
    <3>1. h.given = 0 /\ h.taken = 0
      BY <2>1 DEF NoHistory
    <3> QED BY <3>1, SMT
  <2>3. Request(csr) \in {Request(r) : r \in Csrs}
    BY <2>1
  <2> QED BY <2>1, <2>2, <2>3
          DEF Transfer!Init, Transfer!Pending, NoCmdEvent, NoDataEvent, Stage
<1>2. TypeOK /\ DoneInv /\ Quiescent /\ NoUnderrun /\ TransferInv /\ [Next]_vars
        => [Transfer!Next]_(Transfer!vars)
  <2> SUFFICES ASSUME TypeOK, DoneInv, Quiescent, NoUnderrun, TransferInv, [Next]_vars
               PROVE  Transfer!Next \/ UNCHANGED Transfer!vars
    OBVIOUS
  <2>1. ASSUME NEW w \in Wires, Cycle(w)
        PROVE  Transfer!Next \/ UNCHANGED Transfer!vars
    <3>1. core_state \in CoreStates
      BY DEF TypeOK, CoreTypeOK
    <3> QED BY <2>1, <3>1, IdleImplements, SendImplements, ResponseImplements,
               WriteImplements, ReadImplements DEF CoreStates
  <2>2. CASE UNCHANGED vars
    BY <2>2 DEF vars, coreVars, datawVars, Transfer!vars, Stage, Request
  <2> QED BY <2>1, <2>2 DEF Next
<1> QED BY <1>1, <1>2, TypeCorrect, DoneInvariant, EnginesQuiescent, StopInTime,
           TransferInvariant, PTL DEF Spec, ImplementsTransfer, Transfer!Spec
=============================================================================
