--------------------------------- MODULE SDCRC ---------------------------------
(***************************************************************************)
(* The CRC register (crc.py) and the messages it protects: commands and    *)
(* responses with a CRC7 that is sent or compared in one byte (core.py),   *)
(* and each data line of a block with a CRC16 that is read out one bit per *)
(* beat (phy.py).  The peer is a card that knows what a CRC is: it sends   *)
(* multiples of the generator polynomial, and the line may flip bits.      *)
(*                                                                         *)
(* A step is a word: a byte on the command line, a beat of a data line.    *)
(***************************************************************************)
EXTENDS FiniteSets, Integers, Sequences

CONSTANT Units \* the CRC units; see AnyUnit

AnyUnit ==
  [taps    : Nat \ {0},  \* of the register
   polynom : SUBSET Nat, \* the other taps, a bit j + 1 of the parameter polynom as j
   dw      : Nat \ {0},  \* bits of a word
   skip    : Nat,        \* words of a received message that are not covered
   words   : Nat \ {0},  \* words of a message that are
   check   : Nat \ {0},  \* bits of the CRC sent or compared in a step
   sure    : Nat,        \* flipped bits no message survives; bound: the line flips no more
   data    : SUBSET Seq(BOOLEAN)] \* bound: words of the messages

ASSUME UnitsAssumption ==
  \A u \in Units : /\ u \in AnyUnit
                   /\ u.polynom \subseteq 0..u.taps - 2
                   /\ u.taps % u.check = 0
                   /\ \A w \in u.data : Len(w) = u.dw

-----------------------------------------------------------------------------
(* class CRC.  A register is a function from 0..taps-1 to bits, a word is a *)
(* sequence of bits, the most significant first.                            *)

Registers(u) == [0..u.taps - 1 -> BOOLEAN]
Zero(u) == [j \in 0..u.taps - 1 |-> FALSE]

\* Slip: the tap of every coefficient is one off.
ShiftedOff(u, reg, bit) ==
  LET inv == bit # reg[u.taps - 1]
  IN  [j \in 0..u.taps - 1 |-> IF j = 0 THEN inv
                               ELSE IF j \in u.polynom THEN reg[j - 1] # inv ELSE reg[j - 1]]

Shifted(u, reg, bit) ==
  LET inv == bit # reg[u.taps - 1]
  IN  [j \in 0..u.taps - 1 |-> IF j = 0 THEN inv
                               ELSE IF j - 1 \in u.polynom THEN reg[j - 1] # inv
                               ELSE reg[j - 1]]

\* The chain of dw shifts, from the most significant bit of din on.
Chained(u, reg, din) ==
  LET regs[i \in 0..Len(din)] == IF i = 0 THEN reg ELSE Shifted(u, regs[i - 1], din[i])
  IN  regs[Len(din)]

Clocked(u, reg, reset, enable, din) ==
  IF reset THEN Zero(u) ELSE IF enable THEN Chained(u, reg, din) ELSE reg

\* Slip: the least significant bit first.
SliceReversed(u, reg, count) == [i \in 1..u.check |-> reg[count * u.check + i - 1]]

\* The part of the CRC that belongs to a step of the check, most significant bit
\* first: crc[16-1-count] of a line, or the whole CRC7.
Slice(u, reg, count) == [i \in 1..u.check |-> reg[u.taps - 1 - (count * u.check + i - 1)]]

-----------------------------------------------------------------------------
VARIABLES unit,
          state,  \* what becomes of the message: see States
          crc,    \* the register
          count,  \* steps of the words or of the check
          error,  \* the comparison has failed
          card,   \* the message the card sends
          line,   \* the message seen on this side, without what is not covered
          flips   \* bits of it the line has flipped

vars == <<unit, state, crc, count, error, card, line, flips>>

States == {"IDLE", "SEND", "SEND-CRC", "RECEIVE", "RECEIVE-CRC", "SENT", "RECEIVED"}

\* Polynomials over two elements.  The generator is x^taps, the taps and 1; a
\* polynomial is the sequence of its coefficients, the highest first.
Generator(u) ==
  [i \in 1..u.taps + 1 |-> u.taps + 1 - i \in {0, u.taps} \union {j + 1 : j \in u.polynom}]

Product(p, q) ==
  [k \in 1..Len(p) + Len(q) - 1 |->
     Cardinality({i \in DOMAIN p : k + 1 - i \in DOMAIN q /\ p[i] /\ q[k + 1 - i]}) % 2 = 1]

\* What is a message with its CRC, by definition.
Codewords == [u \in Units |-> {Product(p, Generator(u)) : p \in [1..u.dw * u.words -> BOOLEAN]}]

\* No codeword but zero has so few ones: what sure means, and how far apart any two
\* codewords are.
ASSUME SureAssumption ==
  \A u \in Units : \A c \in Codewords[u] :
    LET ones == {i \in DOMAIN c : c[i]} IN ones = {} \/ Cardinality(ones) > u.sure

\* What a card may send.
Word(u, s, n) == SubSeq(s, (n - 1) * u.dw + 1, n * u.dw)
CardMessages ==
  [u \in Units |-> {c \in Codewords[u] : \A n \in 1..u.words : Word(u, c, n) \in u.data}]

Init == /\ unit \in Units /\ state = "IDLE" /\ crc = Zero(unit) /\ count = 0
        /\ error = FALSE /\ card = <<>> /\ line = <<>> /\ flips = 0

-----------------------------------------------------------------------------
\* Slip: reset at power-up only.
BeginsOnce == /\ state \in {"IDLE", "SENT", "RECEIVED"}
              /\ count' = 0 /\ error' = FALSE /\ line' = <<>> /\ flips' = 0
              /\ UNCHANGED <<unit, crc>>

\* reset is asserted before a message begins: in IDLE of the core and by the last
\* byte of a command, in START of the transmitter, and for a cycle by the receiver.
Begins == /\ state \in {"IDLE", "SENT", "RECEIVED"}
          /\ crc' = Clocked(unit, crc, TRUE, FALSE, <<>>)
          /\ count' = 0 /\ error' = FALSE /\ line' = <<>> /\ flips' = 0
          /\ UNCHANGED unit

BeginSend == Begins /\ state' = "SEND" /\ card' = <<>>

BeginReceive(message) == Begins /\ state' = "RECEIVE" /\ card' = message

Send(din) ==
  /\ state = "SEND"
  /\ crc' = Clocked(unit, crc, FALSE, TRUE, din)
  /\ line' = line \o din
  /\ count' = IF count + 1 = unit.words THEN 0 ELSE count + 1
  /\ state' = IF count + 1 = unit.words THEN "SEND-CRC" ELSE "SEND"
  /\ UNCHANGED <<unit, error, card, flips>>

\* Slip: one step too many.
SendCrcLong ==
  /\ state = "SEND-CRC"
  /\ line' = line \o Slice(unit, crc, count)
  /\ count' = count + 1
  /\ state' = IF count * unit.check = unit.taps THEN "SENT" ELSE "SEND-CRC"
  /\ UNCHANGED <<unit, crc, error, card, flips>>

SendCrc ==
  /\ state = "SEND-CRC"
  /\ line' = line \o Slice(unit, crc, count)
  /\ count' = count + 1
  /\ state' = IF (count + 1) * unit.check = unit.taps THEN "SENT" ELSE "SEND-CRC"
  /\ UNCHANGED <<unit, crc, error, card, flips>>

\* What arrives of the next n bits the card sends, after some are flipped.
Arrives(n, flipped) ==
  [i \in 1..n |-> card[Len(line) + i] # (i \in flipped)]

Flips(n) == {f \in SUBSET (1..n) : flips + Cardinality(f) <= unit.sure}

\* Slip: the first word is covered too.
SkipNothing(din) ==
  /\ state = "RECEIVE" /\ count < unit.skip
  /\ crc' = Clocked(unit, crc, FALSE, TRUE, din)
  /\ count' = count + 1
  /\ UNCHANGED <<unit, state, error, card, line, flips>>

\* A word of the response that the CRC does not cover.
Skip(din) ==
  /\ state = "RECEIVE" /\ count < unit.skip
  /\ crc' = Clocked(unit, crc, FALSE, FALSE, din)
  /\ count' = count + 1
  /\ UNCHANGED <<unit, state, error, card, line, flips>>

Receive(flipped) ==
  /\ state = "RECEIVE" /\ count >= unit.skip
  /\ LET din  == Arrives(unit.dw, flipped)
         last == count + 1 = unit.skip + unit.words
     IN  /\ crc' = Clocked(unit, crc, FALSE, TRUE, din)
         /\ line' = line \o din
         /\ count' = IF last THEN 0 ELSE count + 1
         /\ state' = IF last THEN "RECEIVE-CRC" ELSE "RECEIVE"
  /\ flips' = flips + Cardinality(flipped)
  /\ UNCHANGED <<unit, error, card>>

\* Slip: the verdict is that of the last comparison.
ReceiveCrcLast(flipped) ==
  /\ state = "RECEIVE-CRC"
  /\ LET din == Arrives(unit.check, flipped)
     IN  /\ line' = line \o din
         /\ error' = (din # Slice(unit, crc, count))
  /\ count' = count + 1
  /\ state' = IF (count + 1) * unit.check = unit.taps THEN "RECEIVED" ELSE "RECEIVE-CRC"
  /\ flips' = flips + Cardinality(flipped)
  /\ UNCHANGED <<unit, crc, card>>

ReceiveCrc(flipped) ==
  /\ state = "RECEIVE-CRC"
  /\ LET din == Arrives(unit.check, flipped)
     IN  /\ line' = line \o din
         /\ error' = (error \/ din # Slice(unit, crc, count))
  /\ count' = count + 1
  /\ state' = IF (count + 1) * unit.check = unit.taps THEN "RECEIVED" ELSE "RECEIVE-CRC"
  /\ flips' = flips + Cardinality(flipped)
  /\ UNCHANGED <<unit, crc, card>>

Next == \/ BeginSend
        \/ \E message \in CardMessages[unit] : BeginReceive(message)
        \/ \E din \in unit.data : Send(din) \/ Skip(din)
        \/ SendCrc
        \/ \E flipped \in Flips(unit.dw) : Receive(flipped)
        \/ \E flipped \in Flips(unit.check) : ReceiveCrc(flipped)

Spec == Init /\ [][Next]_vars

-----------------------------------------------------------------------------
Bits == Seq(BOOLEAN)

TypeOK == /\ unit \in Units /\ state \in States
          /\ count \in 0..CASE state = "SEND"    -> unit.words - 1
                            [] state = "RECEIVE" -> unit.skip + unit.words - 1
                            [] state \in {"SEND-CRC", "RECEIVE-CRC"} -> unit.taps \div unit.check - 1
                            [] OTHER             -> unit.taps \div unit.check
          /\ crc \in Registers(unit) /\ error \in BOOLEAN
          /\ card \in Bits /\ line \in Bits /\ flips \in 0..unit.sure

\* What is sent is a multiple of the generator, whatever was sent or received
\* before: the register holds the remainder and leaves most significant bit first
\* (core.py:159-179, phy.py:405, 480, 485).
SentIsCodeword == state = "SENT" => line \in Codewords[unit]

\* A message is refused exactly if it is not such a multiple, whatever came before
\* it (core.py:220-231, phy.py:576-577, 686-691).
VerdictExact == state = "RECEIVED" => (error <=> line \notin Codewords[unit])

\* No message with a few flipped bits is taken for good: up to two with the CRC7, up
\* to three with the CRC16 (core.py:70, crc.py:63).
FlipsDetected == state = "RECEIVED" /\ flips > 0 => error
=============================================================================
