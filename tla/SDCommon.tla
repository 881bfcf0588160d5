------------------------------ MODULE SDCommon ------------------------------
(***************************************************************************)
(* The encodings shared by the core and the PHY (common.py, lines 31-44)   *)
(* and the widths all engines count with.                                  *)
(***************************************************************************)
EXTENDS Integers

CONSTANTS ByteBits,     \* bits of a command byte                 (8 in the code)
          Clk8,         \* clocks granted to the card after a transfer        (8)
          BeatsPerByte, \* data clocks per byte: 8, 2 or 1 with 1, 4 or 8 lines
          CrcBeats,     \* data clocks of a CRC16, whatever the width       (16)
          TimerMax      \* largest value of a 32-bit timer           (2^32 - 1)

ASSUME CommonAssumption == /\ ByteBits \in Nat /\ ByteBits >= 2
                           /\ Clk8 \in Nat \ {0}
                           /\ BeatsPerByte \in Nat \ {0}
                           /\ CrcBeats \in Nat \ {0}
                           /\ TimerMax \in Nat

STATUS_OK           == 0
STATUS_TIMEOUT      == 1
STATUS_DATAACCEPTED == 2
STATUS_CRCERROR     == 5
STATUS_WRITEERROR   == 6

DATA_NONE  == 0
DATA_READ  == 1
DATA_WRITE == 2

RESPONSE_NONE       == 0
RESPONSE_SHORT      == 1
RESPONSE_LONG       == 2
RESPONSE_SHORT_BUSY == 3

\* Slip: a register that does not wrap.
DecrementSigned(t) == t - 1

\* timeout - 1 on an unsigned register.
Decrement(t) == IF t = 0 THEN TimerMax ELSE t - 1
=============================================================================
