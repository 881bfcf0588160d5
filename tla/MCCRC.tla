---------------------------------- MODULE MCCRC ----------------------------------
(* The units of the code, on short messages.  The CRC7 of commands and short *)
(* responses covers bytes, that of long responses not the first of them; the *)
(* CRC16 covers one bit per beat.                                            *)
EXTENDS SDCRC

T == TRUE
F == FALSE
Bytes == {<<F, T, F, F, F, F, F, F>>, <<F, F, T, T, F, T, F, T>>, <<T, T, T, T, T, T, T, T>>}

Crc7(skip, words) ==
  [taps |-> 7, polynom |-> {2}, dw |-> 8, skip |-> skip, words |-> words, check |-> 7,
   sure |-> 2, data |-> Bytes]
Crc16(words) ==
  [taps |-> 16, polynom |-> {4, 11}, dw |-> 1, skip |-> 0, words |-> words, check |-> 1,
   sure |-> 3, data |-> {<<F>>, <<T>>}]

MCCommands == {Crc7(0, 2), Crc7(1, 1)}
MCLines == {Crc16(4)}
MCUnits == MCCommands \union MCLines
=============================================================================
