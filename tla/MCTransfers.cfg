SPECIFICATION Spec
CONSTANTS
  Gap = 2
  ByteBits = 2
  Clk8 = 2
  BeatsPerByte = 2
  CrcBeats = 4
  TimerMax = 40
  CmdTimeout = 12
  DataTimeout = 22
  CmdBytes = 2
  ShortLen = 2
  LongLen = 3
  Csrs <- MCTransfers
  CountMod = 2
  DataCountMod = 4
  CardTokens = {0, 2, 5, 6}
  Polled = TRUE
  WholeBlocks = TRUE
INVARIANTS NoOverrun NoUnderrun WriteVerdict
PROPERTIES CrcWhole WriteComplete ImplementsTransfer
