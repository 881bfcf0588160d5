SPECIFICATION Spec
CONSTANTS
  Gap = 2
  ByteBits = 2
  Clk8 = 2
  BeatsPerByte = 2
  CrcBeats = 4
  TimerMax = 40
  CmdTimeout = 14
  DataTimeout = 18
  CmdBytes = 2
  ShortLen = 2
  LongLen = 3
  Csrs <- MCRewrites
  CountMod = 2
  DataCountMod = 4
  CardTokens = {0, 2, 5, 6}
  Polled = FALSE
  WholeBlocks = TRUE
INVARIANTS Quiescent OneIrqPerCommand
PROPERTIES DoneIsFinal
