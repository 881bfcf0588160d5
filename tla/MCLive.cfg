SPECIFICATION FairSpec
CONSTANTS
  Gap = 2
  ByteBits = 2
  Clk8 = 2
  BeatsPerByte = 2
  CrcBeats = 2
  TimerMax = 40
  CmdTimeout = 12
  DataTimeout = 13
  CmdBytes = 2
  ShortLen = 2
  LongLen = 3
  Csrs <- MCEnds
  CountMod = 2
  DataCountMod = 4
  CardTokens = {2}
  Polled = TRUE
  WholeBlocks = FALSE
PROPERTIES CommandEnds ReadEnds WriteEnds WriteComplete
