SPECIFICATION PadsSpec
CONSTANTS
  Gap = 2
  ByteBits = 2
  Clk8 = 2
  BeatsPerByte = 2
  CrcBeats = 4
  TimerMax = 40
  CmdTimeout = 14
  DataTimeout = 18
  CmdBytes = 2
  ShortLen = 2
  LongLen = 3
  Csrs <- MCMixed
  CountMod = 2
  DataCountMod = 4
  ResetClocks = 2
  InitClocks = 2
  WithReset = TRUE
  CardTokens = {0, 2, 5, 6}
  Polled = TRUE
  WholeBlocks = TRUE
INVARIANTS TypeOK Quiescent NothingStale OneIrqPerCommand InitTypeOK NoContention
PROPERTIES DoneIsFinal
