SPECIFICATION FairSpec
CONSTANTS
  Dividers <- MCDividers
  ResetDivider = 8
  MinHalf = 1
INVARIANTS TypeOK PhaseLeft
PROPERTIES PhaseExact NoShortPulse SampleFollowsCe ImplementsContract CeRecurs
