SPECIFICATION FairSpec
CONSTANTS
  BlockWords = 2
  Blocks = 3
  MaxErrors = 2
  Counts = {0, 1, 2}
  Slots = 3
  MaxSpoilt = 3
INVARIANTS TypeOK ErrorsExact CheckedWhole
PROPERTIES CheckEnds
