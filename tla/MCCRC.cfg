SPECIFICATION Spec
CONSTANTS
  Units <- MCUnits
INVARIANTS TypeOK SentIsCodeword VerdictExact FlipsDetected
