SPECIFICATION Spec
CONSTANTS
  Messages <- MCMessages
  Series <- MCSeries
  MaxPushes = 2
  Keys <- MCKeys
  NoKey = 0
  MAX_ITERATIONS = 4
  Plain <- Unsealed
  Authentic <- TagFits
  Patterns <- MCPatterns
  WORD = 65536
  MAX_SELF_DESC_OBJECTS = 64
  MAX_TOKENS = 64
  MAX_INNER = 16
  MAX_STEPS = 32
INVARIANTS
  HandsOverWhatWasSent
  ReportsWhatWasSent
  ReportsABeginning
PROPERTIES
  Returns
CHECK_DEADLOCK FALSE
