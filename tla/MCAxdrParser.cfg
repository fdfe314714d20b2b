SPECIFICATION Spec
CONSTANTS
  Telegrams <- MCTelegrams
  Tables <- MCTables
  WORD = 65536
  MAX_SELF_DESC_OBJECTS = 64
  MAX_TOKENS = 64
  MAX_INNER = 16
  MAX_STEPS = 32
INVARIANTS
  TypeOK
  StaysInBuffer
  DepthIsBounded
  DeliversEachByteOnce
PROPERTIES
  Terminates
CHECK_DEADLOCK FALSE
