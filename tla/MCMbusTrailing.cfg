SPECIFICATION PushSpec
CONSTANTS
  Messages <- MCMessages
  Trailing <- MCTrailing
  Foreign = {}
  MaxChatter = 1
INVARIANT
  TrailingBytesAreIgnored
CHECK_DEADLOCK FALSE
