SPECIFICATION PushSpec
CONSTANTS
  Messages <- MCMessages
  Foreign = {}
  MaxChatter = 1
INVARIANT
  DeliversOnlyToTheEnd
CHECK_DEADLOCK FALSE
