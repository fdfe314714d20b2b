SPECIFICATION PushSpec
CONSTANTS
  Messages <- MCMessages
  Trailing <- MCTrailing
  Foreign <- MCForeign
  MaxChatter = 1
INVARIANTS
  TypeOK
  InPlaceSafe
  DeliversWhatWasSent
  DeliversWholePieces
  OnlyThatFrameIsDisturbed
PROPERTIES
  RefinesStream
  Terminates
CHECK_DEADLOCK FALSE
