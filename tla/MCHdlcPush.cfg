SPECIFICATION PushSpec
CONSTANTS
  Messages <- MCMessages
  Foreign <- MCForeign
  MaxChatter = 1
INVARIANTS
  TypeOK
  InPlaceSafe
  DeliversWhatWasSent
  CorruptionIsNoticed
  CutDeliversWholePieces
  OnlyThatFrameIsDisturbed
PROPERTIES
  RefinesStream
  Terminates
CHECK_DEADLOCK FALSE
