SPECIFICATION PushSpec
CONSTANTS
  Messages <- MCMessages
  Foreign <- MCForeign
  Keys <- MCKeys
  NoKey = 0
  MAX_ITERATIONS = 4
  Plain <- Unsealed
  Authentic <- TagFits
INVARIANTS
  TypeOK
  InPlaceSafe
  DeliversWhatWasSent
  SealedOrNothing
PROPERTIES
  RefinesLayers
  Terminates
CHECK_DEADLOCK FALSE
