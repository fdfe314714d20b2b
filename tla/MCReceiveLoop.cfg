SPECIFICATION Spec
CONSTANTS
  Lengths <- MCLengths
  SIZE = 3
  GAP = 3
  PAUSE = 1
  LATENCY = 2
  INTERVAL = 10
INVARIANTS
  TypeOK
  OnePushAtATime
PROPERTIES
  EveryPushIsHandedOver
