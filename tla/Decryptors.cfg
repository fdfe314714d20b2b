SPECIFICATION DecryptorSpec
CONSTANTS
  Backends = {"mbedtls", "bearssl", "tfpsa"}
  Keys = {1, 2}
  NoKey = 0
  SlotIds = {1, 2}
  NULL_ID = 0
INVARIANTS
  DecryptorTypeOK
  NothingIsHeld
PROPERTIES
  OpensWhatIsGenuine
  RefinesDecryptor
CHECK_DEADLOCK FALSE
