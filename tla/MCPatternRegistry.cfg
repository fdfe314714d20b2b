SPECIFICATION RegistrySpec
CONSTANTS
  MAX_PATTERNS = 3
  Priorities = {5, 10, 20}
  ObisIds = {none, energy}
  NoObis = none
  BuiltIn <- MCBuiltIn
  MaxRegistrations = 6
INVARIANTS
  RegistryTypeOK
  TriedInOrder
  KeepsTheFirst
