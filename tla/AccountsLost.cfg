SPECIFICATION Spec
CONSTANTS
  NULL = NULL
  Names <- MCNames
  Hashes <- MCHashes
  Hex <- MCHex
  MIN_NAME = 2
  MAX_NAME = 4
  DIGITS = 2
  FdLimit = 2
  MaxFile = 12
  MaxTorn = 1
INVARIANTS
  CreatedCanLogIn
