SPECIFICATION Spec
CONSTANTS
  NULL = NULL
  WIDTH = 5
  STARTING_LENGTH = 8
  MAX_PACKET = 14
  Fields <- Unmarked
  Forms <- MCForms
  MaxFields = 2
  MaxPackets = 2
INVARIANTS
  WritesInBounds
  GuardedReadsSucceed
  RoundTrip
  ReadsWereSent
  CutsCostOne
CHECK_DEADLOCK FALSE
