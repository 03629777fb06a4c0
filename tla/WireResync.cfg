SPECIFICATION Spec
CONSTANTS
  NULL = NULL
  WIDTH = 5
  STARTING_LENGTH = 8
  MAX_PACKET = 14
  Fields <- Marked
  Forms <- MCForms
  MaxFields = 2
  MaxPackets = 2
INVARIANTS
  ReadsWereSent
CHECK_DEADLOCK FALSE
