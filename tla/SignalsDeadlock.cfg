SPECIFICATION Spec
CONSTANTS
  Main = Main
  Caught = {SIGTERM}
CHECK_DEADLOCK FALSE
PROPERTIES
  CleansUpAndExits
