SPECIFICATION RegistrySpec
CONSTANTS
  Main = Main
  Caught = {SIGINT, SIGTERM}
  Nodes = {1,2,3}
  NONE = NONE
  Sessions = {u1, u2}
  MaxOps = 3
CHECK_DEADLOCK FALSE
INVARIANTS
  ListKeepsPromise
  OneInside
  HandlerClosesAll
  EachOnce
PROPERTIES
  ExitsUnlessStuck
