SPECIFICATION FairSpec
CONSTANTS
  NULL = NULL
  Users = {u1, u2}
  Names = {n1, n2, nx}
  LegalNames = {n1, n2}
  Passwords = {p1, p2}
  RoomNames = {r1}
  RefusedRooms = {}
  Fds = {f1, f2}
INVARIANTS
  LoggedInHaveAccounts
PROPERTIES
  LoginIsPermanent
  NobodyStarves
