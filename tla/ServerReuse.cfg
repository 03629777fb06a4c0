SPECIFICATION Spec
CONSTANTS
  NULL = NULL
  Users = {u1, u2, u3}
  Names = {n1, n2}
  LegalNames = {n1, n2}
  Passwords = {p1}
  RoomNames = {r1}
  RefusedRooms = {}
  Fds = {f1, f2}
INVARIANTS
  RoomEventsStayInRoom
