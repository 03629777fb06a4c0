SPECIFICATION Spec
CONSTANTS
  NULL = NULL
  Users = {u1, u2, u3}
  Names = {n1, n2, nx}
  LegalNames = {n1, n2}
  Passwords = {p1}
  RoomNames = {r1, r2, rx}
  RefusedRooms = {rx}
  Fds = {f1, f2, f3}
SYMMETRY Symmetry
INVARIANTS
  TypeOK
  UsersPartition
  OneSessionPerName
  SnapshotStaysValid
  RoomsMatchSessions
  RoomEventsReachRoom
PROPERTIES
  RepliesReachSender
  ImplementsPresence
