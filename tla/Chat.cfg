SPECIFICATION ChatSpec
CONSTANTS
  NULL = NULL
  u1 = u1
  u2 = u2
  u3 = u3
  f1 = f1
  f2 = f2
  n1 = n1
  n2 = n2
  nx = nx
  p1 = p1
  p2 = p2
  r1 = r1
  r2 = r2
  rx = rx
  Users = {u1, u2, u3}
  Fds = {f1, f2}
  Names = {n1, n2, nx}
  LegalNames = {n1, n2}
  Passwords = {p1}
  RoomNames = {r1, r2}
  RefusedRooms = {}
  JOIN = JOIN
  ENTER = ENTER
  BACKSPACE = BACKSPACE
  Words = {JOIN, r1, r2}
  MAX_MESSAGE = 3
  Logins <- SafeLogins
  Bursts <- SafeBursts
  Fragile = {}
  UpSpace = 1
  DownSpace = 1
  MaxKeys = 6
SYMMETRY Symmetry
VIEW View
CHECK_DEADLOCK FALSE
INVARIANTS
  LinesAreTyped
  ClientTypeOK
  WindowFollowsRoom
  LoginTakesTurns
