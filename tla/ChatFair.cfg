SPECIFICATION FairChatSpec
CONSTANTS
  NULL = NULL
  u1 = u1
  u2 = u2
  u3 = u3
  f1 = f1
  f2 = f2
  n1 = n1
  n2 = n2
  nx = nx
  p1 = p1
  p2 = p2
  r1 = r1
  r2 = r2
  rx = rx
  Users = {u1, u2}
  Fds = {f1, f2}
  Names = {n1, n2, nx}
  LegalNames = {n1, n2}
  Passwords = {p1, p2}
  RoomNames = {r1, rx}
  RefusedRooms = {rx}
  JOIN = JOIN
  ENTER = ENTER
  BACKSPACE = BACKSPACE
  Words = {JOIN, r1, rx}
  MAX_MESSAGE = 3
  Logins <- LiveLogins
  Bursts <- LiveBursts
  Fragile = {u1}
  UpSpace = 1
  DownSpace = 1
  MaxKeys = 1
CHECK_DEADLOCK FALSE
PROPERTIES
  GetsIn
