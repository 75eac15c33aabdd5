SPECIFICATION Spec
CONSTANTS
  Path = {"f", "s1", "s2", "a", "b", "o"}
  Scanned = {"f", "s1", "s2", "a", "b"}
  Inode = {1, 2, 3, 4}
  Media = {"film", "show"}
  Films = {"film"}
  Seasons = {1, 2}
  A = A
  B = B
  Torrent = {A, B}
  SizeOf <- Sizes
  ServiceOf <- Services
  Value <- Values
  Position <- Places
  Care = 50
  Capacity = 12
  Target = 50
  PassedOver = {}
  Layout <- Worlds
  Unattended = TRUE
  MaxQueue = 3
  MaxEvents = 1
PROPERTIES
  PressureIsRelieved
CHECK_DEADLOCK FALSE
