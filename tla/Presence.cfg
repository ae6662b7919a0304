SPECIFICATION PFairSpec
CONSTANTS
  s1 = s1
  s2 = s2
  owner = owner
  bob = bob
  n1 = n1
  n2 = n2
  NoSocket = NoSocket
  Servers = {n1, n2}
  ServerOf <- MCServerOf
  Sockets = {s1, s2}
  Owner = owner
  Neighbours = {bob}
INVARIANTS
  WatchesOneFarm
  NewestStays
PROPERTY NewLoginEndsTheOld
CHECK_DEADLOCK FALSE
