SPECIFICATION FairSpec
CONSTANTS
  Keys = {k1, k2, k3}
  Values = {v1, v2}
  TTL = 2
  MaxEntries = 2
  Period = 2
  MaxTime = 5
  Miss = Miss
INVARIANTS
  TypeOK
  WithinCapacity
PROPERTIES
  IsExpiringMap
  ExpiredIsReclaimed
  StopEndsLoop
