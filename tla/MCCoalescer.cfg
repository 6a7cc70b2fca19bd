SPECIFICATION Spec
CONSTANTS
  Keys = {k1, k2}
  Vals = {v1, v2}
  Absent = absent
  Pushers = {p1, p2}
  OutCap = 1
  MaxPushes = 3
INVARIANTS NoLostWakeup NothingLost
PROPERTIES ReplicaSpec Progresses
CHECK_DEADLOCK FALSE
