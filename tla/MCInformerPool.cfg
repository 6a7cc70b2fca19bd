SPECIFICATION Spec
CONSTANTS
  Keys = {k1, k2}
  Subs = {s1}
  MaxEntries = 2
  MaxForbids = 1
INVARIANTS StoppedOnce NeverSilent
PROPERTIES WindsDown
CHECK_DEADLOCK FALSE
