SPECIFICATION Spec
CONSTANTS
  Clusters = {c1}
  x = x
  Starts <- MCStarts
  Files = {f1}
  Configs = {x, y}
  Gone = gone
  Changes = {y, gone, broken}
  Broken = broken
  Users = {u1}
  Watcher = watcher
  Saver = saver
  Handler = handler
  MaxEdits = 2
  MaxPools = 2
INVARIANTS StreamsReachable CurrentOrRetiring
PROPERTIES Converges
CHECK_DEADLOCK FALSE
