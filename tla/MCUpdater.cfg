SPECIFICATION AppSpec
CONSTANTS
  r1 = r1
  r2 = r2
  r3 = r3
  r4 = r4
  c1 = c1
  c2 = c2
  u1 = u1
  u2 = u2
  Requests <- MCRequests
  Clusters <- MCClusters
  Asks <- MCAsks
  Local = local
  CoarseClock = FALSE
  MaxIds = 2
  Terminals = {t1}
  Timer = timer
  Commands = {check}
  OnServer <- MCOnServer
  InApp <- MCInApp
INVARIANTS StillStoppable OnlyTheirOwn UpdateKept
PROPERTIES ForwardsSettle HeldWorkBlocks
CHECK_DEADLOCK FALSE
