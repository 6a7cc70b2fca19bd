SPECIFICATION Spec
CONSTANTS
  Clusters = {c1, c2}
  Hooks = {h1}
  None = None
  MaxVersion = 1
  MaxOpens = 2
  MaxIds = 2
  MaxEnds = 1
INVARIANTS SubsAgree LiveIsThisSocket
PROPERTIES Settles
CHECK_DEADLOCK FALSE
