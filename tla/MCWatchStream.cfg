SPECIFICATION Spec
CONSTANTS
  n1 = n1
  n2 = n2
  a = a
  Namespaces <- NamespacesMC
  Names <- NamesMC
  FanoutCap = 1
  MaxVersion = 3
  MaxReconnects = 1
INVARIANTS OneWholeSnapshot StaleOnlyWhereKnown
PROPERTIES SettlesOnTruth
CHECK_DEADLOCK FALSE
