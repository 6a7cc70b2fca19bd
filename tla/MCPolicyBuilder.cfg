SPECIFICATION BuilderSpec
CONSTANTS
  Clusters = {c1, c2}
  Namespaces <- NsLabels
  NameKey = "name"
  AppKeys <- AppFirst
  Dns <- KubeDns
  MaxPairs = 6
  Pods <- PodsMC
  Drafts <- DraftsMC
  Foreign <- ForeignMC
  Ports <- PortsMC
  MaxPolicies = 2
  MaxMade = 2
INVARIANTS PreviewedAndTried MatrixIsSound
SYMMETRY Sym
CHECK_DEADLOCK FALSE
