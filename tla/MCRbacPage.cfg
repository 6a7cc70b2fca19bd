SPECIFICATION RbacSpec
CONSTANTS
  Namespaces <- NamespacesMC
  NameKey <- NameKeyMC
  AppKeys <- AppKeysMC
  Dns <- DnsMC
  MaxPairs = 10
  Controllers = {"ingress-nginx", "traefik"}
  SystemNamespaces = {"gw"}
  OptIn = "policy.sigstore.dev/include"
  Deprecated <- DeprecatedMC
  HorizonMinors = 2
  Clusters = {"A", "B"}
  Worlds <- WorldsMC
  SystemRoles = {"system:node"}
  Cut <- CutMC
  Asked <- AskedMC
  SlowSets <- SlowMC
  MaxActs = 3
INVARIANTS SavedAsFound NothingOverstated EvaluatorsAgree
CHECK_DEADLOCK FALSE
