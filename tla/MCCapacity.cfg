SPECIFICATION CapacitySpec
CONSTANTS
  Nodes = {"a", "b", "c", "m"}
  Pods = {"web", "big", "mem", "solo", "ds", "bare"}
  Pdbs = {"db"}
  Workloads = {"solo", "db"}
  NodeOf <- NodeMC
  PodOf <- PodMC
  PdbOf <- PdbMC
  WorkloadOf <- WorkloadMC
  Order <- ListedMC
  ByName <- NamesMC
  RoleKeys = {"control-plane", "master"}
  NameField = "name"
  Number <- NumberMC
  Homes <- HomesMC
  Away = {"c"}
  NoNode = "none"
  Clusters = {1, 2}
  Resizable <- ResizableMC
  Kinds <- KindsMC
  Containers <- ContainersMC
  Vpa <- VpaMC
  Bytes <- BytesMC
  Used <- UsedMC
  Replicas <- ReplicasMC
  Sizes <- SizesMC
  MayScale <- MayScaleMC
  All = "all"
  CpuFloor = 50
  MemFloor = 67108864
  MaxCalls = 2
  MaxTicks = 1
INVARIANTS NeverOverfull TrialsLeaveNoTrace ChoicesStand
PROPERTIES OnlyRecommended
CHECK_DEADLOCK FALSE
