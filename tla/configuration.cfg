SPECIFICATION VpnSpec
CONSTANTS
  Host = "root"
  File <- ClientGatewayRouter
  NsNames = {"client", "gateway", "router", "server"}
  IfNames = {"c-eth0", "g-eth0", "r-eth0"}
  Subnets = {"192.168.1.0/24", "10.0.1.0/24"}
  VpnFile <- TunnelWithoutRoutes
  WgNames = {"wg0", "wg1", "c-eth0"}
  MaxRuns = 3
  MaxChanges = 2
CHECK_DEADLOCK FALSE
INVARIANTS AcceptedIsConsistent OnlyTheFile TunnelIsOfFile
PROPERTIES BuildDependsOnFile DeployDependsOnFiles
