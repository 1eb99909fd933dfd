SPECIFICATION Spec
CONSTANTS
  Deployers = {d1, d2}
  Nodes <- FreeNodes
  LabRoutes <- ShippedLabRoutes
  None = None
  MaxRebuilds = 2
  MaxFaults = 1
CHECK_DEADLOCK FALSE
INVARIANTS DeployedConsistently ConfigFileOwned LoneDeploySucceeds NatOnce
