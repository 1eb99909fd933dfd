SPECIFICATION Spec
CONSTANTS
  Deployers = {d1}
  Nodes <- ShippedNodes
  LabRoutes <- ShippedLabRoutes
  None = None
  MaxRebuilds = 0
  MaxFaults = 0
CHECK_DEADLOCK FALSE
INVARIANTS LoneDeploySucceeds
