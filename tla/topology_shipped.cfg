SPECIFICATION FairSpec
CONSTANTS
  Host = "host"
  Proc = {"experiment"}
  Killable = {"experiment"}
  Script <- SoloScript
  Namespaces <- ShippedNamespaces
  Interfaces <- ShippedInterfaces
  Routes <- ShippedRoutes
  MaxFaults = 1
CHECK_DEADLOCK FALSE
INVARIANTS TypeOK BuildSucceeds
PROPERTIES Terminates
