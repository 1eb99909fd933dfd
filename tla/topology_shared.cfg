SPECIFICATION Spec
CONSTANTS
  Host = "host"
  Proc = {"run1", "run2", "destroy"}
  Killable = {}
  Script <- LabScript
  Namespaces <- TwoNamespaces
  Interfaces <- TwoInterfaces
  Routes <- OneRoute
  MaxFaults = 0
CHECK_DEADLOCK FALSE
INVARIANTS BuildConforms TeardownClears HostLinkOwned CachedPairsExist
PROPERTIES ImplementsLaboratory
