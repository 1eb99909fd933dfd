SPECIFICATION FairSpec
CONSTANTS
  Host = "host"
  Proc = {"d1", "d2", "d3"}
  Killable = {}
  Script <- DestroyScript
  Namespaces <- ThreeNamespaces
  Interfaces <- TwoInterfaces
  Routes <- OneRoute
  MaxFaults = 0
CHECK_DEADLOCK FALSE
INVARIANTS RacingTeardownsClear
PROPERTIES EventuallyCleared
