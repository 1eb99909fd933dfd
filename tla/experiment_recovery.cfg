SPECIFICATION FairSpec
CONSTANTS
  Namespaces <- ClientAndServer
  AppServer = "app_server"
  Services = 2
  Kinds <- ConnectivityAroundValidation
  UpLeadsFlags = TRUE
  RoutesFree = TRUE
  MaxFaults = 3
CHECK_DEADLOCK FALSE
INVARIANTS TypeOK CleanupReleases ExperimentEnvironment UndisturbedRunSucceeds ReportsAreTrue OnlyInterruptLosesServer
PROPERTIES ImplementsLaboratory StoppedBeforeDeleted RunEnds ServersDisappear
