SPECIFICATION Spec
CONSTANTS
  Namespaces <- ClientAndServer
  AppServer = "app_server"
  Services = 2
  Kinds <- ConnectivityThenValidation
  UpLeadsFlags = TRUE
  RoutesFree = TRUE
  MaxFaults = 1
CHECK_DEADLOCK FALSE
INVARIANTS SummaryIsTrue
