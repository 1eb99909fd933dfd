SPECIFICATION Spec
CONSTANTS
  Namespaces <- ClientAndServer
  AppServer = "app_server"
  Services = 2
  Kinds <- OneValidation
  UpLeadsFlags = TRUE
  RoutesFree = TRUE
  MaxFaults = 0
CHECK_DEADLOCK FALSE
INVARIANTS UndisturbedValidationCompletes
