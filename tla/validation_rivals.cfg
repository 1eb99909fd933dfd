SPECIFICATION Spec
CONSTANTS
  Host = "host"
  Namespaces <- ClientServer
  Client = "client"
  AppServer = "app_server"
  UpLeadsFlags = TRUE
  MaxChanges = 9
  MaxFaults = 1
CHECK_DEADLOCK FALSE
INVARIANTS PassMeansWhole WholePasses
