CONSTANTS
  here = here
  there = there
  key = key
  first = r1
  second = r2
  Requests = {r1, r2, r3}
  Clients = {key}
  Addresses = {here, there}
  Visits <- OneOfEach
  Services = {"redis", "postgres"}
  RateLimitRPM = 1
  AuthRPM = 1
  ClientRPMs = {1, 2}
  AdminConfigured = TRUE
  MetricsEnabled = TRUE
  TicksPerSecond = 2
  Window = 5
  MaxEdits = 1
  MaxTime = 6

SPECIFICATION Spec
CHECK_DEADLOCK FALSE

INVARIANTS
  TypeOK
  
  
  
  RevokedKeyStops
  


  
