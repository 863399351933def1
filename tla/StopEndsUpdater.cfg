\* The node runs with the dynamic-IP option and the OpenDNS resolver, and
\* shuts down: does Stop end the updater goroutine?
CONSTANTS
  ip1 = ip1
  ip2 = ip2
  Enable = TRUE
  Resolver = "opendns"
  Addrs <- MCAddrs
  InitIP = ip1
  UpdateTimeout = 2
  MaxTime = 4
SPECIFICATION Spec
\* The process ends at the panic, and the clock is bounded.
CHECK_DEADLOCK FALSE
PROPERTIES StopEndsUpdater
