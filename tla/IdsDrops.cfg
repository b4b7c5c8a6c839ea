SPECIFICATION ReloadSpec
CONSTANTS
  Requesters = {g1}
  Bodies <- SomeBodies
  Settings <- FirstSettings
  Present = {"eth0", "eth1"}
  MaxRequests = 1
  MaxBoots = 1
  MaxFaults = 0
INVARIANT MonitoringDropsNothing
CHECK_DEADLOCK FALSE
