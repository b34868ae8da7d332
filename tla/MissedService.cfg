SPECIFICATION FairSpec
CONSTANTS
  h1 = h1
  h2 = h2
  s1 = s1
  s2 = s2
  c1 = c1
  c2 = c2
  Hosts <- Devices
  HostOf <- Placement
  EphemeralPort = 5
  Servers = {s1}
  Scanners = {c1}
  DiscoveryPort <- OnePort
  MulticastHosts = {h1, h2}
  MulticastLoop = FALSE
  MulticastLoss = {}
  NeighborScans <- AnyNeighbors
  ForeignDatagrams = {}
  ForeignResponses = {}
  Faults = {}
  MaxInjected = 0
  CollectorPorts = {100}
  ServicePort <- Services
PROPERTY EventuallyDiscovered
CHECK_DEADLOCK FALSE
