SPECIFICATION Spec
CONSTANTS
  h1 = h1
  h2 = h2
  s1 = s1
  s2 = s2
  c1 = c1
  c2 = c2
  Hosts <- Devices
  HostOf <- Placement
  EphemeralPort = 5
  Servers = {s1, s2}
  Scanners = {c1, c2}
  DiscoveryPort <- TwoPorts
  MulticastHosts = {h1, h2}
  MulticastLoop = FALSE
  MulticastLoss = {}
  NeighborScans <- NoNeighbors
  ForeignDatagrams = {}
  ForeignResponses = {}
  Faults = {"stop"}
  MaxInjected = 0
  CollectorPorts = {100, 101}
  ServicePort <- Services
INVARIANT IsolatedUnlessPortReused
PROPERTIES ImplementsDirectory NoRequestIsLost MissedForGood
CHECK_DEADLOCK FALSE
