SPECIFICATION Spec
CONSTANTS
  h1 = h1
  h2 = h2
  s1 = s1
  s2 = s2
  c1 = c1
  c2 = c2
  Hosts <- Devices
  HostOf <- Placement
  EphemeralPort = 5
  Servers = {s1, s2}
  Scanners = {c1, c2}
  DiscoveryPort <- SomeInvalidPorts
  MulticastHosts = {h1, h2}
  MulticastLoop = TRUE
  MulticastLoss = {}
  NeighborScans <- AnyNeighbors
  ForeignDatagrams <- StrangePackets
  ForeignResponses <- StrangeResponses
  Faults = {"bind", "multicast", "unicast", "neighbors", "recv", "accept", "connect", "loss", "duplicate", "stop"}
  MaxInjected = 1
  CollectorPorts = {100}
  ServicePort <- Services
INVARIANTS TypeOK NoPhantomService
PROPERTY StoppedServerIsSilent
CHECK_DEADLOCK FALSE
