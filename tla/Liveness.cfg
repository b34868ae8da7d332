SPECIFICATION FairSpec
CONSTANTS
  h1 = h1
  h2 = h2
  s1 = s1
  s2 = s2
  c1 = c1
  c2 = c2
  Hosts <- Devices
  HostOf <- SharedDevice
  EphemeralPort = 5
  Servers = {s1}
  Scanners = {c1, c2}
  DiscoveryPort <- OnePort
  MulticastHosts = {h1, h2}
  MulticastLoop = FALSE
  MulticastLoss <- FromScanners
  NeighborScans <- AllNeighbors
  ForeignDatagrams <- HangingRequest
  ForeignResponses = {}
  Faults = {"stop"}
  MaxInjected = 1
  CollectorPorts = {100}
  ServicePort <- Services
PROPERTIES LateServerIsDiscovered LateScannerDiscovers NeighborIsDiscovered NoAnnouncementIsLost NoRequestIsLost
CHECK_DEADLOCK FALSE
