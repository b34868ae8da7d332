SPECIFICATION Spec
CONSTANTS
  wlan0 = wlan0
  eth0 = eth0
  linkLocal = linkLocal
  global = global
  multicast = multicast
  Interfaces = {wlan0, eth0}
  Addresses = {linkLocal, global, multicast}
  Kind <- Kinds1
  Entries <- AllRows
  MaxIndex = 3
  MaxChanges = 3
  Faults = {"command"}
INVARIANTS TypeOK TargetsAreNeighbors NoNeighborMissed
CHECK_DEADLOCK FALSE
