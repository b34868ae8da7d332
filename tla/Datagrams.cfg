SPECIFICATION FairSpec
CONSTANTS
  Packets = {"p", "q"}
  Hosts = {"a"}
  Ipv4Hosts = {"c"}
  Ipv4ShownAs = {"V4", "V6"}
  MaxSize = 2
  MaxDatagrams = 3
  Faults = {"bind", "recv"}
INVARIANTS TypeOK PacketsAreHandedOver
PROPERTY OnlyUnreadDatagramsBlock
CHECK_DEADLOCK FALSE
