SPECIFICATION FairSpec
CONSTANTS
  Packets = {"p"}
  Hosts = {"a"}
  Ipv4Hosts = {}
  Ipv4ShownAs = {}
  MaxSize = 2
  MaxDatagrams = 2
  Faults = {}
PROPERTY NoDatagramIsStuck
CHECK_DEADLOCK FALSE
