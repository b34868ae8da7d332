---------------------------- MODULE MCDiscovery ----------------------------
(***************************************************************************)
(* Instances of Discovery for TLC: the scanners run on device h1 and the   *)
(* servers on device h2, unless SharedDevice places them.  Discovery ports *)
(* are 1 and 2, service ports 80 and 81.                                   *)
(***************************************************************************)
EXTENDS Discovery

CONSTANTS h1, h2, s1, s2, c1, c2

Devices == {h1, h2}

Placement == [p \in Procs |-> IF p \in Servers THEN h2 ELSE h1]

\* Scanner c2 runs on the device of server s1.
SharedDevice == [p \in Procs |-> IF p \in {s1, c2} THEN h2 ELSE h1]

OnePort == [p \in Procs |-> 1]
TwoPorts == [p \in Procs |-> IF p \in {s2, c2} THEN 2 ELSE 1]
SomeInvalidPorts == [p \in Procs |-> IF p \in {s2, c2} THEN 0 ELSE 1]

Services == [s \in Servers |-> IF s = s1 THEN 80 ELSE 81]

\* What a neighbor scan may return: nothing, or the other device.
AnyNeighbors == [h \in Hosts |-> {{}, Hosts \ {h}}]
AllNeighbors == [h \in Hosts |-> {Hosts \ {h}}]
NoNeighbors == [h \in Hosts |-> {{}}]

\* Multicast from device h1 gets to device h2 or does not.
FromScanners == {<<h1, h2>>}

Foreign(from, to, packet) ==
  [src |-> [host |-> from, port |-> 5], dst |-> [host |-> to, port |-> 1],
   via |-> "unicast", packet |-> packet]

\* A request whose collector never answers.
HangingRequest == {Foreign(h1, h2, Request(9))}

\* Packets to a server and to a scanner: of the wrong type, with a port out
\* of range, without payload, undecodable, blocking, and well-formed ones.
StrangePackets ==
  {Foreign(h1, h2, packet) :
      packet \in {Request(9), Request(70000), Announcement(7),
                  [type |-> "malformed", port |-> 0],
                  [type |-> "unread", port |-> 0]}}
    \cup
  {Foreign(h2, h1, packet) :
      packet \in {Announcement(90), Announcement(70000), Request(8),
                  [type |-> "empty", port |-> 0],
                  [type |-> "unread", port |-> 0]}}

StrangeResponses ==
  {[host |-> h2, port |-> port] : port \in {0, 82, 70000}}
    \cup
  {[host |-> host, port |-> 82] : host \in {"IPv4", "unavailable"}}

=============================================================================
