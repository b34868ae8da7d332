--------------------------------- MODULE Lan ---------------------------------
(***************************************************************************)
(* The LAN that servers and scanners share: UDP datagrams in flight, the   *)
(* discovery sockets the operating systems have bound, and how             *)
(* main/src/network/udp_sender.rs and udp_receiver.rs use them.            *)
(*                                                                         *)
(* Datagrams in flight form a set: a process sends each datagram once, and *)
(* `via` keeps the multicast and the unicast copy for one host apart.      *)
(* They are delivered in any order; with the matching element of Faults    *)
(* they may also be lost or delivered twice.                               *)
(***************************************************************************)
EXTENDS Protocol

CONSTANTS
  Hosts,             \* devices of the LAN, each with one IPv6 address
  Servers,           \* processes that call `serve`
  Scanners,          \* processes that call `scan`
  HostOf,            \* the host a process runs on
  DiscoveryPort,     \* the `discovery_port` argument of a process
  EphemeralPort,     \* source port the system gives to a sending socket
  MulticastHosts,    \* hosts on which multicast sockets work
  MulticastLoop,     \* does the system loop multicast back to its own host?
  MulticastLoss,     \* hosts between which the LAN may lose multicast
  NeighborScans,     \* possible results of an IP neighbor scan on a host
  ForeignDatagrams,  \* what other programs may send to discovery ports
  Faults,            \* the failures the environment may cause
  MaxInjected        \* bound on foreign messages and on duplicates

Procs == Servers \cup Scanners

SocketAddr == [host : Hosts, port : U16]

Datagram == [src : SocketAddr, dst : SocketAddr,
             via : {"multicast", "unicast"}, packet : Packet]

FaultKinds == {"bind", "multicast", "unicast", "neighbors", "recv", "accept",
               "connect", "loss", "duplicate", "stop"}

ASSUME LanAssumption ==
  /\ Servers \cap Scanners = {}
  /\ HostOf \in [Procs -> Hosts]
  /\ DiscoveryPort \in [Procs -> U16]
  /\ EphemeralPort \in U16
  /\ MulticastHosts \subseteq Hosts
  /\ MulticastLoop \in BOOLEAN
  /\ MulticastLoss \subseteq Hosts \X Hosts
  /\ NeighborScans \in [Hosts -> SUBSET SUBSET Hosts]
  /\ ForeignDatagrams \subseteq Datagram
  /\ Faults \subseteq FaultKinds
  /\ MaxInjected \in Nat

VARIABLES
  net,        \* datagrams in flight
  bound,      \* processes that hold the UDP socket of their discovery port
  injected    \* number of foreign messages and duplicates so far

lanVars == <<net, bound, injected>>

LanTypeOK ==
  /\ net \subseteq Datagram
  /\ bound \subseteq Procs
  /\ injected \in 0 .. MaxInjected

LanInit ==
  /\ net = {}
  /\ bound = {}
  /\ injected = 0

-----------------------------------------------------------------------------
(***************************************************************************)
(* Sending (udp_sender.rs).                                                *)
(***************************************************************************)

\* Mutation: a fixed discovery port for every application.
sent_to_fixed_port(p, host, via, packet) ==
  [src    |-> [host |-> HostOf[p], port |-> EphemeralPort],
   dst    |-> [host |-> host, port |-> 1],
   via    |-> via,
   packet |-> packet]

\* A datagram from a fresh socket of p, bound to [::]:0, as it reaches `host`.
sent(p, host, via, packet) ==
  [src    |-> [host |-> HostOf[p], port |-> EphemeralPort],
   dst    |-> [host |-> host, port |-> DiscoveryPort[p]],
   via    |-> via,
   packet |-> packet]

\* A datagram to the discovery IP: one copy for every host it reaches.
Multicast(p, packet) ==
  {sent(p, host, "multicast", packet) :
      host \in {h \in Hosts : h # HostOf[p] \/ MulticastLoop}}

Unicast(p, host, packet) == {sent(p, host, "unicast", packet)}

\* send_multicast fails where multicast does not work (socket, join or send).
send_multicast(p, packet) ==
  /\ HostOf[p] \in MulticastHosts
  /\ net' = net \cup Multicast(p, packet)

send_multicast_fails(p) ==
  HostOf[p] \notin MulticastHosts \/ "multicast" \in Faults

send_unicast(p, host, packet) ==
  net' = net \cup Unicast(p, host, packet)

-----------------------------------------------------------------------------
(***************************************************************************)
(* Receiving (udp_receiver.rs).                                            *)
(***************************************************************************)

SameSocket(p, q) ==
  HostOf[p] = HostOf[q] /\ DiscoveryPort[p] = DiscoveryPort[q]

\* Mutation: the address is reused (SO_REUSEADDR).
new_socket_reused(p) ==
  /\ HostOf[p] \in MulticastHosts
  /\ bound' = bound \cup {p}

\* new_socket: bind to [::]:discovery_port without address reuse, then join
\* the multicast group.
new_socket(p) ==
  /\ \A q \in bound : ~SameSocket(p, q)
  /\ HostOf[p] \in MulticastHosts
  /\ bound' = bound \cup {p}

new_socket_fails(p) ==
  \/ \E q \in bound : SameSocket(p, q)
  \/ HostOf[p] \notin MulticastHosts
  \/ "bind" \in Faults

Receivers(address) ==
  {p \in bound : HostOf[p] = address.host /\ DiscoveryPort[p] = address.port}

\* The socket of p receives datagram d, which may be delivered once more.
recv_from(p, d) ==
  /\ d \in net
  /\ p \in Receivers(d.dst)
  /\ \/ /\ net' = net \ {d}
        /\ UNCHANGED injected
     \/ /\ "duplicate" \in Faults /\ injected < MaxInjected
        /\ injected' = injected + 1
        /\ UNCHANGED net

-----------------------------------------------------------------------------
(***************************************************************************)
(* What the network itself does.                                           *)
(***************************************************************************)

\* A datagram is lost on its way, or reaches a host with no socket for it.
Lose(d) ==
  /\ d \in net
  /\ \/ Receivers(d.dst) = {}
     \/ "loss" \in Faults
     \/ d.via = "multicast" /\ <<d.src.host, d.dst.host>> \in MulticastLoss
  /\ net' = net \ {d}
  /\ UNCHANGED <<bound, injected>>

\* Another program sends a datagram to a discovery port.
Inject(d) ==
  /\ injected < MaxInjected
  /\ injected' = injected + 1
  /\ net' = net \cup {d}
  /\ UNCHANGED bound

LanNext ==
  \/ \E d \in net : Lose(d)
  \/ \E d \in ForeignDatagrams : Inject(d)

=============================================================================
