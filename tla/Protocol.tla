------------------------------ MODULE Protocol ------------------------------
(***************************************************************************)
(* The wire protocol of tansa and the pure functions on it.                *)
(*                                                                         *)
(* A UDP datagram on the discovery port carries a Protocol Buffers         *)
(* `DiscoveryPacket`: a request (the port of the sender's response         *)
(* collector), an announcement (the port of the sender's service), or      *)
(* nothing ("empty": a packet whose `oneof` is not set).  Datagrams that   *)
(* do not decode are "malformed", and "unread" when the receiver does not  *)
(* even get past them (see PacketReceiver).  Ports travel as uint32, so a  *)
(* received port is any natural number; it becomes a u16 only through      *)
(* `try_into`.                                                             *)
(*                                                                         *)
(* A Rust Option is the set of its values: {} for None, {x} for Some(x).   *)
(***************************************************************************)
EXTENDS Naturals

U16 == 0 .. 65535

PacketTypes == {"request", "announcement", "empty", "malformed", "unread"}

Packet == [type : PacketTypes, port : Nat]

\* impl From<Request> for DiscoveryPacket
Request(port) == [type |-> "request", port |-> port]

\* impl From<Response> for DiscoveryPacket
Announcement(port) == [type |-> "announcement", port |-> port]

\* ProtobufDecoder and strip_protobuf_error: what the application gets to see
\* of a received payload.  What may be left of a malformed one is like another
\* datagram from its source.
decode(payload) ==
  IF payload.type \in {"malformed", "unread"} THEN {} ELSE {payload}

\* The decoder refuses the payload without reading any of it, and is given it
\* again at once: the poll of the receiving stream does not return.
blocks(payload) == payload.type = "unread"

unwrap_request(packet) ==
  IF packet.type = "request" THEN {packet.port} ELSE {}

unwrap_response(packet) ==
  IF packet.type = "announcement" THEN {packet.port} ELSE {}

\* SocketAddrV6::set_port.  A host stands for an IPv6 address with its scope.
set_port(address, port) == [host |-> address.host, port |-> port]

\* Mutation: the response goes to the socket that has sent the request.
get_response_collector_address_unchanged(packet_source_address, port) ==
  packet_source_address

get_response_collector_address(packet_source_address, port) ==
  set_port(packet_source_address, port)

\* Mutation: the type of the packet is not looked at.
extract_service_of_any(packet, address) ==
  {set_port(address, port) : port \in {packet.port} \cap U16}

\* Mutation: the service is said to be where the announcement was sent from.
extract_service_at_source(packet, address) ==
  {address : port \in unwrap_response(packet) \cap U16}

\* The service that an announcement from `address` describes; None if the
\* packet is no announcement or its port is out of the range of u16.
extract_service(packet, address) ==
  {set_port(address, port) : port \in unwrap_response(packet) \cap U16}

\* The response collector that a request from `address` asks to be called;
\* None if the packet is no request or its port is out of the range of u16.
response_collector_of(packet, address) ==
  {get_response_collector_address(address, port) :
      port \in unwrap_request(packet) \cap U16}

=============================================================================
