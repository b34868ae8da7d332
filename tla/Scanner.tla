------------------------------- MODULE Scanner -------------------------------
(***************************************************************************)
(* `scan` (main/src/scanner.rs) and its response collector                 *)
(* (main/src/response_collector.rs).                                       *)
(*                                                                         *)
(* The stream that `scan` returns joins three sources, all driven by the   *)
(* consumer's polls:                                                       *)
(*   - send_requests, a future that sends the request once (`req`),        *)
(*   - receive_announcements, the discovery socket (`recv`),               *)
(*   - the collector: a gRPC server (`grpc`) that feeds a channel (`chan`).*)
(* An error of any of them is an item of the stream; the consumer then     *)
(* drops the stream (as the CLI does) or goes on polling.                  *)
(***************************************************************************)
EXTENDS Lan, Sequences

CONSTANTS
  CollectorPorts,     \* TCP ports the system hands out for [::]:0
  ForeignResponses    \* what other programs may submit to a collector

ASSUME ScannerAssumption ==
  /\ CollectorPorts \subseteq U16 \ {0}
  /\ ForeignResponses \subseteq [host : Hosts \cup {"IPv4", "unavailable"},
                                  port : Nat]

VARIABLES
  scn,             \* control state of the stream
  recv,            \* state of receive_announcements
  req,             \* state of send_requests
  pending,         \* IP neighbors the request has still to be sent to
  collectorPort,   \* port of the collector, 0 before there is one
  grpc,            \* state of the gRPC server
  chan,            \* responses accepted and not yet yielded
  discovered       \* services yielded to the consumer

scannerVars ==
  <<scn, recv, req, pending, collectorPort, grpc, chan, discovered>>

Service == SocketAddr

\* What submit_response accepts.
Response == [host : Hosts, port : U16 \ {0}]

ScannerTypeOK ==
  /\ scn \in [Scanners -> {"idle", "polling", "stuck", "ended", "dropped"}]
  /\ recv \in [Scanners -> {"unbound", "listening", "closed"}]
  /\ req \in [Scanners -> {"unsent", "scanning", "unicasting", "failed"}]
  /\ pending \in [Scanners -> SUBSET Hosts]
  /\ collectorPort \in [Scanners -> U16]
  /\ grpc \in [Scanners -> {"serving", "closed"}]
  /\ chan \in [Scanners -> Seq(Response)]
  /\ discovered \in [Scanners -> SUBSET Service]

ScannerInit ==
  /\ scn = [c \in Scanners |-> "idle"]
  /\ recv = [c \in Scanners |-> "unbound"]
  /\ req = [c \in Scanners |-> "unsent"]
  /\ pending = [c \in Scanners |-> {}]
  /\ collectorPort = [c \in Scanners |-> 0]
  /\ grpc = [c \in Scanners |-> "closed"]
  /\ chan = [c \in Scanners |-> <<>>]
  /\ discovered = [c \in Scanners |-> {}]

\* A collector of c accepts connections.
Collecting(c) == scn[c] = "polling" /\ grpc[c] = "serving"

\* The stream exists.  When its discovery socket gets a payload that it cannot
\* get past, it is "stuck" in a poll that does not return: its sockets are
\* open, the connections it has accepted have tasks of their own, and that is
\* all.
Open(c) == scn[c] \in {"polling", "stuck"}

\* The stream is over: "ended" by itself or "dropped" by the consumer.
\* Its sockets are closed and what is left in the channel is gone.
CloseStream(c, how) ==
  /\ scn' = [scn EXCEPT ![c] = how]
  /\ recv' = [recv EXCEPT ![c] = "closed"]
  /\ pending' = [pending EXCEPT ![c] = {}]
  /\ grpc' = [grpc EXCEPT ![c] = "closed"]
  /\ chan' = [chan EXCEPT ![c] = <<>>]
  /\ bound' = bound \ {c}
  /\ UNCHANGED <<req, collectorPort, discovered, net, injected>>

-----------------------------------------------------------------------------
\* GrpcResponseCollector::new: the system gives [::]:0 a TCP port that no
\* other collector of the host listens on at the moment.
new_collector(c, port) ==
  /\ \A other \in Scanners :
       grpc[other] = "serving" /\ HostOf[other] = HostOf[c]
         => collectorPort[other] # port
  /\ collectorPort' = [collectorPort EXCEPT ![c] = port]
  /\ grpc' = [grpc EXCEPT ![c] = "serving"]

\* The first poll of the stream: the collector is created, then scan_internal
\* refuses discovery port 0 (and drops the collector).
Scan(c) ==
  /\ scn[c] = "idle"
  /\ \/ /\ "bind" \in Faults \/ DiscoveryPort[c] = 0
        /\ CloseStream(c, "ended")
     \/ /\ DiscoveryPort[c] # 0
        /\ \E port \in CollectorPorts : new_collector(c, port)
        /\ scn' = [scn EXCEPT ![c] = "polling"]
        /\ UNCHANGED <<recv, req, pending, chan, discovered, lanVars>>

\* receive_announcements binds the discovery socket.
BindReceiver(c) ==
  /\ scn[c] = "polling"
  /\ recv[c] = "unbound"
  /\ \/ /\ new_socket(c)
        /\ recv' = [recv EXCEPT ![c] = "listening"]
        /\ UNCHANGED <<scn, req, pending, collectorPort, grpc, chan,
                       discovered, net, injected>>
     \/ /\ new_socket_fails(c)
        /\ \/ CloseStream(c, "dropped")
           \/ /\ recv' = [recv EXCEPT ![c] = "closed"]
              /\ UNCHANGED <<scn, req, pending, collectorPort, grpc, chan,
                             discovered, lanVars>>

-----------------------------------------------------------------------------
(***************************************************************************)
(* send_requests                                                           *)
(***************************************************************************)

\* send_requests returns an error: it stops where it is.
SendRequestsFails(c) ==
  \/ CloseStream(c, "dropped")
  \/ /\ req' = [req EXCEPT ![c] = "failed"]
     /\ pending' = [pending EXCEPT ![c] = {}]
     /\ UNCHANGED <<scn, recv, collectorPort, grpc, chan, discovered, lanVars>>

\* Mutation: the request is sent on every poll.
RequestByMulticast_repeated(c) ==
  /\ scn[c] = "polling"
  /\ recv[c] # "unbound" \/ grpc[c] = "closed"
  /\ \/ /\ send_multicast(c, Request(collectorPort[c]))
        /\ req' = [req EXCEPT ![c] = "scanning"]
        /\ UNCHANGED <<scn, recv, pending, collectorPort, grpc, chan,
                       discovered, bound, injected>>
     \/ send_multicast_fails(c) /\ SendRequestsFails(c)

\* The first poll of the joined streams reaches the discovery socket before
\* send_requests, unless the gRPC server fails in it.
RequestByMulticast(c) ==
  /\ scn[c] = "polling"
  /\ recv[c] # "unbound" \/ grpc[c] = "closed"
  /\ req[c] = "unsent"
  /\ \/ /\ send_multicast(c, Request(collectorPort[c]))
        /\ req' = [req EXCEPT ![c] = "scanning"]
        /\ UNCHANGED <<scn, recv, pending, collectorPort, grpc, chan,
                       discovered, bound, injected>>
     \/ send_multicast_fails(c) /\ SendRequestsFails(c)

\* Mutation: the neighbors are not used.
ScanForNeighbors_ignored(c) ==
  /\ scn[c] = "polling"
  /\ req[c] = "scanning"
  /\ req' = [req EXCEPT ![c] = "unicasting"]
  /\ UNCHANGED <<scn, recv, pending, collectorPort, grpc, chan, discovered,
                 lanVars>>

ScanForNeighbors(c) ==
  /\ scn[c] = "polling"
  /\ req[c] = "scanning"
  /\ \/ \E neighbors \in NeighborScans[HostOf[c]] :
          /\ req' = [req EXCEPT ![c] = "unicasting"]
          /\ pending' = [pending EXCEPT ![c] = neighbors]
          /\ UNCHANGED <<scn, recv, collectorPort, grpc, chan, discovered,
                         lanVars>>
     \/ "neighbors" \in Faults /\ SendRequestsFails(c)

RequestByUnicast(c) ==
  /\ scn[c] = "polling"
  /\ req[c] = "unicasting"
  /\ \E host \in pending[c] :
       \/ /\ send_unicast(c, host, Request(collectorPort[c]))
          /\ pending' = [pending EXCEPT ![c] = @ \ {host}]
          /\ UNCHANGED <<scn, recv, req, collectorPort, grpc, chan,
                         discovered, bound, injected>>
       \/ "unicast" \in Faults /\ SendRequestsFails(c)

-----------------------------------------------------------------------------
(***************************************************************************)
(* receive_announcements                                                   *)
(***************************************************************************)

\* A packet is received: an announcement becomes a service, the rest is
\* dropped, unless it blocks the stream.
ReceiveAnnouncement(c, d) ==
  /\ scn[c] = "polling"
  /\ recv[c] = "listening"
  /\ recv_from(c, d)
  /\ discovered' = [discovered EXCEPT ![c] =
       @ \cup UNION {extract_service(packet, d.src) :
                        packet \in decode(d.packet)}]
  /\ IF blocks(d.packet) THEN scn' = [scn EXCEPT ![c] = "stuck"]
                         ELSE UNCHANGED scn
  /\ UNCHANGED <<recv, req, pending, collectorPort, grpc, chan, bound>>

\* An I/O error of the discovery socket is an item of the stream; a consumer
\* that goes on finds the socket as it was.
ReceiveAnnouncementFails(c) ==
  /\ scn[c] = "polling"
  /\ recv[c] = "listening"
  /\ "recv" \in Faults
  /\ CloseStream(c, "dropped")

-----------------------------------------------------------------------------
(***************************************************************************)
(* The response collector                                                  *)
(***************************************************************************)

\* Mutation: the port is not checked.
submit_response_any_port(c, host, service_port) ==
  \/ /\ Open(c) /\ host \in Hosts
     /\ chan' = [chan EXCEPT ![c] =
          Append(@, set_port([host |-> host, port |-> 0], service_port))]
  \/ ~(Open(c) /\ host \in Hosts) /\ UNCHANGED chan

\* A response that submit_response accepts: with a port, from an IPv6 address.
Acceptable(host, service_port) ==
  service_port \in U16 \ {0} /\ host \in Hosts

\* SubmitResponse from `host` reaches the provider of c, whose channel is
\* gone when the stream is.
submit_response(c, host, service_port) ==
  \/ /\ Open(c) /\ Acceptable(host, service_port)
     /\ chan' = [chan EXCEPT ![c] =
          Append(@, set_port([host |-> host, port |-> 0], service_port))]
  \/ /\ ~Open(c) \/ ~Acceptable(host, service_port)
     /\ UNCHANGED chan

\* The channel's next response is yielded.
YieldResponse(c) ==
  /\ scn[c] = "polling"
  /\ chan[c] # <<>>
  /\ discovered' = [discovered EXCEPT ![c] = @ \cup {Head(chan[c])}]
  /\ chan' = [chan EXCEPT ![c] = Tail(@)]
  /\ UNCHANGED <<scn, recv, req, pending, collectorPort, grpc, lanVars>>

\* serve_with_incoming ends with an error: no more connections.
GrpcFails(c) ==
  /\ Collecting(c)
  /\ "accept" \in Faults
  /\ \/ CloseStream(c, "dropped")
     \/ /\ grpc' = [grpc EXCEPT ![c] = "closed"]
        /\ UNCHANGED <<scn, recv, req, pending, collectorPort, chan,
                       discovered, lanVars>>

\* Another program calls the collector.
ForeignSubmit(c, response) ==
  /\ Collecting(c)
  /\ injected < MaxInjected
  /\ injected' = injected + 1
  /\ submit_response(c, response.host, response.port)
  /\ UNCHANGED <<scn, recv, req, pending, collectorPort, grpc, discovered,
                 net, bound>>

-----------------------------------------------------------------------------
\* The consumer has seen enough or its process is killed, which is the only
\* way out of a poll that does not return.
DropStream(c) ==
  /\ Open(c)
  /\ "stop" \in Faults
  /\ CloseStream(c, "dropped")

\* The joined streams end when each of them has: only possible after errors.
\* `callers` says that some connection still holds the channel's sender.
EndOfStream(c, callers) ==
  /\ scn[c] = "polling"
  /\ recv[c] = "closed"
  /\ \/ req[c] = "failed"
     \/ req[c] = "unicasting" /\ pending[c] = {}
  /\ grpc[c] = "closed"
  /\ chan[c] = <<>>
  /\ ~callers
  /\ CloseStream(c, "ended")

ScannerNext ==
  \E c \in Scanners :
    \/ Scan(c)
    \/ BindReceiver(c)
    \/ RequestByMulticast(c)
    \/ ScanForNeighbors(c)
    \/ RequestByUnicast(c)
    \/ \E d \in net : ReceiveAnnouncement(c, d)
    \/ ReceiveAnnouncementFails(c)
    \/ YieldResponse(c)
    \/ GrpcFails(c)
    \/ \E response \in ForeignResponses : ForeignSubmit(c, response)
    \/ DropStream(c)

=============================================================================
