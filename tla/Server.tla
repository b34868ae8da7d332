-------------------------------- MODULE Server --------------------------------
(***************************************************************************)
(* `serve` (main/src/server.rs): announce the service once, then answer    *)
(* the requests of scanners until the receiving socket fails.              *)
(*                                                                         *)
(*   idle --Serve--> scanning --> multicasting --> unicasting --> serving  *)
(*                                                                         *)
(* Every `?` on the way, and an error of the receiving socket, ends in     *)
(* "stopped".  A serving server that receives a payload it cannot get past *)
(* is "stuck".  `calls` are the handler futures of try_for_each_concurrent: *)
(* a call waits for its connection (peer = {}) or has a SubmitResponse on  *)
(* its way to the collector of a scanner (peer = {c}).                     *)
(***************************************************************************)
EXTENDS Lan

CONSTANT ServicePort    \* the `service_port` argument of a server

ASSUME ServerAssumption == ServicePort \in [Servers -> U16]

VARIABLES
  srv,       \* control state of a server
  targets,   \* IP neighbors a server has still to announce itself to
  calls      \* handlers in progress

serverVars == <<srv, targets, calls>>

ServerStates ==
  {"idle", "scanning", "multicasting", "unicasting", "serving", "stuck",
   "stopped"}

Call == [server : Servers, to : SocketAddr, request : Datagram,
         peer : SUBSET Scanners]

ServerTypeOK ==
  /\ srv \in [Servers -> ServerStates]
  /\ targets \in [Servers -> SUBSET Hosts]
  /\ calls \subseteq Call

ServerInit ==
  /\ srv = [s \in Servers |-> "idle"]
  /\ targets = [s \in Servers |-> {}]
  /\ calls = {}

ServiceOf(s) == [host |-> HostOf[s], port |-> ServicePort[s]]

\* Mutation: the handlers in progress are detached instead of dropped.
Return_keeping_handlers(s) ==
  /\ srv' = [srv EXCEPT ![s] = "stopped"]
  /\ targets' = [targets EXCEPT ![s] = {}]
  /\ bound' = bound \ {s}
  /\ UNCHANGED <<calls, net, injected>>

\* `serve` returns (or its future is dropped): the socket is closed and the
\* handlers that wait for a connection are dropped with it.  A request that
\* has already been handed to a connection may still arrive.
Return(s) ==
  /\ srv' = [srv EXCEPT ![s] = "stopped"]
  /\ targets' = [targets EXCEPT ![s] = {}]
  /\ bound' = bound \ {s}
  /\ calls' = {k \in calls : k.server # s \/ k.peer # {}}
  /\ UNCHANGED <<net, injected>>

-----------------------------------------------------------------------------
\* serve is called; port 0 is refused before anything is sent.
Serve(s) ==
  /\ srv[s] = "idle"
  /\ \/ DiscoveryPort[s] = 0 /\ Return(s)
     \/ /\ DiscoveryPort[s] # 0
        /\ srv' = [srv EXCEPT ![s] = "scanning"]
        /\ UNCHANGED <<targets, calls, lanVars>>

\* announce: the neighbors are scanned first.
ScanForTargets(s) ==
  /\ srv[s] = "scanning"
  /\ \/ \E neighbors \in NeighborScans[HostOf[s]] :
          /\ targets' = [targets EXCEPT ![s] = neighbors]
          /\ srv' = [srv EXCEPT ![s] = "multicasting"]
          /\ UNCHANGED <<calls, lanVars>>
     \/ "neighbors" \in Faults /\ Return(s)

\* announce: then the announcement goes to the discovery address.
AnnounceByMulticast(s) ==
  /\ srv[s] = "multicasting"
  /\ \/ /\ send_multicast(s, Announcement(ServicePort[s]))
        /\ srv' = [srv EXCEPT ![s] = "unicasting"]
        /\ UNCHANGED <<targets, calls, bound, injected>>
     \/ send_multicast_fails(s) /\ Return(s)

\* announce_to_ip_neighbors: the sends run concurrently and the first error
\* cancels the ones that have not finished.
AnnounceByUnicast(s) ==
  /\ srv[s] = "unicasting"
  /\ \E host \in targets[s] :
       \/ /\ send_unicast(s, host, Announcement(ServicePort[s]))
          /\ targets' = [targets EXCEPT ![s] = @ \ {host}]
          /\ UNCHANGED <<srv, calls, bound, injected>>
       \/ "unicast" \in Faults /\ Return(s)

\* Mutation: the announcements are not waited for.
Listen_early(s) ==
  /\ srv[s] = "unicasting"
  /\ \/ /\ new_socket(s)
        /\ srv' = [srv EXCEPT ![s] = "serving"]
        /\ UNCHANGED <<targets, calls, net, injected>>
     \/ new_socket_fails(s) /\ Return(s)

\* serve_internal starts to receive only once the announcements are out.
Listen(s) ==
  /\ srv[s] = "unicasting"
  /\ targets[s] = {}
  /\ \/ /\ new_socket(s)
        /\ srv' = [srv EXCEPT ![s] = "serving"]
        /\ UNCHANGED <<targets, calls, net, injected>>
     \/ new_socket_fails(s) /\ Return(s)

-----------------------------------------------------------------------------
\* handle_packet up to its first await: the call that packet d starts, if any.
handle_packet(s, d) ==
  {[server |-> s, to |-> address, request |-> d, peer |-> {}] :
      address \in UNION {response_collector_of(packet, d.src) :
                            packet \in decode(d.packet)}}

\* Mutation: one handler at a time.
ReceivePacket_sequential(s, d) ==
  /\ srv[s] = "serving"
  /\ \A k \in calls : k.server # s
  /\ recv_from(s, d)
  /\ calls' = calls \cup handle_packet(s, d)
  /\ IF blocks(d.packet) THEN srv' = [srv EXCEPT ![s] = "stuck"]
                         ELSE UNCHANGED srv
  /\ UNCHANGED <<targets, bound>>

\* A packet is received; its handler runs beside the ones in progress.  One
\* that blocks the receiving stream blocks the handlers too, which the same
\* task polls.
ReceivePacket(s, d) ==
  /\ srv[s] = "serving"
  /\ recv_from(s, d)
  /\ calls' = calls \cup handle_packet(s, d)
  /\ IF blocks(d.packet) THEN srv' = [srv EXCEPT ![s] = "stuck"]
                         ELSE UNCHANGED srv
  /\ UNCHANGED <<targets, bound>>

\* An I/O error of the socket ends try_for_each_concurrent and `serve`.
ReceiveFails(s) ==
  /\ srv[s] = "serving"
  /\ "recv" \in Faults
  /\ Return(s)

\* The application gives up `serve` or its process is killed.
Stop(s) ==
  /\ srv[s] \notin {"idle", "stopped"}
  /\ "stop" \in Faults
  /\ Return(s)

\* GrpcResponseSender::send has connected to the collector of scanner c.
Connected(k, c) ==
  /\ k \in calls
  /\ k.peer = {}
  /\ calls' = (calls \ {k}) \cup {[k EXCEPT !.peer = {c}]}

\* The handler is done; an error is only logged.
Finished(k) ==
  /\ k \in calls
  /\ calls' = calls \ {k}

ServerNext ==
  \E s \in Servers :
    \/ Serve(s)
    \/ ScanForTargets(s)
    \/ AnnounceByMulticast(s)
    \/ AnnounceByUnicast(s)
    \/ Listen(s)
    \/ \E d \in net : ReceivePacket(s, d)
    \/ ReceiveFails(s)
    \/ Stop(s)

=============================================================================
