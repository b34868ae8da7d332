--------------------------- MODULE DiscoveryProofs ---------------------------
(***************************************************************************)
(* Proofs of the safety properties of Discovery, for every LAN, every set  *)
(* of servers and scanners, every assignment of ports and every set of     *)
(* faults and foreign messages.                                            *)
(***************************************************************************)
EXTENDS Discovery, TLAPS

-----------------------------------------------------------------------------
(***************************************************************************)
(* What the functions of Protocol and Lan return.                          *)
(***************************************************************************)

\* A handler exists only for a request; it calls the source of the datagram
\* at the port the request names (handle_packet in server.rs).
LEMMA HandlerOfRequest ==
  ASSUME NEW s \in Servers, NEW d \in Datagram, NEW k \in handle_packet(s, d)
  PROVE  /\ k \in Call
         /\ k.server = s
         /\ k.peer = {}
         /\ k.to.host = d.src.host
         /\ k.to.port = d.packet.port
         /\ d.packet.type = "request"
<1>1. PICK packet \in decode(d.packet) :
        \E address \in response_collector_of(packet, d.src) :
          k = [server |-> s, to |-> address, request |-> d, peer |-> {}]
  BY DEF handle_packet
<1>2. PICK address \in response_collector_of(packet, d.src) :
        k = [server |-> s, to |-> address, request |-> d, peer |-> {}]
  BY <1>1
<1>3. packet = d.packet
  BY DEF decode
<1>4. PICK port \in unwrap_request(packet) \cap U16 :
        address = set_port(d.src, port)
  BY <1>1 DEF response_collector_of, get_response_collector_address
<1>5. port = d.packet.port /\ d.packet.type = "request"
  BY <1>3, <1>4 DEF unwrap_request
<1>6. address \in SocketAddr /\ address.host = d.src.host
                             /\ address.port = port
  BY <1>4 DEF set_port, SocketAddr, Datagram
<1>7. QED
  BY <1>2, <1>5, <1>6 DEF Call

\* A reported service is the source of an announcement with the port that the
\* announcement names (extract_service in scanner.rs).
LEMMA ServiceOfAnnouncement ==
  ASSUME NEW d \in Datagram,
         NEW service \in UNION {extract_service(packet, d.src) :
                                   packet \in decode(d.packet)}
  PROVE  /\ service \in Service
         /\ service = [host |-> d.src.host, port |-> d.packet.port]
         /\ d.packet.type = "announcement"
<1>1. PICK packet \in decode(d.packet) :
        service \in extract_service(packet, d.src)
  OBVIOUS
<1>2. packet = d.packet
  BY DEF decode
<1>3. PICK port \in unwrap_response(packet) \cap U16 :
        service = set_port(d.src, port)
  BY <1>1 DEF extract_service
<1>4. port = d.packet.port /\ d.packet.type = "announcement"
  BY <1>2, <1>3 DEF unwrap_response
<1>5. QED
  BY <1>3, <1>4 DEF set_port, SocketAddr, Service, Datagram

\* What a process sends comes from its host and goes to its discovery port.
LEMMA SentDatagram ==
  ASSUME NEW p \in Procs, NEW packet \in Packet,
         NEW d, \/ d \in Multicast(p, packet)
                \/ \E host \in Hosts : d \in Unicast(p, host, packet)
  PROVE  /\ d \in Datagram
         /\ d.src = [host |-> HostOf[p], port |-> EphemeralPort]
         /\ d.dst.port = DiscoveryPort[p]
         /\ d.packet = packet
<1>1. PICK host \in Hosts, via \in {"multicast", "unicast"} :
        d = sent(p, host, via, packet)
  BY DEF Multicast, Unicast
<1>2. HostOf[p] \in Hosts /\ DiscoveryPort[p] \in U16 /\ EphemeralPort \in U16
  BY LanAssumption
<1>3. QED
  BY <1>1, <1>2 DEF sent, Datagram, SocketAddr

\* A u16 is a natural number.
LEMMA PortsAreNaturals == U16 \subseteq Nat
BY DEF U16

\* Every process has a host, a discovery port and, a server, a service port.
LEMMA HostsAndPorts ==
  /\ \A p \in Procs : HostOf[p] \in Hosts /\ DiscoveryPort[p] \in U16
  /\ \A s \in Servers : HostOf[s] \in Hosts /\ DiscoveryPort[s] \in U16
                        /\ ServicePort[s] \in U16
  /\ \A c \in Scanners : HostOf[c] \in Hosts /\ DiscoveryPort[c] \in U16
<1>1. \A p \in Procs : HostOf[p] \in Hosts /\ DiscoveryPort[p] \in U16
  BY LanAssumption
<1>2. \A s \in Servers : ServicePort[s] \in U16
  BY ServerAssumption
<1>3. QED
  BY <1>1, <1>2 DEF Procs

\* The announcement of a server is well-formed.
LEMMA OwnAnnouncement ==
  ASSUME NEW s \in Servers
  PROVE  Announcement(ServicePort[s]) \in Packet
<1>1. ServicePort[s] \in Nat
  BY ServerAssumption, PortsAreNaturals
<1>2. QED
  BY <1>1 DEF Announcement, Packet, PacketTypes

\* The request of a scanner is well-formed.
LEMMA OwnRequest ==
  ASSUME ScannerTypeOK, NEW c \in Scanners
  PROVE  Request(collectorPort[c]) \in Packet
<1>1. collectorPort[c] \in Nat
  BY PortsAreNaturals DEF ScannerTypeOK
<1>2. QED
  BY <1>1 DEF Request, Packet, PacketTypes

-----------------------------------------------------------------------------
(***************************************************************************)
(* Type correctness.                                                       *)
(***************************************************************************)

\* serve returns: state, neighbors, socket and handlers keep their types.
LEMMA ReturnType ==
  ASSUME TypeOK, NEW s \in Servers, Return(s), UNCHANGED scannerVars
  PROVE  TypeOK'
BY DEF TypeOK, LanTypeOK, ServerTypeOK, ScannerTypeOK, ServerStates, Return,
       scannerVars

\* The stream of a scanner ends: its parts keep their types.
LEMMA CloseStreamType ==
  ASSUME TypeOK, NEW c \in Scanners, NEW how \in {"ended", "dropped"},
         CloseStream(c, how), UNCHANGED serverVars
  PROVE  TypeOK'
BY DEF TypeOK, LanTypeOK, ServerTypeOK, ScannerTypeOK, CloseStream, serverVars

\* Sending adds datagrams.
LEMMA SendType ==
  ASSUME net \subseteq Datagram, NEW p \in Procs, NEW packet \in Packet,
         \/ send_multicast(p, packet)
         \/ \E host \in Hosts : send_unicast(p, host, packet)
  PROVE  net' \subseteq Datagram
BY SentDatagram DEF send_multicast, send_unicast

\* Receiving removes a datagram or counts a duplicate.
LEMMA ReceiveType ==
  ASSUME LanTypeOK, NEW p, NEW d, recv_from(p, d), UNCHANGED bound
  PROVE  LanTypeOK'
BY LanAssumption DEF LanTypeOK, recv_from

\* submit_response only accepts socket addresses with a port.
LEMMA SubmitType ==
  ASSUME ScannerTypeOK, NEW c \in Scanners, NEW host, NEW port,
         submit_response(c, host, port)
  PROVE  chan' \in [Scanners -> Seq(Response)]
<1>1. CASE UNCHANGED chan
  BY <1>1 DEF ScannerTypeOK
<1>2. CASE /\ Acceptable(host, port)
           /\ chan' = [chan EXCEPT ![c] =
                Append(@, set_port([host |-> host, port |-> 0], port))]
  <2>1. set_port([host |-> host, port |-> 0], port) \in Response
    BY <1>2 DEF set_port, Acceptable, Response
  <2>2. QED
    BY <1>2, <2>1 DEF ScannerTypeOK
<1>3. QED
  BY <1>1, <1>2 DEF submit_response

\* A response becomes a service when it is yielded.
LEMMA ResponsesAreServices == Response \subseteq Service
BY DEF Response, Service, SocketAddr

\* The network's own steps keep the types.
LEMMA LanType ==
  ASSUME TypeOK, LanNext, UNCHANGED <<serverVars, scannerVars>>
  PROVE  TypeOK'
<1>1. ServerTypeOK' /\ ScannerTypeOK'
  BY DEF TypeOK, ServerTypeOK, ScannerTypeOK, serverVars, scannerVars
<1>2. ASSUME NEW d \in net, Lose(d)
      PROVE  LanTypeOK'
  BY <1>2 DEF TypeOK, LanTypeOK, Lose
<1>3. ASSUME NEW d \in ForeignDatagrams, Inject(d)
      PROVE  LanTypeOK'
  BY <1>3, LanAssumption DEF TypeOK, LanTypeOK, Inject
<1>4. QED
  BY <1>1, <1>2, <1>3 DEF LanNext, TypeOK

\* So do the steps of a server (server.rs).
LEMMA ServerType ==
  ASSUME TypeOK, ServerNext, UNCHANGED scannerVars
  PROVE  TypeOK'
<1> USE DEF TypeOK, LanTypeOK, ServerTypeOK, ServerStates
<1>1. ScannerTypeOK'
  BY DEF ScannerTypeOK, scannerVars
<1>2. ASSUME NEW s \in Servers, Return(s)
      PROVE  TypeOK'
  BY <1>2, ReturnType
<1>3. ASSUME NEW s \in Servers, Serve(s)
      PROVE  TypeOK'
  BY <1>1, <1>2, <1>3 DEF Serve, lanVars
<1>4. ASSUME NEW s \in Servers, ScanForTargets(s)
      PROVE  TypeOK'
  BY <1>1, <1>2, <1>4, LanAssumption DEF ScanForTargets, lanVars, Procs
<1>5. ASSUME NEW s \in Servers, AnnounceByMulticast(s)
      PROVE  TypeOK'
  <2>1. Announcement(ServicePort[s]) \in Packet
    BY OwnAnnouncement
  <2>2. ASSUME send_multicast(s, Announcement(ServicePort[s]))
        PROVE  net' \subseteq Datagram
    BY <2>1, <2>2, SendType DEF Procs
  <2>3. QED
    BY <1>1, <1>2, <1>5, <2>2 DEF AnnounceByMulticast
<1>6. ASSUME NEW s \in Servers, AnnounceByUnicast(s)
      PROVE  TypeOK'
  <2>1. Announcement(ServicePort[s]) \in Packet
    BY OwnAnnouncement
  <2>2. ASSUME NEW host \in targets[s],
               send_unicast(s, host, Announcement(ServicePort[s]))
        PROVE  net' \subseteq Datagram
    BY <2>1, <2>2, SendType DEF Procs
  <2>3. QED
    BY <1>1, <1>2, <1>6, <2>2 DEF AnnounceByUnicast
<1>7. ASSUME NEW s \in Servers, Listen(s)
      PROVE  TypeOK'
  BY <1>1, <1>2, <1>7 DEF Listen, new_socket, Procs
<1>8. ASSUME NEW s \in Servers, NEW d \in net, ReceivePacket(s, d)
      PROVE  TypeOK'
  <2>1. LanTypeOK'
    BY <1>8, ReceiveType DEF ReceivePacket
  <2>2. calls' \subseteq Call
    BY <1>8, HandlerOfRequest DEF ReceivePacket
  <2>3. QED
    BY <1>1, <1>8, <2>1, <2>2 DEF ReceivePacket
<1>9. ASSUME NEW s \in Servers, ReceiveFails(s) \/ Stop(s)
      PROVE  TypeOK'
  BY <1>2, <1>9 DEF ReceiveFails, Stop
<1>10. QED
  BY <1>3, <1>4, <1>5, <1>6, <1>7, <1>8, <1>9 DEF ServerNext

\* So do the steps of a scanner (scanner.rs, response_collector.rs).
LEMMA ScannerType ==
  ASSUME TypeOK, ScannerNext, UNCHANGED serverVars
  PROVE  TypeOK'
<1> USE DEF TypeOK, LanTypeOK, ScannerTypeOK
<1>1. ServerTypeOK'
  BY DEF ServerTypeOK, serverVars
<1>2. ASSUME NEW c \in Scanners,
             CloseStream(c, "ended") \/ CloseStream(c, "dropped")
      PROVE  TypeOK'
  BY <1>2, CloseStreamType
<1>3. ASSUME NEW c \in Scanners, SendRequestsFails(c)
      PROVE  TypeOK'
  BY <1>1, <1>2, <1>3 DEF SendRequestsFails, lanVars
<1>4. ASSUME NEW c \in Scanners, Scan(c)
      PROVE  TypeOK'
  <2>1. ASSUME NEW port \in CollectorPorts,
               collectorPort' = [collectorPort EXCEPT ![c] = port]
        PROVE  collectorPort' \in [Scanners -> U16]
    BY <2>1, ScannerAssumption
  <2>2. QED
    BY <1>1, <1>2, <1>4, <2>1 DEF Scan, new_collector, lanVars
<1>5. ASSUME NEW c \in Scanners, BindReceiver(c)
      PROVE  TypeOK'
  BY <1>1, <1>2, <1>5 DEF BindReceiver, new_socket, lanVars, Procs
<1>6. ASSUME NEW c \in Scanners, RequestByMulticast(c)
      PROVE  TypeOK'
  <2>1. ASSUME send_multicast(c, Request(collectorPort[c]))
        PROVE  net' \subseteq Datagram
    BY <2>1, OwnRequest, SendType DEF Procs
  <2>2. QED
    BY <1>1, <1>3, <1>6, <2>1 DEF RequestByMulticast
<1>7. ASSUME NEW c \in Scanners, ScanForNeighbors(c)
      PROVE  TypeOK'
  <2>1. NeighborScans[HostOf[c]] \subseteq SUBSET Hosts
    BY HostsAndPorts, LanAssumption
  <2>2. QED
    BY <1>1, <1>3, <1>7, <2>1 DEF ScanForNeighbors, lanVars
<1>8. ASSUME NEW c \in Scanners, RequestByUnicast(c)
      PROVE  TypeOK'
  <2>1. ASSUME NEW host \in pending[c],
               send_unicast(c, host, Request(collectorPort[c]))
        PROVE  net' \subseteq Datagram
    BY <2>1, OwnRequest, SendType DEF Procs
  <2>2. QED
    BY <1>1, <1>3, <1>8, <2>1 DEF RequestByUnicast
<1>9. ASSUME NEW c \in Scanners, NEW d \in net, ReceiveAnnouncement(c, d)
      PROVE  TypeOK'
  <2>1. LanTypeOK'
    BY <1>9, ReceiveType DEF ReceiveAnnouncement
  <2>2. UNION {extract_service(packet, d.src) : packet \in decode(d.packet)}
          \subseteq Service
    BY ServiceOfAnnouncement
  <2>3. QED
    BY <1>1, <1>9, <2>1, <2>2 DEF ReceiveAnnouncement
<1>10. ASSUME NEW c \in Scanners, ReceiveAnnouncementFails(c) \/ DropStream(c)
       PROVE  TypeOK'
  BY <1>2, <1>10 DEF ReceiveAnnouncementFails, DropStream
<1>11. ASSUME NEW c \in Scanners, YieldResponse(c)
       PROVE  TypeOK'
  <2>1. chan[c] \in Seq(Response) /\ chan[c] # <<>>
    BY <1>11 DEF YieldResponse
  <2>2. Head(chan[c]) \in Service /\ Tail(chan[c]) \in Seq(Response)
    BY <2>1, ResponsesAreServices
  <2>3. QED
    BY <1>1, <1>11, <2>2 DEF YieldResponse, lanVars
<1>12. ASSUME NEW c \in Scanners, GrpcFails(c)
       PROVE  TypeOK'
  BY <1>1, <1>2, <1>12 DEF GrpcFails, lanVars
<1>13. ASSUME NEW c \in Scanners, NEW response \in ForeignResponses,
              ForeignSubmit(c, response)
       PROVE  TypeOK'
  <2>1. chan' \in [Scanners -> Seq(Response)]
    BY <1>13, SubmitType DEF ForeignSubmit
  <2>2. injected' \in 0 .. MaxInjected
    BY <1>13, LanAssumption DEF ForeignSubmit
  <2>3. QED
    BY <1>1, <1>13, <2>1, <2>2 DEF ForeignSubmit
<1>14. QED
  BY <1>4, <1>5, <1>6, <1>7, <1>8, <1>9, <1>10, <1>11, <1>12, <1>13
     DEF ScannerNext

\* The gRPC call of a handler.
LEMMA CallType ==
  ASSUME TypeOK, NEW k \in calls,
         CallFails(k) \/ \E c \in Scanners : Connect(k, c) \/ Submit(k, c)
  PROVE  TypeOK'
<1>1. k \in Call
  BY DEF TypeOK, ServerTypeOK
<1>2. ASSUME NEW c \in Scanners, Connect(k, c)
      PROVE  TypeOK'
  <2>1. [k EXCEPT !.peer = {c}] \in Call
    BY <1>1 DEF Call
  <2>2. QED
    BY <1>2, <2>1 DEF TypeOK, LanTypeOK, ServerTypeOK, ScannerTypeOK, Connect,
                      Connected, lanVars, scannerVars
<1>3. ASSUME NEW c \in Scanners, Submit(k, c)
      PROVE  TypeOK'
  <2>1. chan' \in [Scanners -> Seq(Response)]
    BY <1>3, SubmitType DEF Submit, TypeOK
  <2>2. QED
    BY <1>3, <2>1 DEF TypeOK, LanTypeOK, ServerTypeOK, ScannerTypeOK, Submit,
                      Finished, lanVars
<1>4. CASE CallFails(k)
  BY <1>4 DEF TypeOK, LanTypeOK, ServerTypeOK, ScannerTypeOK, CallFails,
              Finished, lanVars, scannerVars
<1>5. QED
  BY <1>2, <1>3, <1>4

\* So does every step.
LEMMA TypeStep ==
  ASSUME TypeOK, [Next]_vars
  PROVE  TypeOK'
<1>1. CASE UNCHANGED vars
  BY <1>1 DEF TypeOK, LanTypeOK, ServerTypeOK, ScannerTypeOK, vars, lanVars,
              serverVars, scannerVars
<1>2. ASSUME NEW c \in Scanners, End(c)
      PROVE  TypeOK'
  BY <1>2, CloseStreamType DEF End, EndOfStream
<1>3. QED
  BY <1>1, <1>2, LanType, ServerType, ScannerType, CallType DEF Next

\* The initial state is type-correct.
LEMMA TypeInit == Init => TypeOK
<1> SUFFICES ASSUME Init PROVE TypeOK
  OBVIOUS
<1>1. LanTypeOK
  BY LanAssumption DEF Init, LanInit, LanTypeOK
<1>2. ServerTypeOK
  BY DEF Init, ServerInit, ServerTypeOK, ServerStates
<1>3. ScannerTypeOK
  <2>1. collectorPort \in [Scanners -> U16]
    BY DEF Init, ScannerInit, U16
  <2>2. chan \in [Scanners -> Seq(Response)]
    BY DEF Init, ScannerInit
  <2>3. QED
    BY <2>1, <2>2 DEF Init, ScannerInit, ScannerTypeOK
<1>4. QED
  BY <1>1, <1>2, <1>3 DEF TypeOK

\* Whatever the LAN, the faults and the foreign messages, servers and scanners
\* only ever hold the control states, addresses, datagrams and calls their code
\* can produce: every accepted or reported service is a socket address with a
\* u16 port.
THEOREM TypeCorrect == Spec => []TypeOK
BY TypeInit, TypeStep, PTL DEF Spec

-----------------------------------------------------------------------------
(***************************************************************************)
(* A server never becomes idle again and a collector keeps its port, so    *)
(* what is known of the origin of a datagram, a call or a report stays     *)
(* true.                                                                   *)
(***************************************************************************)

Monotone ==
  /\ \A s \in Servers : srv[s] # "idle" => srv'[s] # "idle"
  /\ \A c \in Scanners :
       collectorPort[c] # 0 => collectorPort'[c] = collectorPort[c]

\* No step makes a server idle or changes the port of a collector.
LEMMA MonotoneStep ==
  ASSUME TypeOK, ControlInv, [Next]_vars
  PROVE  Monotone
<1>1. CASE UNCHANGED <<srv, collectorPort>>
  BY <1>1 DEF Monotone
<1>2. CASE ServerNext /\ UNCHANGED scannerVars
  <2>1. \E s \in Servers, state \in ServerStates \ {"idle"} :
          srv' = [srv EXCEPT ![s] = state] \/ srv' = srv
    BY <1>2 DEF ServerNext, Serve, ScanForTargets, AnnounceByMulticast,
                AnnounceByUnicast, Listen, ReceivePacket, ReceiveFails, Stop,
                Return, ServerStates
  <2>2. QED
    BY <1>2, <2>1 DEF Monotone, TypeOK, ServerTypeOK, scannerVars
<1>3. ASSUME NEW c \in Scanners, Scan(c), UNCHANGED serverVars
      PROVE  Monotone
  BY <1>3 DEF Monotone, Scan, new_collector, CloseStream, ControlInv,
              ScannerControl, TypeOK, ScannerTypeOK, serverVars
<1>4. CASE ScannerNext /\ UNCHANGED serverVars
  BY <1>1, <1>3, <1>4
     DEF ScannerNext, BindReceiver, RequestByMulticast, ScanForNeighbors,
         RequestByUnicast, ReceiveAnnouncement, ReceiveAnnouncementFails,
         YieldResponse, GrpcFails, ForeignSubmit, DropStream, CloseStream,
         SendRequestsFails, serverVars
<1>5. QED
  BY <1>1, <1>2, <1>4
     DEF Next, vars, serverVars, scannerVars, Connect, Submit, CallFails, End,
         EndOfStream, CloseStream

\* An announcement remains one of its server,
LEMMA FromServerStable ==
  ASSUME Monotone, NEW s \in Servers, NEW d, FromServer(d, s)
  PROVE  FromServer(d, s)'
BY DEF Monotone, FromServer

\* a request one of its scanner,
LEMMA FromScannerStable ==
  ASSUME Monotone, NEW c \in Scanners, NEW d, FromScanner(d, c)
  PROVE  FromScanner(d, c)'
BY DEF Monotone, FromScanner

\* and a call one to the collector it was meant for.
LEMMA CallsCollectorOfStable ==
  ASSUME Monotone, NEW c \in Scanners, NEW k, CallsCollectorOf(k, c)
  PROVE  CallsCollectorOf(k, c)'
BY DEF Monotone, CallsCollectorOf

\* A scanner whose port is its own now had it for itself before.
LEMMA OwnsCollectorPortBefore ==
  ASSUME Monotone, TypeOK, NEW c \in Scanners, collectorPort[c] # 0,
         OwnsCollectorPort(c)'
  PROVE  OwnsCollectorPort(c)
BY DEF Monotone, OwnsCollectorPort

\* The collector port of a scanner has been used for what it was used for.
LEMMA ScannedWithPortOfGrows ==
  ASSUME Monotone, NEW c \in Scanners, collectorPort[c] # 0
  PROVE  ScannedWithPortOf(c) \subseteq ScannedWithPortOf(c)'
BY DEF Monotone, ScannedWithPortOf

\* A report that is justified remains so.
LEMMA JustifiedStable ==
  ASSUME Monotone, TypeOK, NEW c \in Scanners, collectorPort[c] # 0,
         NEW service, Justified(c, service)
  PROVE  Justified(c, service)'
<1>1. ASSUME NEW s \in Servers, NEW port, Publishes(s, service, port)
      PROVE  Publishes(s, service, port)'
  BY <1>1 DEF Publishes, ServiceOf, Monotone
<1>2. QED
  BY <1>1, ScannedWithPortOfGrows DEF Justified, ForeignServices

-----------------------------------------------------------------------------
(***************************************************************************)
(* Where the datagrams come from.                                          *)
(***************************************************************************)

\* announce sends only announcements of the server's own service.
LEMMA AnnouncementFromServer ==
  ASSUME NEW s \in Servers, srv'[s] # "idle", DiscoveryPort[s] # 0,
         \/ send_multicast(s, Announcement(ServicePort[s]))
         \/ \E host \in Hosts :
              send_unicast(s, host, Announcement(ServicePort[s])),
         NEW d \in net' \ net
  PROVE  FromServer(d, s)'
<1>1. Announcement(ServicePort[s]) \in Packet /\ s \in Procs
  BY OwnAnnouncement DEF Procs
<1>2. \/ d \in Multicast(s, Announcement(ServicePort[s]))
      \/ \E host \in Hosts :
           d \in Unicast(s, host, Announcement(ServicePort[s]))
  BY DEF send_multicast, send_unicast
<1>3. QED
  BY <1>1, <1>2, SentDatagram DEF FromServer

\* send_requests sends only requests that name the scanner's own collector.
LEMMA RequestFromScanner ==
  ASSUME ScannerTypeOK, NEW c \in Scanners, collectorPort[c] # 0,
         UNCHANGED collectorPort,
         \/ send_multicast(c, Request(collectorPort[c]))
         \/ \E host \in Hosts :
              send_unicast(c, host, Request(collectorPort[c])),
         NEW d \in net' \ net
  PROVE  FromScanner(d, c)'
<1>1. Request(collectorPort[c]) \in Packet /\ c \in Procs
  BY OwnRequest DEF Procs
<1>2. \/ d \in Multicast(c, Request(collectorPort[c]))
      \/ \E host \in Hosts : d \in Unicast(c, host, Request(collectorPort[c]))
  BY DEF send_multicast, send_unicast
<1>3. QED
  BY <1>1, <1>2, SentDatagram DEF FromScanner

\* Every datagram in flight keeps a known origin.
LEMMA DatagramStep ==
  ASSUME TypeOK, ControlInv, DatagramInv, [Next]_vars
  PROVE  DatagramInv'
<1>1. Monotone
  BY MonotoneStep
<1>2. \A d \in net : \/ d \in ForeignDatagrams
                     \/ \E s \in Servers : FromServer(d, s)'
                     \/ \E c \in Scanners : FromScanner(d, c)'
  BY <1>1, FromServerStable, FromScannerStable DEF DatagramInv
<1>3. CASE net' \subseteq net
  BY <1>2, <1>3 DEF DatagramInv
<1>4. CASE LanNext
  BY <1>2, <1>4 DEF DatagramInv, LanNext, Lose, Inject
<1>5. ASSUME NEW s \in Servers, UNCHANGED scannerVars,
             AnnounceByMulticast(s) \/ AnnounceByUnicast(s)
      PROVE  DatagramInv'
  <2>1. DiscoveryPort[s] # 0 /\ srv[s] # "idle" /\ srv'[s] # "idle"
    BY <1>1, <1>5 DEF ControlInv, ServerControl, Monotone, AnnounceByMulticast,
                      AnnounceByUnicast
  <2>2. targets[s] \subseteq Hosts
    BY DEF TypeOK, ServerTypeOK
  <2>3. \/ net' \subseteq net
        \/ send_multicast(s, Announcement(ServicePort[s]))
        \/ \E host \in Hosts :
             send_unicast(s, host, Announcement(ServicePort[s]))
    BY <1>5, <2>2 DEF AnnounceByMulticast, AnnounceByUnicast, Return
  <2>4. QED
    BY <1>2, <1>3, <2>1, <2>3, AnnouncementFromServer DEF DatagramInv
<1>6. CASE ServerNext /\ UNCHANGED scannerVars
  BY <1>3, <1>5, <1>6
     DEF ServerNext, Serve, ScanForTargets, Listen, ReceivePacket, recv_from,
         ReceiveFails, Stop, Return, lanVars
<1>7. ASSUME NEW c \in Scanners, RequestByMulticast(c) \/ RequestByUnicast(c)
      PROVE  DatagramInv'
  <2>1. collectorPort[c] # 0 /\ UNCHANGED collectorPort
    BY <1>7 DEF ControlInv, ScannerControl, Open, RequestByMulticast,
                RequestByUnicast, SendRequestsFails, CloseStream
  <2>2. pending[c] \subseteq Hosts /\ ScannerTypeOK
    BY DEF TypeOK, ScannerTypeOK
  <2>3. \/ net' \subseteq net
        \/ send_multicast(c, Request(collectorPort[c]))
        \/ \E host \in Hosts : send_unicast(c, host, Request(collectorPort[c]))
    BY <1>7, <2>2 DEF RequestByMulticast, RequestByUnicast, SendRequestsFails,
                      CloseStream, lanVars
  <2>4. QED
    BY <1>2, <1>3, <2>1, <2>2, <2>3, RequestFromScanner DEF DatagramInv
<1>8. CASE ScannerNext
  BY <1>3, <1>7, <1>8
     DEF ScannerNext, Scan, BindReceiver, ScanForNeighbors,
         ReceiveAnnouncement, recv_from, ReceiveAnnouncementFails,
         YieldResponse, GrpcFails, ForeignSubmit, DropStream, CloseStream,
         SendRequestsFails, lanVars
<1>9. QED
  BY <1>3, <1>4, <1>6, <1>8
     DEF Next, vars, lanVars, Connect, Submit, CallFails, End, EndOfStream,
         CloseStream

-----------------------------------------------------------------------------
(***************************************************************************)
(* Who holds a socket, a port and a channel.                               *)
(***************************************************************************)

\* A stream that is over has an empty channel.
LEMMA CloseStreamControl ==
  ASSUME TypeOK, ControlInv, NEW c \in Scanners,
         NEW how \in {"ended", "dropped"}, CloseStream(c, how),
         UNCHANGED serverVars
  PROVE  ControlInv'
BY LanAssumption
   DEF TypeOK, ScannerTypeOK, ControlInv, ServerControl, ScannerControl,
       Open, CloseStream, serverVars

\* A server holds its socket only while it serves.
LEMMA ServerControlStep ==
  ASSUME TypeOK, ControlInv, ServerNext, UNCHANGED scannerVars
  PROVE  ControlInv'
<1>1. \A c \in Scanners : ScannerControl(c)'
  BY DEF ControlInv, ScannerControl, Open, scannerVars
<1>2. ASSUME NEW s \in Servers,
             \/ Serve(s) \/ ScanForTargets(s) \/ AnnounceByMulticast(s)
             \/ AnnounceByUnicast(s) \/ Listen(s) \/ ReceiveFails(s) \/ Stop(s)
             \/ \E d \in net : ReceivePacket(s, d)
      PROVE  \A r \in Servers : ServerControl(r)'
  BY <1>2 DEF ControlInv, ServerControl, TypeOK, ServerTypeOK, Serve,
              ScanForTargets, AnnounceByMulticast, AnnounceByUnicast, Listen,
              new_socket, ReceiveFails, Stop, ReceivePacket, Return, lanVars
<1>3. QED
  BY <1>1, <1>2 DEF ServerNext, ControlInv

\* A scanner has a collector port while it polls, and accepts nothing later.
LEMMA ScannerControlStep ==
  ASSUME TypeOK, ControlInv, ScannerNext, UNCHANGED serverVars
  PROVE  ControlInv'
<1> USE DEF ControlInv, TypeOK, ScannerTypeOK, Open
<1>1. ASSUME bound' \cap Servers \subseteq bound
      PROVE  \A s \in Servers : ServerControl(s)'
  BY <1>1 DEF ServerControl, serverVars
<1>2. ASSUME NEW c \in Scanners,
             CloseStream(c, "ended") \/ CloseStream(c, "dropped")
      PROVE  ControlInv'
  BY <1>2, CloseStreamControl
<1>3. ASSUME NEW c \in Scanners, SendRequestsFails(c)
      PROVE  ControlInv'
  BY <1>1, <1>2, <1>3 DEF SendRequestsFails, ScannerControl, lanVars
<1>4. ASSUME NEW c \in Scanners, Scan(c)
      PROVE  ControlInv'
  <2>1. 0 \notin CollectorPorts
    BY ScannerAssumption
  <2>2. QED
    BY <1>1, <1>2, <1>4, <2>1 DEF Scan, new_collector, ScannerControl, lanVars
<1>5. ASSUME NEW c \in Scanners, BindReceiver(c)
      PROVE  ControlInv'
  <2>1. c \notin Servers
    BY LanAssumption
  <2>2. QED
    BY <1>1, <1>2, <1>5, <2>1
       DEF BindReceiver, new_socket, ScannerControl, lanVars
<1>6. ASSUME NEW c \in Scanners,
             RequestByMulticast(c) \/ ScanForNeighbors(c) \/ RequestByUnicast(c)
      PROVE  ControlInv'
  BY <1>1, <1>3, <1>6 DEF RequestByMulticast, ScanForNeighbors,
                          RequestByUnicast, ScannerControl, lanVars
<1>7. ASSUME NEW c \in Scanners, NEW d \in net, ReceiveAnnouncement(c, d)
      PROVE  ControlInv'
  BY <1>1, <1>7 DEF ReceiveAnnouncement, ScannerControl
<1>8. ASSUME NEW c \in Scanners, ReceiveAnnouncementFails(c) \/ DropStream(c)
      PROVE  ControlInv'
  BY <1>2, <1>8 DEF ReceiveAnnouncementFails, DropStream
<1>9. ASSUME NEW c \in Scanners, YieldResponse(c)
      PROVE  ControlInv'
  BY <1>1, <1>9 DEF YieldResponse, ScannerControl, lanVars
<1>10. ASSUME NEW c \in Scanners, GrpcFails(c)
       PROVE  ControlInv'
  BY <1>1, <1>2, <1>10 DEF GrpcFails, Collecting, ScannerControl, lanVars
<1>11. ASSUME NEW c \in Scanners, NEW response \in ForeignResponses,
              ForeignSubmit(c, response)
       PROVE  ControlInv'
  BY <1>1, <1>11
     DEF ForeignSubmit, submit_response, Collecting, ScannerControl
<1>12. QED
  BY <1>4, <1>5, <1>6, <1>7, <1>8, <1>9, <1>10, <1>11 DEF ScannerNext

\* Every step keeps the relations between control states and resources.
LEMMA ControlStep ==
  ASSUME TypeOK, ControlInv, [Next]_vars
  PROVE  ControlInv'
<1>1. CASE UNCHANGED <<bound, srv, scannerVars>>
  BY <1>1 DEF ControlInv, ServerControl, ScannerControl, Open, scannerVars
<1>2. ASSUME NEW k \in calls, NEW c \in Scanners, Submit(k, c)
      PROVE  ControlInv'
  BY <1>2 DEF Submit, submit_response, ControlInv, ServerControl,
              ScannerControl, Open, TypeOK, ScannerTypeOK, lanVars
<1>3. ASSUME NEW c \in Scanners, End(c)
      PROVE  ControlInv'
  BY <1>3, CloseStreamControl DEF End, EndOfStream
<1>4. QED
  BY <1>1, <1>2, <1>3, ServerControlStep, ScannerControlStep
     DEF Next, LanNext, Lose, Inject, Connect, CallFails, vars, lanVars,
         serverVars

-----------------------------------------------------------------------------
(***************************************************************************)
(* Whom the handlers call, and why.                                        *)
(***************************************************************************)

\* A call that was asked for remains so.
LEMMA CallOriginStable ==
  ASSUME Monotone, TypeOK, NEW k \in calls, CallOrigin(k)
  PROVE  CallOrigin(k)'
<1>1. k.server \in Servers /\ k.peer \subseteq Scanners
  BY DEF TypeOK, ServerTypeOK, Call
<1>2. AskedByForeigner(k) => AskedByForeigner(k)'
  BY DEF AskedByForeigner
<1>3. QED
  BY <1>1, <1>2, CallsCollectorOfStable DEF CallOrigin, Monotone

\* A request on the LAN comes from a scanner of the same application or from
\* another program.
LEMMA NewCallOrigin ==
  ASSUME TypeOK, ControlInv, DatagramInv, NEW s \in Servers, NEW d \in net,
         srv[s] = "serving", s \in Receivers(d.dst),
         NEW k \in handle_packet(s, d)
  PROVE  CallOrigin(k)
<1>1. d \in Datagram
  BY DEF TypeOK, LanTypeOK
<1>2. /\ k.server = s
      /\ k.peer = {}
      /\ k.to.host = d.src.host
      /\ k.to.port = d.packet.port
      /\ d.packet.type = "request"
  BY <1>1, HandlerOfRequest
<1>3. DiscoveryPort[s] # 0 /\ DiscoveryPort[s] = d.dst.port
  BY DEF ControlInv, ServerControl, Receivers
<1>4. CASE d \in ForeignDatagrams
  BY <1>2, <1>3, <1>4 DEF CallOrigin, AskedByForeigner
<1>5. CASE \E r \in Servers : FromServer(d, r)
  BY <1>2, <1>5 DEF FromServer, Announcement
<1>6. ASSUME NEW c \in Scanners, FromScanner(d, c)
      PROVE  CallOrigin(k)
  <2>1. d.packet.port = collectorPort[c]
    BY <1>6 DEF FromScanner, Request
  <2>2. QED
    BY <1>2, <1>3, <1>6, <2>1 DEF FromScanner, CallOrigin, CallsCollectorOf
<1>7. QED
  BY <1>4, <1>5, <1>6 DEF DatagramInv

\* Every handler keeps a known origin, and none that waits outlives its server.
LEMMA CallStep ==
  ASSUME TypeOK, ControlInv, DatagramInv, CallInv, [Next]_vars
  PROVE  CallInv'
<1>1. Monotone
  BY MonotoneStep
<1>2. \A k \in calls : k.server \in Servers /\ CallOrigin(k)'
  BY <1>1, CallOriginStable DEF CallInv, TypeOK, ServerTypeOK, Call
<1>3. CASE calls' \subseteq calls /\ UNCHANGED srv
  BY <1>2, <1>3 DEF CallInv
<1>4. ASSUME NEW s \in Servers, Return(s)
      PROVE  CallInv'
  BY <1>2, <1>4 DEF CallInv, Return, TypeOK, ServerTypeOK
<1>5. ASSUME NEW s \in Servers, UNCHANGED calls,
             srv[s] \notin {"serving", "stuck"},
             \E state \in ServerStates : srv' = [srv EXCEPT ![s] = state]
      PROVE  CallInv'
  BY <1>2, <1>5 DEF CallInv, TypeOK, ServerTypeOK
<1>6. ASSUME NEW s \in Servers, NEW d \in net, ReceivePacket(s, d)
      PROVE  CallInv'
  <2>1. d \in Datagram
    BY DEF TypeOK, LanTypeOK
  <2>2. /\ srv[s] = "serving" /\ s \in Receivers(d.dst)
        /\ srv' \in {srv, [srv EXCEPT ![s] = "stuck"]}
    BY <1>6 DEF ReceivePacket, recv_from
  <2>3. ASSUME NEW k \in handle_packet(s, d)
        PROVE  CallOrigin(k)' /\ srv'[k.server] \in {"serving", "stuck"}
    <3>1. k \in Call /\ k.server = s /\ k.peer = {}
      BY <2>1, HandlerOfRequest
    <3>2. CallOrigin(k)
      BY <2>2, NewCallOrigin
    <3>3. AskedByForeigner(k) => AskedByForeigner(k)'
      BY DEF AskedByForeigner
    <3>4. QED
      BY <1>1, <2>2, <3>1, <3>2, <3>3, CallsCollectorOfStable
         DEF CallOrigin, Monotone, TypeOK, ServerTypeOK
  <2>4. QED
    BY <1>2, <1>6, <2>2, <2>3
       DEF CallInv, ReceivePacket, TypeOK, ServerTypeOK
<1>7. CASE ServerNext /\ UNCHANGED scannerVars
  BY <1>3, <1>4, <1>5, <1>6, <1>7
     DEF ServerNext, Serve, ScanForTargets, AnnounceByMulticast,
         AnnounceByUnicast, Listen, ReceiveFails, Stop, ServerStates
<1>8. ASSUME NEW k \in calls, NEW c \in Scanners, Connect(k, c)
      PROVE  CallInv'
  <2> DEFINE connected == [k EXCEPT !.peer = {c}]
  <2>1. k \in Call
    BY DEF TypeOK, ServerTypeOK
  <2>2. /\ connected.server = k.server
        /\ connected.to = k.to
        /\ connected.peer = {c}
    BY <2>1 DEF Call
  <2>3. CallsCollectorOf(k, c)'
    BY <1>8 DEF Connect, CollectorAt, Collecting, CallsCollectorOf, ControlInv,
                ScannerControl, Open, scannerVars
  <2>4. CallOrigin(connected)'
    <3>1. CallOrigin(k)'
      BY <1>2
    <3>2. AskedByForeigner(k)' => AskedByForeigner(connected)'
      BY <2>2 DEF AskedByForeigner
    <3>3. \A o \in Scanners : CallsCollectorOf(k, o)'
                                => CallsCollectorOf(connected, o)'
      BY <2>2 DEF CallsCollectorOf
    <3>4. QED
      BY <2>2, <2>3, <3>1, <3>2, <3>3 DEF CallOrigin
  <2>5. calls' = (calls \ {k}) \cup {connected} /\ UNCHANGED srv
    BY <1>8 DEF Connect, Connected
  <2> HIDE DEF connected
  <2>6. QED
    BY <1>2, <2>2, <2>4, <2>5 DEF CallInv
<1>9. QED
  BY <1>3, <1>7, <1>8
     DEF Next, vars, serverVars, Submit, CallFails, Finished, End

-----------------------------------------------------------------------------
(***************************************************************************)
(* Why a service is reported.                                              *)
(***************************************************************************)

\* Of an announcement that scanner c receives.
LEMMA AnnouncementJustified ==
  ASSUME TypeOK, DatagramInv, NEW c \in Scanners, NEW d \in net,
         c \in Receivers(d.dst),
         NEW service \in UNION {extract_service(packet, d.src) :
                                   packet \in decode(d.packet)}
  PROVE  Justified(c, service)
<1>1. d \in Datagram
  BY DEF TypeOK, LanTypeOK
<1>2. /\ service = [host |-> d.src.host, port |-> d.packet.port]
      /\ d.packet.type = "announcement"
  BY <1>1, ServiceOfAnnouncement
<1>3. CASE d \in ForeignDatagrams
  BY <1>2, <1>3 DEF Justified, ForeignServices
<1>4. ASSUME NEW s \in Servers, FromServer(d, s)
      PROVE  Justified(c, service)
  <2>1. d.packet.port = ServicePort[s]
    BY <1>4 DEF FromServer, Announcement
  <2>2. DiscoveryPort[c] = DiscoveryPort[s]
    BY <1>4 DEF FromServer, Receivers
  <2>3. Publishes(s, service, DiscoveryPort[c])
    BY <1>2, <1>4, <2>1, <2>2 DEF FromServer, Publishes, ServiceOf
  <2>4. DiscoveryPort[c] \in ScannedWithPortOf(c)
    BY DEF ScannedWithPortOf
  <2>5. QED
    BY <2>3, <2>4 DEF Justified
<1>5. CASE \E o \in Scanners : FromScanner(d, o)
  BY <1>2, <1>5 DEF FromScanner, Request
<1>6. QED
  BY <1>3, <1>4, <1>5 DEF DatagramInv

\* Of a response that a call brings to scanner c: the call was asked for by c
\* itself, or by somebody else that named the same collector port.
LEMMA ResponseJustified ==
  ASSUME TypeOK, CallInv, NEW k \in calls, NEW c \in Scanners, c \in k.peer
  PROVE  Justified(c, ServiceOf(k.server))
<1>1. CallOrigin(k) /\ k.server \in Servers
  BY DEF CallInv, TypeOK, ServerTypeOK, Call
<1>2. CallsCollectorOf(k, c)
  BY <1>1 DEF CallOrigin
<1>3. Publishes(k.server, ServiceOf(k.server), DiscoveryPort[k.server])
  BY <1>1 DEF CallOrigin, Publishes
<1>4. DiscoveryPort[k.server] \in ScannedWithPortOf(c)
  <2>1. CASE AskedByForeigner(k)
    BY <1>2, <2>1 DEF AskedByForeigner, CallsCollectorOf, ScannedWithPortOf
  <2>2. ASSUME NEW o \in Scanners, CallsCollectorOf(k, o),
               DiscoveryPort[o] = DiscoveryPort[k.server]
        PROVE  DiscoveryPort[k.server] \in ScannedWithPortOf(c)
    BY <1>2, <2>2 DEF CallsCollectorOf, ScannedWithPortOf
  <2>3. QED
    BY <1>1, <2>1, <2>2 DEF CallOrigin
<1>5. QED
  BY <1>1, <1>3, <1>4 DEF Justified

\* A response that is accepted extends what the channel holds.
LEMMA SubmitReports ==
  ASSUME TypeOK, NEW c \in Scanners, NEW host, NEW port,
         submit_response(c, host, port), UNCHANGED discovered
  PROVE  /\ \A o \in Scanners \ {c} : Reports(o)' = Reports(o)
         /\ \A service \in Reports(c)' :
              \/ service \in Reports(c)
              \/ /\ Acceptable(host, port)
                 /\ service = [host |-> host, port |-> port]
<1>1. CASE UNCHANGED chan
  BY <1>1 DEF Reports
<1>2. CASE /\ Acceptable(host, port)
           /\ chan' = [chan EXCEPT ![c] =
                Append(@, set_port([host |-> host, port |-> 0], port))]
  <2>1. chan[c] \in Seq(Response)
    BY DEF TypeOK, ScannerTypeOK
  <2>2. chan'[c] = Append(chan[c], [host |-> host, port |-> port])
    BY <1>2 DEF set_port, TypeOK, ScannerTypeOK
  <2>3. ASSUME NEW i \in 1 .. Len(chan'[c])
        PROVE  \/ i \in 1 .. Len(chan[c]) /\ chan'[c][i] = chan[c][i]
               \/ chan'[c][i] = [host |-> host, port |-> port]
    BY <2>1, <2>2
  <2>4. \A o \in Scanners \ {c} : chan'[o] = chan[o]
    BY <1>2 DEF TypeOK, ScannerTypeOK
  <2>5. QED
    BY <1>2, <2>3, <2>4 DEF Reports
<1>3. QED
  BY <1>1, <1>2 DEF submit_response

\* Yielding moves a response from the channel to the consumer.
LEMMA YieldReports ==
  ASSUME TypeOK, NEW c \in Scanners, YieldResponse(c)
  PROVE  \A o \in Scanners : Reports(o)' \subseteq Reports(o)
<1>1. chan[c] \in Seq(Response) /\ chan[c] # <<>>
  BY DEF YieldResponse, TypeOK, ScannerTypeOK
<1>2. Head(chan[c]) \in Reports(c)
  <2>1. Head(chan[c]) = chan[c][1] /\ 1 \in 1 .. Len(chan[c])
    BY <1>1
  <2>2. QED
    BY <2>1 DEF Reports
<1>3. ASSUME NEW i \in 1 .. Len(Tail(chan[c]))
      PROVE  i + 1 \in 1 .. Len(chan[c]) /\ Tail(chan[c])[i] = chan[c][i + 1]
  BY <1>1
<1>4. /\ discovered'[c] = discovered[c] \cup {Head(chan[c])}
      /\ chan'[c] = Tail(chan[c])
      /\ \A o \in Scanners \ {c} : /\ discovered'[o] = discovered[o]
                                   /\ chan'[o] = chan[o]
  BY DEF YieldResponse, TypeOK, ScannerTypeOK
<1>5. Reports(c)' \subseteq Reports(c)
  <2>1. discovered'[c] \subseteq Reports(c)
    BY <1>2, <1>4 DEF Reports
  <2>2. \A i \in 1 .. Len(Tail(chan[c])) : Tail(chan[c])[i] \in Reports(c)
    BY <1>3 DEF Reports
  <2>3. \A i \in 1 .. Len(chan'[c]) : chan'[c][i] \in Reports(c)
    BY <1>4, <2>2
  <2>4. QED
    BY <2>1, <2>3 DEF Reports
<1>6. ASSUME NEW o \in Scanners \ {c}
      PROVE  Reports(o)' = Reports(o)
  <2>1. discovered'[o] = discovered[o] /\ chan'[o] = chan[o]
    BY <1>4
  <2>2. QED
    BY <2>1 DEF Reports
<1>7. QED
  BY <1>5, <1>6

\* Every step justifies what it makes a scanner accept or report.
LEMMA ReportStep ==
  ASSUME IInv, [Next]_vars
  PROVE  ReportInv'
<1> USE DEF IInv
<1>1. Monotone
  BY MonotoneStep
<1>2. ASSUME NEW c \in Scanners, NEW service \in Reports(c)
      PROVE  Justified(c, service)'
  <2>1. collectorPort[c] # 0
    BY <1>2 DEF ControlInv, ScannerControl, Open, Reports
  <2>2. QED
    BY <1>1, <1>2, <2>1, JustifiedStable DEF ReportInv
<1>3. ASSUME \A c \in Scanners : Reports(c)' \subseteq Reports(c)
      PROVE  ReportInv'
  BY <1>2, <1>3 DEF ReportInv
<1>4. CASE UNCHANGED <<discovered, chan>>
  BY <1>3, <1>4 DEF Reports
<1>5. ASSUME NEW c \in Scanners, UNCHANGED discovered,
             chan' = [chan EXCEPT ![c] = <<>>]
      PROVE  ReportInv'
  BY <1>3, <1>5 DEF Reports, TypeOK, ScannerTypeOK
<1>6. ASSUME NEW c \in Scanners, NEW d \in net, ReceiveAnnouncement(c, d)
      PROVE  ReportInv'
  <2>1. c \in Receivers(d.dst) /\ collectorPort[c] # 0
    BY <1>6 DEF ReceiveAnnouncement, recv_from, ControlInv, ScannerControl,
                Open
  <2>2. \A service \in UNION {extract_service(packet, d.src) :
                                 packet \in decode(d.packet)} :
          Justified(c, service)'
    BY <1>1, <2>1, AnnouncementJustified, JustifiedStable
  <2>3. QED
    BY <1>2, <1>6, <2>2
       DEF ReceiveAnnouncement, ReportInv, Reports, TypeOK, ScannerTypeOK
<1>7. ASSUME NEW c \in Scanners, YieldResponse(c)
      PROVE  ReportInv'
  BY <1>3, <1>7, YieldReports
<1>8. ASSUME NEW c \in Scanners, NEW response \in ForeignResponses,
             ForeignSubmit(c, response)
      PROVE  ReportInv'
  <2>1. response = [host |-> response.host, port |-> response.port]
    BY ScannerAssumption
  <2>2. Acceptable(response.host, response.port) => Justified(c, response)'
    BY DEF Justified, ForeignServices
  <2>3. QED
    BY <1>2, <1>8, <2>1, <2>2, SubmitReports DEF ForeignSubmit, ReportInv
<1>9. CASE ScannerNext
  BY <1>4, <1>5, <1>6, <1>7, <1>8, <1>9
     DEF ScannerNext, Scan, BindReceiver, RequestByMulticast, ScanForNeighbors,
         RequestByUnicast, ReceiveAnnouncementFails, GrpcFails, DropStream,
         CloseStream, SendRequestsFails
<1>10. ASSUME NEW k \in calls, NEW c \in Scanners, Submit(k, c)
       PROVE  ReportInv'
  <2>1. k.server \in Servers /\ c \in k.peer
    BY <1>10 DEF Submit, TypeOK, ServerTypeOK, Call
  <2>2. collectorPort[c] # 0
    BY <2>1 DEF CallInv, CallOrigin, CallsCollectorOf
  <2>3. PICK service : service = ServiceOf(k.server)
    OBVIOUS
  <2>4. Justified(c, service)'
    BY <1>1, <2>1, <2>2, <2>3, ResponseJustified, JustifiedStable
  <2>5. QED
    BY <1>2, <1>10, <2>3, <2>4, SubmitReports
       DEF Submit, ServiceOf, ReportInv
<1>11. ASSUME NEW c \in Scanners, End(c)
       PROVE  ReportInv'
  BY <1>5, <1>11 DEF End, EndOfStream, CloseStream
<1>12. QED
  BY <1>4, <1>9, <1>10, <1>11
     DEF Next, vars, scannerVars, Connect, CallFails

-----------------------------------------------------------------------------
(***************************************************************************)
(* The safety theorems.                                                    *)
(***************************************************************************)

\* IInv is an inductive invariant of the discovery protocol.
THEOREM Inductive == Spec => []IInv
<1>1. Init => IInv
  <2> SUFFICES ASSUME Init PROVE IInv
    OBVIOUS
  <2>1. TypeOK
    BY TypeInit
  <2>2. DatagramInv /\ CallInv
    BY DEF Init, LanInit, ServerInit, DatagramInv, CallInv
  <2>3. ReportInv
    BY DEF Init, ScannerInit, ReportInv, Reports
  <2>4. ControlInv
    BY DEF Init, LanInit, ServerInit, ScannerInit, ControlInv, ServerControl,
           ScannerControl, Open
  <2>5. QED
    BY <2>1, <2>2, <2>3, <2>4 DEF IInv
<1>2. IInv /\ [Next]_vars => IInv'
  BY TypeStep, DatagramStep, CallStep, ReportStep, ControlStep DEF IInv
<1>3. QED
  BY <1>1, <1>2, PTL DEF Spec

\* Whatever `scan` yields is the address of a server that has been started, or
\* comes from another program: for every number of processes and for lost,
\* duplicated, reordered and foreign messages.
THEOREM NoPhantom == Spec => []NoPhantomService
<1>1. IInv => NoPhantomService
  BY DEF IInv, ReportInv, Reports, Justified, Publishes, NoPhantomService
<1>2. QED
  BY <1>1, Inductive, PTL

\* A scanner reports only services of discovery ports that were scanned with
\* its collector port, its own one among them, however late responses arrive.
THEOREM Isolation == Spec => []IsolatedUnlessPortReused
<1>1. IInv => IsolatedUnlessPortReused
  BY DEF IInv, ReportInv, Reports, Justified, IsolatedUnlessPortReused
<1>2. QED
  BY <1>1, Inductive, PTL

=============================================================================
