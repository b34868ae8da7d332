--------------------------- MODULE DeliveryProofs ---------------------------
(***************************************************************************)
(* Nothing that leads to a discovery is lost on the way: the safety part   *)
(* of the argument that servers and scanners meet.  Nothing is sent twice: *)
(* why those that have missed each other never do.  And a server that has  *)
(* returned sends nothing at all.                                          *)
(***************************************************************************)
EXTENDS DiscoveryProofs

-----------------------------------------------------------------------------
(***************************************************************************)
(* Sockets and collector ports have one owner.                             *)
(***************************************************************************)

\* A step of a server keeps the sockets exclusive, and its own while it serves.
LEMMA ServerSockets ==
  ASSUME TypeOK, SocketInv, ServerNext, UNCHANGED scannerVars
  PROVE  SocketInv'
<1> USE DEF TypeOK, LanTypeOK, ServerTypeOK
<1>1. PICK s \in Servers :
        \/ Serve(s) \/ ScanForTargets(s) \/ AnnounceByMulticast(s)
        \/ AnnounceByUnicast(s) \/ Listen(s) \/ ReceiveFails(s) \/ Stop(s)
        \/ \E d \in net : ReceivePacket(s, d)
  BY DEF ServerNext
<1>2. s \in Procs /\ s \notin Scanners
  BY LanAssumption DEF Procs
<1>3. CASE Return(s)
  BY <1>2, <1>3 DEF Return, SocketInv, SameSocket, scannerVars
<1>4. CASE new_socket(s) /\ srv' = [srv EXCEPT ![s] = "serving"]
  <2>1. \A p, q \in bound' : SameSocket(p, q) => p = q
    BY <1>4 DEF new_socket, SocketInv, SameSocket
  <2> QED
    BY <1>4, <2>1 DEF new_socket, SocketInv, scannerVars
<1>5. CASE /\ UNCHANGED bound
           /\ \E state \in ServerStates \ {"serving"} :
                srv' = [srv EXCEPT ![s] = state] \/ UNCHANGED srv
  BY <1>5 DEF SocketInv, SameSocket, scannerVars
<1> QED
  BY <1>1, <1>3, <1>4, <1>5
     DEF Serve, ScanForTargets, AnnounceByMulticast, AnnounceByUnicast, Listen,
         ReceiveFails, Stop, ReceivePacket, ServerStates, lanVars

\* The end of a stream closes its socket and its collector only.
LEMMA CloseStreamSockets ==
  ASSUME TypeOK, SocketInv, NEW c \in Scanners,
         NEW how \in {"ended", "dropped"}, CloseStream(c, how),
         UNCHANGED serverVars
  PROVE  SocketInv'
<1>1. c \notin Servers
  BY LanAssumption
<1>2. \A o \in Scanners : grpc'[o] = "serving" => grpc[o] = "serving"
  BY DEF CloseStream, TypeOK, ScannerTypeOK
<1>3. \A o \in Scanners : recv'[o] = "listening" => o # c /\ recv[o] = "listening"
  BY DEF CloseStream, TypeOK, ScannerTypeOK
<1> QED
  BY <1>1, <1>2, <1>3 DEF SocketInv, SameSocket, CloseStream, serverVars

\* A step of a scanner that opens nothing keeps the owners.
LEMMA NothingOpened ==
  ASSUME SocketInv, UNCHANGED <<bound, srv, collectorPort>>,
         \A o \in Scanners : recv'[o] = "listening" => recv[o] = "listening",
         \A o \in Scanners : grpc'[o] = "serving" => grpc[o] = "serving"
  PROVE  SocketInv'
BY DEF SocketInv, SameSocket

\* The first poll: the collector gets a port that no other one listens on.
LEMMA ScanSockets ==
  ASSUME TypeOK, SocketInv, NEW c \in Scanners, Scan(c), UNCHANGED serverVars
  PROVE  SocketInv'
<1> USE DEF TypeOK, ScannerTypeOK
<1>1. CASE CloseStream(c, "ended")
  BY <1>1, CloseStreamSockets
<1>2. ASSUME NEW port \in CollectorPorts, new_collector(c, port),
             scn' = [scn EXCEPT ![c] = "polling"],
             UNCHANGED <<recv, req, pending, chan, discovered, lanVars>>
      PROVE  SocketInv'
  <2>1. \A o \in Scanners \ {c} : /\ grpc'[o] = grpc[o]
                                  /\ collectorPort'[o] = collectorPort[o]
    BY <1>2 DEF new_collector
  <2>2. collectorPort'[c] = port
    BY <1>2 DEF new_collector
  <2>3. \A o \in Scanners : grpc[o] = "serving" /\ HostOf[o] = HostOf[c]
                              => collectorPort[o] # port
    BY <1>2 DEF new_collector
  <2>4. ASSUME NEW o \in Scanners, NEW p \in Scanners, grpc'[o] = "serving",
               grpc'[p] = "serving", HostOf[o] = HostOf[p],
               collectorPort'[o] = collectorPort'[p]
        PROVE  o = p
    BY <2>1, <2>2, <2>3, <2>4 DEF SocketInv
  <2> QED
    BY <1>2, <2>4 DEF SocketInv, SameSocket, lanVars, serverVars
<1> QED
  BY <1>1, <1>2 DEF Scan

\* receive_announcements binds the socket if nobody else has.
LEMMA BindSockets ==
  ASSUME TypeOK, SocketInv, NEW c \in Scanners, BindReceiver(c),
         UNCHANGED serverVars
  PROVE  SocketInv'
<1> USE DEF TypeOK, ScannerTypeOK
<1>1. CASE CloseStream(c, "dropped")
  BY <1>1, CloseStreamSockets
<1>2. CASE /\ new_socket(c) /\ recv' = [recv EXCEPT ![c] = "listening"]
           /\ UNCHANGED <<scn, collectorPort, grpc>>
  <2>1. \A p, q \in bound' : SameSocket(p, q) => p = q
    BY <1>2 DEF new_socket, SocketInv, SameSocket
  <2> QED
    BY <1>2, <2>1 DEF new_socket, SocketInv, serverVars
<1>3. CASE /\ recv' = [recv EXCEPT ![c] = "closed"]
           /\ UNCHANGED <<scn, collectorPort, grpc, lanVars>>
  BY <1>3, NothingOpened DEF lanVars, serverVars
<1> QED
  BY <1>1, <1>2, <1>3 DEF BindReceiver

\* Every step of a scanner keeps the owners.
LEMMA ScannerSockets ==
  ASSUME TypeOK, SocketInv, ScannerNext, UNCHANGED serverVars
  PROVE  SocketInv'
<1> USE DEF TypeOK, ScannerTypeOK
<1>1. PICK c \in Scanners :
        \/ Scan(c) \/ BindReceiver(c) \/ RequestByMulticast(c)
        \/ ScanForNeighbors(c) \/ RequestByUnicast(c)
        \/ \E d \in net : ReceiveAnnouncement(c, d)
        \/ ReceiveAnnouncementFails(c) \/ YieldResponse(c) \/ GrpcFails(c)
        \/ \E response \in ForeignResponses : ForeignSubmit(c, response)
        \/ DropStream(c)
  BY DEF ScannerNext
<1>2. CASE Scan(c) \/ BindReceiver(c)
  BY <1>2, ScanSockets, BindSockets
<1>3. CASE CloseStream(c, "dropped")
  BY <1>3, CloseStreamSockets
<1>4. CASE UNCHANGED <<bound, recv, grpc, collectorPort>>
  BY <1>4, NothingOpened DEF serverVars
<1>5. CASE /\ grpc' = [grpc EXCEPT ![c] = "closed"]
           /\ UNCHANGED <<bound, recv, collectorPort>>
  BY <1>5, NothingOpened DEF serverVars
<1> QED
  BY <1>1, <1>2, <1>3, <1>4, <1>5
     DEF RequestByMulticast, ScanForNeighbors, RequestByUnicast,
         SendRequestsFails, ReceiveAnnouncement, ReceiveAnnouncementFails,
         YieldResponse, GrpcFails, ForeignSubmit, DropStream, lanVars

\* Every step does.
LEMMA SocketStep == TypeOK /\ SocketInv /\ [Next]_vars => SocketInv'
<1> SUFFICES ASSUME TypeOK, SocketInv, [Next]_vars PROVE SocketInv'
  OBVIOUS
<1>1. CASE UNCHANGED <<bound, srv, recv, collectorPort, grpc>>
  BY <1>1, NothingOpened
<1>2. ASSUME NEW c \in Scanners, End(c)
      PROVE  SocketInv'
  BY <1>2, CloseStreamSockets DEF End, EndOfStream
<1> QED
  BY <1>1, <1>2, ServerSockets, ScannerSockets
     DEF Next, LanNext, Lose, Inject, Connect, Submit, CallFails, vars,
         lanVars, serverVars, scannerVars

\* A discovery port of a device is bound by one process (udp_receiver.rs binds
\* without address reuse), a collector port by one scanner, and a server that
\* serves and a scanner that listens have their socket.
THEOREM OneOwner == Spec => []SocketInv
<1>1. Init => SocketInv
  BY DEF Init, LanInit, ServerInit, ScannerInit, SocketInv
<1> QED
  BY <1>1, SocketStep, TypeCorrect, PTL DEF Spec

-----------------------------------------------------------------------------
(***************************************************************************)
(* What becomes of a datagram, of a report, and of the state of a server.  *)
(***************************************************************************)

\* A datagram leaves the LAN when somebody receives it or when it gets lost.
LEMMA DatagramLeaves ==
  ASSUME [Next]_vars, NEW d \in net, d \notin net'
  PROVE  \/ Lose(d)
         \/ \E r \in Servers : ReceivePacket(r, d)
         \/ \E o \in Scanners : ReceiveAnnouncement(o, d)
<1>1. CASE LanNext
  BY <1>1 DEF LanNext, Lose, Inject
<1>2. CASE ServerNext
  BY <1>2
     DEF ServerNext, Serve, ScanForTargets, AnnounceByMulticast,
         AnnounceByUnicast, Listen, ReceivePacket, recv_from, ReceiveFails,
         Stop, Return, send_multicast, send_unicast, lanVars
<1>3. CASE ScannerNext
  BY <1>3
     DEF ScannerNext, Scan, BindReceiver, RequestByMulticast, ScanForNeighbors,
         RequestByUnicast, ReceiveAnnouncement, recv_from,
         ReceiveAnnouncementFails, YieldResponse, GrpcFails, ForeignSubmit,
         DropStream, CloseStream, SendRequestsFails, send_multicast,
         send_unicast, lanVars
<1> QED
  BY <1>1, <1>2, <1>3
     DEF Next, vars, lanVars, Connect, Submit, CallFails, End, EndOfStream,
         CloseStream

\* What has been reported stays reported.
LEMMA ReportsStay ==
  ASSUME TypeOK, [Next]_vars, NEW c \in Scanners
  PROVE  discovered[c] \subseteq discovered'[c]
<1> USE DEF TypeOK, ScannerTypeOK
<1>1. CASE UNCHANGED discovered
  BY <1>1
<1>2. ASSUME NEW o \in Scanners,
             YieldResponse(o) \/ \E d \in net : ReceiveAnnouncement(o, d)
      PROVE  discovered[c] \subseteq discovered'[c]
  BY <1>2 DEF YieldResponse, ReceiveAnnouncement
<1>3. CASE ScannerNext
  BY <1>1, <1>2, <1>3
     DEF ScannerNext, Scan, BindReceiver, RequestByMulticast, ScanForNeighbors,
         RequestByUnicast, ReceiveAnnouncementFails, GrpcFails, ForeignSubmit,
         DropStream, CloseStream, SendRequestsFails
<1> QED
  BY <1>1, <1>3
     DEF Next, vars, scannerVars, Connect, Submit, CallFails, End, EndOfStream,
         CloseStream

\* A server changes its state only by its own steps.
LEMMA ServerSteps ==
  ASSUME TypeOK, [Next]_vars, NEW s \in Servers
  PROVE  \/ srv'[s] = srv[s] /\ targets'[s] = targets[s]
         \/ srv'[s] = "stopped"
         \/ srv[s] = "serving" /\ srv'[s] = "stuck"
         \/ Serve(s) \/ ScanForTargets(s) \/ AnnounceByMulticast(s)
         \/ AnnounceByUnicast(s) \/ Listen(s)
<1> USE DEF TypeOK, ServerTypeOK
<1>1. CASE UNCHANGED <<srv, targets>>
  BY <1>1
<1>2. CASE ServerNext
  <2>1. PICK r \in Servers :
          \/ Serve(r) \/ ScanForTargets(r) \/ AnnounceByMulticast(r)
          \/ AnnounceByUnicast(r) \/ Listen(r) \/ ReceiveFails(r) \/ Stop(r)
          \/ \E d \in net : ReceivePacket(r, d)
    BY <1>2 DEF ServerNext
  <2>2. CASE r # s
    BY <2>1, <2>2
       DEF Serve, ScanForTargets, AnnounceByMulticast, AnnounceByUnicast,
           Listen, ReceiveFails, Stop, ReceivePacket, Return
  <2>3. CASE r = s
    BY <2>1, <2>3 DEF ReceiveFails, Stop, ReceivePacket, Return
  <2> QED
    BY <2>2, <2>3
<1> QED
  BY <1>1, <1>2
     DEF Next, vars, serverVars, Connect, Submit, CallFails, End

-----------------------------------------------------------------------------
(***************************************************************************)
(* Announcements.                                                          *)
(***************************************************************************)

\* A datagram to the socket of p can be received by nobody else.
LEMMA OneReceiver ==
  ASSUME SocketInv, NEW p \in bound, NEW address,
         address.host = HostOf[p], address.port = DiscoveryPort[p]
  PROVE  Receivers(address) = {p}
BY DEF Receivers, SocketInv, SameSocket

\* A scanner that receives the announcement of s reports s.
LEMMA AnnouncementReported ==
  ASSUME TypeOK, NEW s \in Servers, NEW c \in Scanners, NEW host, NEW via,
         ReceiveAnnouncement(c, sent(s, host, via, Announcement(ServicePort[s])))
  PROVE  Discovered(s, c)'
<1> DEFINE a == Announcement(ServicePort[s])
           d == sent(s, host, via, a)
<1>1. ServicePort[s] \in U16
  BY HostsAndPorts
<1>2. d.packet = a /\ d.src.host = HostOf[s]
  BY DEF sent
<1>3. a \in decode(d.packet)
  BY <1>2 DEF decode, Announcement
<1>4. unwrap_response(a) \cap U16 = {ServicePort[s]}
  BY <1>1 DEF unwrap_response, Announcement
<1>5. ServiceOf(s) \in extract_service(a, d.src)
  BY <1>2, <1>4 DEF extract_service, set_port, ServiceOf
<1>6. discovered'[c] =
        discovered[c] \cup UNION {extract_service(packet, d.src) :
                                    packet \in decode(d.packet)}
  BY DEF ReceiveAnnouncement, TypeOK, ScannerTypeOK
<1> HIDE DEF a, d
<1> QED
  BY <1>3, <1>5, <1>6 DEF Discovered, ServiceOf

\* A server that has yet to announce itself sends the announcement, or still
\* has to, or gives up.
LEMMA AnnouncementSent ==
  ASSUME TypeOK, [Next]_vars, NEW s \in Servers, NEW c \in Scanners,
         NEW via \in {"multicast", "unicast"}, Reaches(s, c, via),
         ToAnnounce(s, c, via)
  PROVE  \/ ToAnnounce(s, c, via)'
         \/ sent(s, HostOf[c], via, Announcement(ServicePort[s])) \in net'
         \/ srv'[s] = "stopped"
<1> USE DEF TypeOK, ServerTypeOK
<1>1. HostOf[c] \in Hosts
  BY HostsAndPorts
<1>2. CASE srv'[s] = srv[s] /\ targets'[s] = targets[s]
  BY <1>2 DEF ToAnnounce
<1>3. CASE Serve(s)
  BY <1>3 DEF Serve, Return, ToAnnounce
<1>4. CASE ScanForTargets(s)
  BY <1>4 DEF ScanForTargets, Return, ToAnnounce, Reaches
<1>5. CASE AnnounceByMulticast(s)
  <2>1. CASE Return(s)
    BY <2>1 DEF Return
  <2>2. CASE /\ send_multicast(s, Announcement(ServicePort[s]))
             /\ srv' = [srv EXCEPT ![s] = "unicasting"] /\ UNCHANGED targets
    <3>1. CASE via = "multicast"
      BY <1>1, <2>2, <3>1 DEF send_multicast, Multicast, Reaches
    <3>2. CASE via = "unicast"
      BY <1>5, <2>2, <3>2 DEF AnnounceByMulticast, ToAnnounce
    <3> QED
      BY <3>1, <3>2
  <2> QED
    BY <1>5, <2>1, <2>2 DEF AnnounceByMulticast
<1>6. CASE AnnounceByUnicast(s)
  <2>1. via = "unicast" /\ srv[s] = "unicasting" /\ HostOf[c] \in targets[s]
    BY <1>6 DEF AnnounceByUnicast, ToAnnounce
  <2>2. CASE Return(s)
    BY <2>2 DEF Return
  <2>3. ASSUME NEW host \in targets[s],
               send_unicast(s, host, Announcement(ServicePort[s])),
               targets' = [targets EXCEPT ![s] = @ \ {host}], UNCHANGED srv
        PROVE  \/ ToAnnounce(s, c, via)'
               \/ sent(s, HostOf[c], via, Announcement(ServicePort[s])) \in net'
    BY <2>1, <2>3 DEF send_unicast, Unicast, ToAnnounce
  <2> QED
    BY <1>6, <2>2, <2>3 DEF AnnounceByUnicast
<1>7. CASE Listen(s)
  BY <1>7 DEF Listen, ToAnnounce
<1>8. srv[s] # "serving"
  BY DEF ToAnnounce
<1> QED
  BY <1>2, <1>3, <1>4, <1>5, <1>6, <1>7, <1>8, ServerSteps

\* An announcement on its way stays there until the scanner has received it.
LEMMA AnnouncementReceived ==
  ASSUME TypeOK, SocketInv, [Next]_vars, NEW s \in Servers, NEW c \in Scanners,
         NEW via \in {"multicast", "unicast"}, Reaches(s, c, via),
         DiscoveryPort[s] = DiscoveryPort[c], recv[c] = "listening",
         sent(s, HostOf[c], via, Announcement(ServicePort[s])) \in net
  PROVE  \/ sent(s, HostOf[c], via, Announcement(ServicePort[s])) \in net'
         \/ Discovered(s, c)'
<1> DEFINE d == sent(s, HostOf[c], via, Announcement(ServicePort[s]))
<1>1. /\ d.dst.host = HostOf[c] /\ d.dst.port = DiscoveryPort[c]
      /\ d.via = via /\ d.src.host = HostOf[s]
  BY DEF sent
<1>2. c \in bound /\ c \notin Servers
  BY LanAssumption DEF SocketInv
<1>3. Receivers(d.dst) = {c}
  BY <1>1, <1>2, OneReceiver
<1>4. ~Lose(d)
  BY <1>1, <1>3 DEF Lose, Reaches
<1>5. \A r \in Servers : ~ReceivePacket(r, d)
  BY <1>2, <1>3 DEF ReceivePacket, recv_from
<1>6. \A o \in Scanners : ReceiveAnnouncement(o, d) => o = c
  BY <1>3 DEF ReceiveAnnouncement, recv_from
<1> HIDE DEF d
<1>7. d \notin net' => ReceiveAnnouncement(c, d)
  BY <1>4, <1>5, <1>6, DatagramLeaves DEF d
<1> QED
  BY <1>7, AnnouncementReported DEF d

\* The announcement of a server gets to every scanner that listens for it,
\* whatever else happens on the LAN (announce in server.rs, and
\* receive_announcements in scanner.rs).
THEOREM AnnouncementsArrive == Spec => NoAnnouncementIsLost
<1>1. ASSUME TypeOK, SocketInv, [Next]_vars,
             NEW s \in Servers, NEW c \in Scanners,
             NEW via \in {"multicast", "unicast"}, Reaches(s, c, via),
             DiscoveryPort[s] = DiscoveryPort[c], recv[c] = "listening",
             AnnouncementUnderway(s, c, via)
      PROVE  \/ AnnouncementUnderway(s, c, via)'
             \/ ToAnnounce(s, c, via) /\ srv'[s] = "stopped"
             \/ scn'[c] # "polling"
  <2>1. CASE ToAnnounce(s, c, via)
    BY <1>1, <2>1, AnnouncementSent DEF AnnouncementUnderway
  <2>2. CASE sent(s, HostOf[c], via, Announcement(ServicePort[s])) \in net
    BY <1>1, <2>2, AnnouncementReceived DEF AnnouncementUnderway
  <2>3. CASE Discovered(s, c)
    BY <1>1, <2>3, ReportsStay DEF AnnouncementUnderway, Discovered, ServiceOf
  <2> QED
    BY <1>1, <2>1, <2>2, <2>3 DEF AnnouncementUnderway
<1>2. TypeOK /\ SocketInv /\ [Next]_vars =>
        [\A s \in Servers, c \in Scanners, via \in {"multicast", "unicast"} :
           /\ Reaches(s, c, via)
           /\ DiscoveryPort[s] = DiscoveryPort[c]
           /\ recv[c] = "listening"
           /\ AnnouncementUnderway(s, c, via)
           => \/ AnnouncementUnderway(s, c, via)'
              \/ ToAnnounce(s, c, via) /\ srv'[s] = "stopped"
              \/ scn'[c] # "polling"]_vars
  BY <1>1
<1> QED
  BY <1>2, OneOwner, TypeCorrect, PTL DEF Spec, NoAnnouncementIsLost

-----------------------------------------------------------------------------
(***************************************************************************)
(* Requests and responses.                                                 *)
(***************************************************************************)

\* send_requests changes its state only by its own steps.
LEMMA RequestSteps ==
  ASSUME TypeOK, [Next]_vars, NEW c \in Scanners
  PROVE  \/ req'[c] = req[c] /\ pending'[c] = pending[c]
         \/ ~Collecting(c)' /\ req'[c] = req[c] /\ pending'[c] = {}
         \/ RequestByMulticast(c) \/ ScanForNeighbors(c) \/ RequestByUnicast(c)
<1> USE DEF TypeOK, ScannerTypeOK
<1>1. CASE UNCHANGED <<req, pending>>
  BY <1>1
<1>2. ASSUME NEW o \in Scanners, NEW how \in {"ended", "dropped"},
             CloseStream(o, how)
      PROVE  \/ req'[c] = req[c] /\ pending'[c] = pending[c]
             \/ ~Collecting(c)' /\ req'[c] = req[c] /\ pending'[c] = {}
  BY <1>2 DEF CloseStream, Collecting
<1>3. ASSUME NEW o \in Scanners \ {c},
             \/ RequestByMulticast(o) \/ ScanForNeighbors(o)
             \/ RequestByUnicast(o)
      PROVE  req'[c] = req[c] /\ pending'[c] = pending[c]
  BY <1>3 DEF RequestByMulticast, ScanForNeighbors, RequestByUnicast,
              SendRequestsFails, CloseStream
<1>4. CASE ScannerNext
  BY <1>1, <1>2, <1>3, <1>4
     DEF ScannerNext, Scan, BindReceiver, ReceiveAnnouncement,
         ReceiveAnnouncementFails, YieldResponse, GrpcFails, ForeignSubmit,
         DropStream
<1> QED
  BY <1>1, <1>2, <1>4
     DEF Next, vars, scannerVars, Connect, Submit, CallFails, End, EndOfStream

\* A scanner that has yet to send its request sends it, or still has to, or
\* fails to.
LEMMA RequestSent ==
  ASSUME TypeOK, [Next]_vars, NEW c \in Scanners, NEW s \in Servers,
         NEW via \in {"multicast", "unicast"}, Reaches(c, s, via),
         ToRequest(c, s, via)
  PROVE  \/ ToRequest(c, s, via)'
         \/ sent(c, HostOf[s], via, Request(collectorPort'[c])) \in net'
         \/ ~Collecting(c)'
         \/ req'[c] = "failed"
<1> USE DEF TypeOK, ScannerTypeOK
<1>1. HostOf[s] \in Hosts
  BY HostsAndPorts
<1>2. CASE req'[c] = req[c] /\ pending'[c] = pending[c]
  BY <1>2 DEF ToRequest
<1>3. CASE SendRequestsFails(c)
  BY <1>3 DEF SendRequestsFails, CloseStream, Collecting
<1>4. CASE RequestByMulticast(c)
  <2>1. CASE /\ send_multicast(c, Request(collectorPort[c]))
             /\ req' = [req EXCEPT ![c] = "scanning"]
             /\ UNCHANGED collectorPort
    BY <1>1, <2>1 DEF send_multicast, Multicast, Reaches, ToRequest
  <2> QED
    BY <1>3, <1>4, <2>1 DEF RequestByMulticast
<1>5. CASE ScanForNeighbors(c)
  BY <1>3, <1>5 DEF ScanForNeighbors, ToRequest, Reaches
<1>6. CASE RequestByUnicast(c)
  <2>1. via = "unicast" /\ req[c] = "unicasting" /\ HostOf[s] \in pending[c]
    BY <1>6 DEF RequestByUnicast, ToRequest
  <2>2. ASSUME NEW host \in pending[c],
               send_unicast(c, host, Request(collectorPort[c])),
               pending' = [pending EXCEPT ![c] = @ \ {host}],
               UNCHANGED <<req, collectorPort>>
        PROVE  \/ ToRequest(c, s, via)'
               \/ sent(c, HostOf[s], via, Request(collectorPort'[c])) \in net'
    BY <2>1, <2>2 DEF send_unicast, Unicast, ToRequest
  <2> QED
    BY <1>3, <1>6, <2>2 DEF RequestByUnicast
<1> QED
  BY <1>2, <1>4, <1>5, <1>6, RequestSteps

\* A server that receives the request of c starts to answer it.
LEMMA RequestAnswered ==
  ASSUME NEW s \in Servers, NEW c \in Scanners, NEW via,
         collectorPort[c] \in U16 \ {0}, collectorPort'[c] = collectorPort[c],
         ReceivePacket(s, sent(c, HostOf[s], via, Request(collectorPort[c])))
  PROVE  Answering(s, c)'
<1> DEFINE r == Request(collectorPort[c])
           d == sent(c, HostOf[s], via, r)
           address == [host |-> HostOf[c], port |-> collectorPort[c]]
<1>1. d.packet = r /\ d.src.host = HostOf[c]
  BY DEF sent
<1>2. r \in decode(d.packet)
  BY <1>1 DEF decode, Request
<1>3. unwrap_request(r) \cap U16 = {collectorPort[c]}
  BY DEF unwrap_request, Request
<1>4. address \in response_collector_of(r, d.src)
  BY <1>1, <1>3
     DEF response_collector_of, get_response_collector_address, set_port
<1>5. calls' = calls \cup handle_packet(s, d)
  BY DEF ReceivePacket
<1> HIDE DEF r, d, address
<1>6. PICK k \in handle_packet(s, d) : /\ k.server = s
                                       /\ k.to = address
                                       /\ k.peer = {}
  <2>1. [server |-> s, to |-> address, request |-> d, peer |-> {}]
          \in handle_packet(s, d)
    BY <1>2, <1>4 DEF handle_packet
  <2> QED
    BY <2>1
<1>7. CallsCollectorOf(k, c)'
  BY <1>6 DEF CallsCollectorOf, address
<1> QED
  BY <1>5, <1>6, <1>7 DEF Answering

\* A request on its way stays there until the server has received it.
LEMMA RequestReceived ==
  ASSUME TypeOK, ControlInv, SocketInv, [Next]_vars, NEW s \in Servers,
         NEW c \in Scanners, NEW via \in {"multicast", "unicast"},
         Reaches(c, s, via), DiscoveryPort[s] = DiscoveryPort[c],
         srv[s] = "serving", Collecting(c),
         sent(c, HostOf[s], via, Request(collectorPort[c])) \in net
  PROVE  \/ sent(c, HostOf[s], via, Request(collectorPort'[c])) \in net'
         \/ Answering(s, c)'
<1> DEFINE d == sent(c, HostOf[s], via, Request(collectorPort[c]))
<1>1. /\ d.dst.host = HostOf[s] /\ d.dst.port = DiscoveryPort[s]
      /\ d.via = via /\ d.src.host = HostOf[c]
  BY DEF sent
<1>2. s \in bound /\ s \notin Scanners
  BY LanAssumption DEF SocketInv
<1>3. Receivers(d.dst) = {s}
  BY <1>1, <1>2, OneReceiver
<1>4. ~Lose(d)
  BY <1>1, <1>3 DEF Lose, Reaches
<1>5. \A o \in Scanners : ~ReceiveAnnouncement(o, d)
  BY <1>2, <1>3 DEF ReceiveAnnouncement, recv_from
<1>6. \A r \in Servers : ReceivePacket(r, d) => r = s
  BY <1>3 DEF ReceivePacket, recv_from
<1>7. collectorPort[c] \in U16 \ {0} /\ collectorPort'[c] = collectorPort[c]
  BY MonotoneStep
     DEF Monotone, ControlInv, ScannerControl, Open, Collecting, TypeOK,
         ScannerTypeOK
<1> HIDE DEF d
<1>8. d \notin net' => ReceivePacket(s, d)
  BY <1>4, <1>5, <1>6, DatagramLeaves DEF d
<1> QED
  BY <1>7, <1>8, RequestAnswered DEF d

\* Reports are kept if the ones of the channel are.
LEMMA ReportsContain ==
  ASSUME NEW c \in Scanners, discovered[c] \subseteq discovered'[c],
         \A i \in 1 .. Len(chan[c]) : chan[c][i] \in Reports(c)'
  PROVE  Reports(c) \subseteq Reports(c)'
<1>1. discovered'[c] \subseteq Reports(c)'
  BY DEF Reports
<1>2. ASSUME NEW service \in Reports(c)
      PROVE  service \in Reports(c)'
  <2>1. \/ service \in discovered[c]
        \/ \E i \in 1 .. Len(chan[c]) : service = chan[c][i]
    BY DEF Reports
  <2> QED
    BY <1>1, <2>1
<1> QED
  BY <1>2

\* A response that has been accepted is in the channel until it is yielded.
LEMMA ReportsKept ==
  ASSUME TypeOK, [Next]_vars, NEW c \in Scanners, Collecting(c)'
  PROVE  Reports(c) \subseteq Reports(c)'
<1> USE DEF TypeOK, ScannerTypeOK
<1>1. chan[c] \in Seq(Response)
  OBVIOUS
<1>2. discovered[c] \subseteq discovered'[c]
  BY ReportsStay
<1>3. CASE chan'[c] = chan[c]
  BY <1>2, <1>3 DEF Reports
<1>4. ASSUME NEW response \in Response, chan'[c] = Append(chan[c], response)
      PROVE  Reports(c) \subseteq Reports(c)'
  <2>1. \A i \in 1 .. Len(chan[c]) :
          i \in 1 .. Len(chan'[c]) /\ chan'[c][i] = chan[c][i]
    BY <1>1, <1>4
  <2>2. \A i \in 1 .. Len(chan[c]) : chan[c][i] \in Reports(c)'
    BY <2>1 DEF Reports
  <2> QED
    BY <1>2, <2>2, ReportsContain
<1>5. CASE YieldResponse(c)
  <2>1. /\ chan[c] # <<>> /\ chan'[c] = Tail(chan[c])
        /\ Head(chan[c]) \in discovered'[c]
    BY <1>5 DEF YieldResponse
  <2>2. ASSUME NEW i \in 1 .. Len(chan[c])
        PROVE  \/ chan[c][i] = Head(chan[c])
               \/ i - 1 \in 1 .. Len(chan'[c]) /\ chan'[c][i - 1] = chan[c][i]
    BY <1>1, <2>1
  <2>3. \A i \in 1 .. Len(chan[c]) : chan[c][i] \in Reports(c)'
    BY <2>1, <2>2 DEF Reports
  <2> QED
    BY <1>2, <2>3, ReportsContain
<1>6. ASSUME NEW o \in Scanners, NEW host, NEW port,
             submit_response(o, host, port)
      PROVE  Reports(c) \subseteq Reports(c)'
  <2>1. CASE o # c \/ UNCHANGED chan
    BY <1>3, <1>6, <2>1 DEF submit_response
  <2>2. CASE /\ o = c /\ Acceptable(host, port)
             /\ chan' = [chan EXCEPT ![c] =
                  Append(@, set_port([host |-> host, port |-> 0], port))]
    <3>1. chan'[c] = Append(chan[c], [host |-> host, port |-> port])
      BY <2>2 DEF set_port
    <3>2. [host |-> host, port |-> port] \in Response
      BY <2>2 DEF Response, Acceptable
    <3> QED
      BY <1>4, <3>1, <3>2
  <2> QED
    BY <1>6, <2>1, <2>2 DEF submit_response
<1>7. ASSUME NEW o \in Scanners, NEW how \in {"ended", "dropped"},
             CloseStream(o, how)
      PROVE  Reports(c) \subseteq Reports(c)'
  BY <1>3, <1>7 DEF CloseStream, Collecting
<1>8. ASSUME NEW k \in calls, NEW o \in Scanners, Submit(k, o)
      PROVE  Reports(c) \subseteq Reports(c)'
  BY <1>6, <1>8 DEF Submit
<1>9. CASE ScannerNext
  <2>1. PICK o \in Scanners :
          \/ Scan(o) \/ BindReceiver(o) \/ RequestByMulticast(o)
          \/ ScanForNeighbors(o) \/ RequestByUnicast(o)
          \/ \E d \in net : ReceiveAnnouncement(o, d)
          \/ ReceiveAnnouncementFails(o) \/ YieldResponse(o) \/ GrpcFails(o)
          \/ \E response \in ForeignResponses : ForeignSubmit(o, response)
          \/ DropStream(o)
    BY <1>9 DEF ScannerNext
  <2>2. CASE YieldResponse(o)
    BY <1>3, <1>5, <2>2 DEF YieldResponse
  <2>3. ASSUME NEW response \in ForeignResponses, ForeignSubmit(o, response)
        PROVE  Reports(c) \subseteq Reports(c)'
    BY <1>6, <2>3 DEF ForeignSubmit
  <2>4. CASE UNCHANGED chan
    BY <1>3, <2>4
  <2> QED
    BY <1>7, <2>1, <2>2, <2>3, <2>4
       DEF Scan, BindReceiver, RequestByMulticast, ScanForNeighbors,
           RequestByUnicast, SendRequestsFails, ReceiveAnnouncement,
           ReceiveAnnouncementFails, GrpcFails, DropStream
<1> QED
  BY <1>3, <1>7, <1>8, <1>9
     DEF Next, vars, scannerVars, Connect, CallFails, End, EndOfStream

\* The collector of c puts the response of a handler of s into its channel.
LEMMA ResponseAccepted ==
  ASSUME TypeOK, NEW k \in calls, NEW s \in Servers, k.server = s,
         ServicePort[s] # 0, NEW c \in Scanners, scn[c] = "polling",
         Submit(k, c)
  PROVE  ServiceOf(s) \in Reports(c)'
<1> USE DEF TypeOK, ScannerTypeOK
<1>1. chan[c] \in Seq(Response)
  OBVIOUS
<1>2. Acceptable(HostOf[s], ServicePort[s]) /\ ServiceOf(s) \in Response
  BY HostsAndPorts DEF Acceptable, Response, ServiceOf
<1>3. chan'[c] = Append(chan[c], ServiceOf(s))
  BY <1>2 DEF Submit, submit_response, Open, set_port, ServiceOf
<1> DEFINE n == Len(chan[c]) + 1
<1>4. n \in 1 .. Len(chan'[c]) /\ chan'[c][n] = ServiceOf(s)
  BY <1>1, <1>2, <1>3
<1> HIDE DEF n
<1> QED
  BY <1>4 DEF Reports, ServiceOf

\* A handler that answers c goes on until the collector has its response.
LEMMA ResponseDelivered ==
  ASSUME TypeOK, ControlInv, SocketInv, [Next]_vars, "connect" \notin Faults,
         NEW s \in Servers, NEW c \in Scanners, ServicePort[s] # 0,
         srv[s] = "serving", Collecting(c), Answering(s, c)
  PROVE  \/ Answering(s, c)'
         \/ ServiceOf(s) \in Reports(c)'
         \/ srv'[s] # "serving"
<1> USE DEF TypeOK, ServerTypeOK
<1>1. PICK k \in calls : /\ k.server = s
                         /\ CallsCollectorOf(k, c)
                         /\ k.peer \subseteq {c}
  BY DEF Answering
<1>2. CallsCollectorOf(k, c)'
  BY <1>1, MonotoneStep, CallsCollectorOfStable
<1>3. CASE k \in calls'
  BY <1>1, <1>2, <1>3 DEF Answering
<1>4. ASSUME NEW o \in Scanners, Connect(k, o)
      PROVE  Answering(s, c)'
  <2>1. o = c
    BY <1>1, <1>4
       DEF Connect, CollectorAt, Collecting, CallsCollectorOf, SocketInv
  <2>2. PICK connected \in calls' : connected = [k EXCEPT !.peer = {c}]
    BY <1>4, <2>1 DEF Connect, Connected
  <2>3. /\ connected.server = k.server /\ connected.to = k.to
        /\ connected.peer = {c}
    BY <2>2 DEF Call
  <2>4. CallsCollectorOf(connected, c)'
    BY <1>2, <2>3 DEF CallsCollectorOf
  <2> QED
    BY <1>1, <2>3, <2>4 DEF Answering
<1>5. ASSUME NEW o \in Scanners, Submit(k, o)
      PROVE  ServiceOf(s) \in Reports(c)'
  <2>1. o = c /\ scn[c] = "polling"
    BY <1>1, <1>5 DEF Submit, Collecting
  <2> QED
    BY <1>1, <1>5, <2>1, ResponseAccepted
<1>6. ~CallFails(k)
  BY <1>1 DEF CallFails, CollectorAt, CallsCollectorOf, Collecting
<1>7. ASSUME NEW l \in calls, l # k, calls \ {l} \subseteq calls'
      PROVE  k \in calls'
  BY <1>7
<1>8. ASSUME NEW r \in Servers, Return(r)
      PROVE  k \in calls' \/ srv'[s] # "serving"
  BY <1>1, <1>8 DEF Return
<1>9. CASE ServerNext
  BY <1>3, <1>8, <1>9
     DEF ServerNext, Serve, ScanForTargets, AnnounceByMulticast,
         AnnounceByUnicast, Listen, ReceivePacket, ReceiveFails, Stop
<1>10. ASSUME NEW l \in calls, NEW o \in Scanners,
              Connect(l, o) \/ Submit(l, o) \/ CallFails(l)
       PROVE  \/ Answering(s, c)'
              \/ ServiceOf(s) \in Reports(c)'
  <2>1. CASE l = k
    BY <1>4, <1>5, <1>6, <1>10, <2>1
  <2>2. CASE l # k
    BY <1>3, <1>7, <1>10, <2>2
       DEF Connect, Connected, Submit, CallFails, Finished
  <2> QED
    BY <2>1, <2>2
<1> QED
  BY <1>3, <1>9, <1>10 DEF Next, vars, serverVars, End

\* The request of a scanner gets to a server that serves, and its response
\* back to the scanner, whatever else happens on the LAN (send_requests in
\* scanner.rs, handle_packet in server.rs, submit_response in
\* response_collector.rs).
THEOREM RequestsAreAnswered == Spec => NoRequestIsLost
<1>1. ASSUME TypeOK, ControlInv, SocketInv, [Next]_vars,
             NEW s \in Servers, NEW c \in Scanners,
             NEW via \in {"multicast", "unicast"}, Reaches(c, s, via),
             "connect" \notin Faults, Related(s, c), srv[s] = "serving",
             Collecting(c), ResponseUnderway(s, c, via)
      PROVE  \/ ResponseUnderway(s, c, via)'
             \/ srv'[s] # "serving" \/ ~Collecting(c)'
             \/ ToRequest(c, s, via) /\ req'[c] = "failed"
  <2>1. CASE ToRequest(c, s, via)
    BY <1>1, <2>1, RequestSent DEF ResponseUnderway
  <2>2. CASE sent(c, HostOf[s], via, Request(collectorPort[c])) \in net
    BY <1>1, <2>2, RequestReceived DEF ResponseUnderway, Related
  <2>3. CASE Answering(s, c)
    BY <1>1, <2>3, ResponseDelivered
       DEF ResponseUnderway, Related, ServiceOf
  <2>4. CASE ServiceOf(s) \in Reports(c)
    BY <1>1, <2>4, ReportsKept DEF ResponseUnderway, ServiceOf
  <2> QED
    BY <1>1, <2>1, <2>2, <2>3, <2>4 DEF ResponseUnderway
<1>2. IInv /\ SocketInv /\ [Next]_vars =>
        [\A s \in Servers, c \in Scanners, via \in {"multicast", "unicast"} :
           /\ Reaches(c, s, via) /\ "connect" \notin Faults
           /\ Related(s, c)
           /\ srv[s] = "serving" /\ Collecting(c)
           /\ ResponseUnderway(s, c, via)
           => \/ ResponseUnderway(s, c, via)'
              \/ srv'[s] # "serving" \/ ~Collecting(c)'
              \/ ToRequest(c, s, via) /\ req'[c] = "failed"]_vars
  BY <1>1 DEF IInv
<1> QED
  BY <1>2, OneOwner, Inductive, PTL DEF Spec, NoRequestIsLost

-----------------------------------------------------------------------------
(***************************************************************************)
(* Everything is sent once.                                                *)
(***************************************************************************)

\* Where a new datagram comes from.
LEMMA DatagramArises ==
  ASSUME [Next]_vars, NEW d \in net' \ net
  PROVE  \/ d \in ForeignDatagrams
         \/ \E r \in Servers :
              /\ srv[r] = "multicasting"
              /\ d \in Multicast(r, Announcement(ServicePort[r]))
         \/ \E r \in Servers : \E host \in targets[r] :
              /\ srv[r] = "unicasting"
              /\ d \in Unicast(r, host, Announcement(ServicePort[r]))
         \/ \E o \in Scanners :
              /\ req[o] = "unsent"
              /\ d \in Multicast(o, Request(collectorPort[o]))
         \/ \E o \in Scanners : \E host \in pending[o] :
              /\ req[o] = "unicasting"
              /\ d \in Unicast(o, host, Request(collectorPort[o]))
<1>1. CASE LanNext
  BY <1>1 DEF LanNext, Lose, Inject
<1>2. CASE ServerNext
  BY <1>2
     DEF ServerNext, Serve, ScanForTargets, AnnounceByMulticast,
         AnnounceByUnicast, Listen, ReceivePacket, recv_from, ReceiveFails,
         Stop, Return, send_multicast, send_unicast, lanVars
<1>3. CASE ScannerNext
  BY <1>3
     DEF ScannerNext, Scan, BindReceiver, RequestByMulticast, ScanForNeighbors,
         RequestByUnicast, ReceiveAnnouncement, recv_from,
         ReceiveAnnouncementFails, YieldResponse, GrpcFails, ForeignSubmit,
         DropStream, CloseStream, SendRequestsFails, send_multicast,
         send_unicast, lanVars
<1> QED
  BY <1>1, <1>2, <1>3
     DEF Next, vars, lanVars, Connect, Submit, CallFails, End, EndOfStream,
         CloseStream

\* Where a new call comes from.
LEMMA CallArises ==
  ASSUME [Next]_vars, NEW k \in calls' \ calls
  PROVE  \/ \E r \in Servers : \E d \in net :
              /\ r \in Receivers(d.dst)
              /\ k \in handle_packet(r, d)
         \/ \E l \in calls, o \in Scanners :
              /\ CollectorAt(o, l.to) /\ l.peer = {}
              /\ k = [l EXCEPT !.peer = {o}]
<1>1. CASE ServerNext
  BY <1>1
     DEF ServerNext, Serve, ScanForTargets, AnnounceByMulticast,
         AnnounceByUnicast, Listen, ReceivePacket, recv_from, ReceiveFails,
         Stop, Return
<1> QED
  BY <1>1
     DEF Next, vars, serverVars, Connect, Connected, Submit, CallFails,
         Finished, End

\* Where a new report comes from.
LEMMA ReportArises ==
  ASSUME TypeOK, [Next]_vars, NEW c \in Scanners,
         NEW service \in Reports(c)', service \notin Reports(c)
  PROVE  \/ \E d \in net :
              /\ c \in Receivers(d.dst)
              /\ service \in UNION {extract_service(packet, d.src) :
                                       packet \in decode(d.packet)}
         \/ service \in ForeignServices
         \/ \E k \in calls : c \in k.peer /\ service = ServiceOf(k.server)
<1> DEFINE Cause ==
       \/ \E d \in net :
            /\ c \in Receivers(d.dst)
            /\ service \in UNION {extract_service(packet, d.src) :
                                     packet \in decode(d.packet)}
       \/ service \in ForeignServices
       \/ \E k \in calls : c \in k.peer /\ service = ServiceOf(k.server)
<1>1. ~UNCHANGED <<discovered, chan>>
  BY DEF Reports
<1>2. ASSUME NEW o \in Scanners, NEW how \in {"ended", "dropped"},
             CloseStream(o, how)
      PROVE  FALSE
  BY <1>2 DEF CloseStream, Reports, TypeOK, ScannerTypeOK
<1>3. ASSUME NEW o \in Scanners, NEW d \in net, ReceiveAnnouncement(o, d)
      PROVE  Cause
  BY <1>3
     DEF ReceiveAnnouncement, recv_from, Reports, TypeOK, ScannerTypeOK
<1>4. ASSUME NEW o \in Scanners, YieldResponse(o)
      PROVE  FALSE
  BY <1>4, YieldReports
<1>5. ASSUME NEW o \in Scanners, NEW response \in ForeignResponses,
             ForeignSubmit(o, response)
      PROVE  service \in ForeignServices
  <2>1. response = [host |-> response.host, port |-> response.port]
    BY ScannerAssumption
  <2>2. Acceptable(response.host, response.port) => response \in ForeignServices
    BY DEF ForeignServices
  <2> QED
    BY <1>5, <2>1, <2>2, SubmitReports DEF ForeignSubmit
<1>6. ASSUME NEW k \in calls, NEW o \in Scanners, Submit(k, o)
      PROVE  c \in k.peer /\ service = ServiceOf(k.server)
  BY <1>6, SubmitReports DEF Submit, ServiceOf
<1> HIDE DEF Cause
<1>7. CASE ScannerNext
  BY <1>1, <1>2, <1>3, <1>4, <1>5, <1>7
     DEF ScannerNext, Scan, BindReceiver, RequestByMulticast, ScanForNeighbors,
         RequestByUnicast, ReceiveAnnouncementFails, GrpcFails, DropStream,
         SendRequestsFails, Cause
<1>8. CASE \E k \in calls, o \in Scanners : Submit(k, o)
  BY <1>6, <1>8 DEF Cause
<1> QED
  BY <1>1, <1>2, <1>7, <1>8
     DEF Next, vars, scannerVars, Connect, CallFails, End, EndOfStream, Cause

\* A server that has nothing to announce to c will have nothing.
LEMMA NothingToAnnounce ==
  ASSUME TypeOK, [Next]_vars, NEW s \in Servers, NEW c \in Scanners,
         srv[s] # "idle",
         \A via \in {"multicast", "unicast"} : ~ToAnnounce(s, c, via)
  PROVE  \A via \in {"multicast", "unicast"} : ~ToAnnounce(s, c, via)'
<1> USE DEF TypeOK, ServerTypeOK
<1>1. srv[s] \notin {"scanning", "multicasting"}
  BY DEF ToAnnounce
<1>2. CASE srv'[s] = srv[s] /\ targets'[s] = targets[s]
  BY <1>2 DEF ToAnnounce
<1>3. CASE srv'[s] \in {"stopped", "stuck"}
  BY <1>3 DEF ToAnnounce
<1>4. CASE AnnounceByUnicast(s)
  BY <1>4 DEF AnnounceByUnicast, Return, ToAnnounce
<1>5. CASE Listen(s)
  BY <1>5 DEF Listen, Return, ToAnnounce
<1> QED
  BY <1>1, <1>2, <1>3, <1>4, <1>5, ServerSteps
     DEF Serve, ScanForTargets, AnnounceByMulticast

\* No announcement of the service of s gets under way to c again.
LEMMA NoNewAnnouncement ==
  ASSUME [Next]_vars, NEW s \in Servers, NEW c \in Scanners,
         OwnsService(s), NEW via \in {"multicast", "unicast"},
         \A way \in {"multicast", "unicast"} : ~ToAnnounce(s, c, way),
         sent(s, HostOf[c], via, Announcement(ServicePort[s])) \notin net
  PROVE  sent(s, HostOf[c], via, Announcement(ServicePort[s])) \notin net'
<1> SUFFICES ASSUME NEW d \in net' \ net,
                    d = sent(s, HostOf[c], via, Announcement(ServicePort[s]))
             PROVE  FALSE
  OBVIOUS
<1>1. /\ d.src.host = HostOf[s] /\ d.dst.host = HostOf[c]
      /\ d.packet.type = "announcement" /\ d.packet.port = ServicePort[s]
  BY DEF sent, Announcement
<1>2. d \notin ForeignDatagrams
  BY <1>1 DEF OwnsService, ForeignServices, ServiceOf
<1>3. ASSUME NEW r \in Servers, NEW host, NEW way,
             d = sent(r, host, way, Announcement(ServicePort[r]))
      PROVE  r = s /\ host = HostOf[c]
  <2>1. HostOf[r] = HostOf[s] /\ ServicePort[r] = ServicePort[s]
        /\ host = HostOf[c]
    BY <1>1, <1>3 DEF sent, Announcement
  <2> QED
    BY <2>1 DEF OwnsService, ServiceOf
<1>4. ASSUME NEW o \in Scanners, NEW host, NEW way,
             d = sent(o, host, way, Request(collectorPort[o]))
      PROVE  FALSE
  BY <1>1, <1>4 DEF sent, Request
<1>5. ASSUME NEW r \in Servers, srv[r] = "multicasting",
             d \in Multicast(r, Announcement(ServicePort[r]))
      PROVE  FALSE
  BY <1>3, <1>5 DEF Multicast, ToAnnounce
<1>6. ASSUME NEW r \in Servers, NEW host \in targets[r],
             srv[r] = "unicasting",
             d \in Unicast(r, host, Announcement(ServicePort[r]))
      PROVE  FALSE
  BY <1>3, <1>6 DEF Unicast, ToAnnounce
<1>7. ASSUME NEW o \in Scanners, NEW host,
             \/ d \in Multicast(o, Request(collectorPort[o]))
             \/ d \in Unicast(o, host, Request(collectorPort[o]))
      PROVE  FALSE
  BY <1>4, <1>7 DEF Multicast, Unicast
<1> QED
  BY <1>2, <1>5, <1>6, <1>7, DatagramArises

\* A scanner that has nothing to request from s will have nothing.
LEMMA NothingToRequest ==
  ASSUME TypeOK, [Next]_vars, NEW s \in Servers, NEW c \in Scanners,
         \A via \in {"multicast", "unicast"} : ~ToRequest(c, s, via)
  PROVE  \A via \in {"multicast", "unicast"} : ~ToRequest(c, s, via)'
<1> USE DEF TypeOK, ScannerTypeOK
<1>1. req[c] \notin {"unsent", "scanning"}
  BY DEF ToRequest
<1>2. CASE req'[c] = req[c] /\ pending'[c] \subseteq pending[c]
  BY <1>2 DEF ToRequest
<1>3. CASE RequestByUnicast(c)
  BY <1>2, <1>3
     DEF RequestByUnicast, SendRequestsFails, CloseStream, ToRequest
<1> QED
  BY <1>1, <1>2, <1>3, RequestSteps DEF RequestByMulticast, ScanForNeighbors

\* No request that names the collector of c gets under way to s again.
LEMMA NoNewRequest ==
  ASSUME [Next]_vars, NEW s \in Servers, NEW c \in Scanners,
         OwnsCollectorPort(c), NEW via \in {"multicast", "unicast"},
         \A way \in {"multicast", "unicast"} : ~ToRequest(c, s, way),
         sent(c, HostOf[s], via, Request(collectorPort[c])) \notin net
  PROVE  sent(c, HostOf[s], via, Request(collectorPort[c])) \notin net'
<1> SUFFICES ASSUME NEW d \in net' \ net,
                    d = sent(c, HostOf[s], via, Request(collectorPort[c]))
             PROVE  FALSE
  OBVIOUS
<1>1. /\ d.src.host = HostOf[c] /\ d.dst.host = HostOf[s]
      /\ d.packet.type = "request" /\ d.packet.port = collectorPort[c]
  BY DEF sent, Request
<1>2. d \notin ForeignDatagrams
  BY <1>1 DEF OwnsCollectorPort
<1>3. ASSUME NEW o \in Scanners, NEW host, NEW way,
             d = sent(o, host, way, Request(collectorPort[o]))
      PROVE  o = c /\ host = HostOf[s]
  <2>1. /\ HostOf[o] = HostOf[c] /\ collectorPort[o] = collectorPort[c]
        /\ host = HostOf[s]
    BY <1>1, <1>3 DEF sent, Request
  <2> QED
    BY <2>1 DEF OwnsCollectorPort
<1>4. ASSUME NEW r \in Servers, NEW host, NEW way,
             d = sent(r, host, way, Announcement(ServicePort[r]))
      PROVE  FALSE
  BY <1>1, <1>4 DEF sent, Announcement
<1>5. ASSUME NEW o \in Scanners, req[o] = "unsent",
             d \in Multicast(o, Request(collectorPort[o]))
      PROVE  FALSE
  BY <1>3, <1>5 DEF Multicast, ToRequest
<1>6. ASSUME NEW o \in Scanners, NEW host \in pending[o],
             req[o] = "unicasting",
             d \in Unicast(o, host, Request(collectorPort[o]))
      PROVE  FALSE
  BY <1>3, <1>6 DEF Unicast, ToRequest
<1>7. ASSUME NEW r \in Servers, NEW host,
             \/ d \in Multicast(r, Announcement(ServicePort[r]))
             \/ d \in Unicast(r, host, Announcement(ServicePort[r]))
      PROVE  FALSE
  BY <1>4, <1>7 DEF Multicast, Unicast
<1> QED
  BY <1>2, <1>5, <1>6, <1>7, DatagramArises

\* A datagram of p is known by its packet, its destination and its way.
LEMMA DatagramOfProcess ==
  ASSUME NEW d \in Datagram, NEW p \in Procs, NEW packet,
         d.src = [host |-> HostOf[p], port |-> EphemeralPort],
         d.dst.port = DiscoveryPort[p], d.packet = packet
  PROVE  d = sent(p, d.dst.host, d.via, packet)
BY DEF sent, Datagram, SocketAddr

\* No handler of s starts to answer c without a request.
LEMMA NoNewCall ==
  ASSUME IInv, [Next]_vars, NEW s \in Servers, NEW c \in Scanners,
         collectorPort[c] # 0, OwnsCollectorPort(c),
         \A via \in {"multicast", "unicast"} :
           sent(c, HostOf[s], via, Request(collectorPort[c])) \notin net,
         ~Answering(s, c)
  PROVE  ~Answering(s, c)'
<1> SUFFICES ASSUME NEW k \in calls', k.server = s, CallsCollectorOf(k, c)',
                    k.peer \subseteq {c}
             PROVE  FALSE
  BY DEF Answering
<1>1. CallsCollectorOf(k, c)
  BY MonotoneStep DEF IInv, Monotone, CallsCollectorOf
<1>2. k \notin calls
  BY <1>1 DEF Answering
<1>3. ASSUME NEW r \in Servers, NEW d \in net, r \in Receivers(d.dst),
             k \in handle_packet(r, d)
      PROVE  FALSE
  <2>1. d \in Datagram /\ d.via \in {"multicast", "unicast"} /\ c \in Procs
    BY DEF IInv, TypeOK, LanTypeOK, Datagram, Procs
  <2>2. /\ r = s /\ d.dst.host = HostOf[s] /\ d.src.host = HostOf[c]
        /\ d.packet.type = "request" /\ d.packet.port = collectorPort[c]
    BY <1>1, <1>3, <2>1, HandlerOfRequest DEF CallsCollectorOf, Receivers
  <2>3. d \notin ForeignDatagrams
    BY <2>2 DEF OwnsCollectorPort
  <2>4. \A o \in Servers : ~FromServer(d, o)
    BY <2>2 DEF FromServer, Announcement
  <2>5. PICK o \in Scanners : FromScanner(d, o)
    BY <2>3, <2>4 DEF IInv, DatagramInv
  <2>6. o = c
    BY <2>2, <2>5 DEF FromScanner, Request, OwnsCollectorPort
  <2>7. d = sent(c, HostOf[s], d.via, Request(collectorPort[c]))
    BY <2>1, <2>2, <2>5, <2>6, DatagramOfProcess DEF FromScanner
  <2> QED
    BY <2>1, <2>7
<1>4. ASSUME NEW l \in calls, NEW o \in Scanners, l.peer = {},
             k = [l EXCEPT !.peer = {o}]
      PROVE  FALSE
  <2>1. k.server = l.server /\ k.to = l.to
    BY <1>4 DEF IInv, TypeOK, ServerTypeOK, Call
  <2> QED
    BY <1>1, <1>4, <2>1 DEF Answering, CallsCollectorOf
<1> QED
  BY <1>2, <1>3, <1>4, CallArises

\* Scanner c does not report the service of s if nothing was under way.
LEMMA NoNewReport ==
  ASSUME IInv, [Next]_vars, NEW s \in Servers, NEW c \in Scanners,
         OwnsService(s), ~Answering(s, c), ServiceOf(s) \notin Reports(c),
         \A via \in {"multicast", "unicast"} :
           sent(s, HostOf[c], via, Announcement(ServicePort[s])) \notin net
  PROVE  ServiceOf(s) \notin Reports(c)'
<1> DEFINE service == ServiceOf(s)
<1>1. service \notin ForeignServices
  BY DEF OwnsService
<1>2. ASSUME NEW d \in net, c \in Receivers(d.dst),
             service \in UNION {extract_service(packet, d.src) :
                                   packet \in decode(d.packet)}
      PROVE  FALSE
  <2>1. d \in Datagram /\ d.via \in {"multicast", "unicast"} /\ s \in Procs
    BY DEF IInv, TypeOK, LanTypeOK, Datagram, Procs
  <2>2. /\ service = [host |-> d.src.host, port |-> d.packet.port]
        /\ d.packet.type = "announcement" /\ d.dst.host = HostOf[c]
    BY <1>2, <2>1, ServiceOfAnnouncement DEF Receivers
  <2>3. d \notin ForeignDatagrams
    BY <1>1, <2>2 DEF ForeignServices
  <2>4. \A o \in Scanners : ~FromScanner(d, o)
    BY <2>2 DEF FromScanner, Request
  <2>5. PICK r \in Servers : FromServer(d, r)
    BY <2>3, <2>4 DEF IInv, DatagramInv
  <2>6. r = s
    BY <2>2, <2>5 DEF FromServer, Announcement, OwnsService, ServiceOf
  <2>7. d = sent(s, HostOf[c], d.via, Announcement(ServicePort[s]))
    BY <2>1, <2>2, <2>5, <2>6, DatagramOfProcess DEF FromServer
  <2> QED
    BY <2>1, <2>7
<1>3. ASSUME NEW k \in calls, c \in k.peer, service = ServiceOf(k.server)
      PROVE  FALSE
  <2>1. k.server \in Servers
    BY DEF IInv, TypeOK, ServerTypeOK, Call
  <2>2. k.server = s
    BY <1>3, <2>1 DEF OwnsService
  <2>3. CallsCollectorOf(k, c) /\ k.peer = {c}
    BY <1>3 DEF IInv, CallInv, CallOrigin
  <2> QED
    BY <2>2, <2>3 DEF Answering
<1>4. service \notin Reports(c)
  OBVIOUS
<1>5. ASSUME NEW report \in Reports(c)', report = service
      PROVE  FALSE
  BY <1>1, <1>2, <1>3, <1>4, <1>5, ReportArises DEF IInv
<1> QED
  BY <1>5 DEF ServiceOf

\* Once nothing is under way between a server and a scanner that has not
\* reported it, the scanner never reports it (announce in server.rs and
\* send_requests in scanner.rs send once, and nobody else speaks for them).
THEOREM NoSecondChance == Spec => MissedForGood
<1>1. ASSUME IInv, [Next]_vars, NEW s \in Servers, NEW c \in Scanners,
             Missed(s, c), OwnsService(s), OwnsCollectorPort(c)'
      PROVE  Missed(s, c)'
  <2>1. /\ srv[s] # "idle" /\ collectorPort[c] # 0
        /\ \A via \in {"multicast", "unicast"} :
             /\ ~ToAnnounce(s, c, via) /\ ~ToRequest(c, s, via)
             /\ sent(s, HostOf[c], via, Announcement(ServicePort[s])) \notin net
             /\ sent(c, HostOf[s], via, Request(collectorPort[c])) \notin net
        /\ ~Answering(s, c)
        /\ ServiceOf(s) \notin Reports(c)
    BY <1>1 DEF Missed, AnnouncementUnderway, ResponseUnderway
  <2>2. Monotone /\ TypeOK
    BY <1>1, MonotoneStep DEF IInv
  <2>3. /\ srv'[s] # "idle" /\ collectorPort'[c] = collectorPort[c]
        /\ OwnsCollectorPort(c)
    BY <1>1, <2>1, <2>2, OwnsCollectorPortBefore DEF Monotone
  <2>4. \A via \in {"multicast", "unicast"} : ~ToAnnounce(s, c, via)'
    BY <1>1, <2>1, <2>2, NothingToAnnounce
  <2>5. \A via \in {"multicast", "unicast"} : ~ToRequest(c, s, via)'
    BY <1>1, <2>1, <2>2, NothingToRequest
  <2>6. \A via \in {"multicast", "unicast"} :
          sent(s, HostOf[c], via, Announcement(ServicePort[s])) \notin net'
    BY <1>1, <2>1, NoNewAnnouncement
  <2>7. \A via \in {"multicast", "unicast"} :
          sent(c, HostOf[s], via, Request(collectorPort'[c])) \notin net'
    BY <1>1, <2>1, <2>3, NoNewRequest
  <2>8. ~Answering(s, c)'
    BY <1>1, <2>1, <2>3, NoNewCall
  <2>9. ServiceOf(s) \notin Reports(c)'
    BY <1>1, <2>1, NoNewReport
  <2>10. ~Discovered(s, c)'
    BY <2>9 DEF Discovered, Reports, ServiceOf
  <2> QED
    BY <2>1, <2>3, <2>4, <2>5, <2>6, <2>7, <2>8, <2>9, <2>10
       DEF Missed, AnnouncementUnderway, ResponseUnderway, ServiceOf
<1>2. IInv /\ [Next]_vars =>
        [\A s \in Servers, c \in Scanners :
           Missed(s, c) /\ OwnsService(s) /\ OwnsCollectorPort(c)'
             => Missed(s, c)']_vars
  BY <1>1
<1> QED
  BY <1>2, Inductive, PTL DEF Spec, MissedForGood

-----------------------------------------------------------------------------
(***************************************************************************)
(* What a server that has returned no longer does.                         *)
(***************************************************************************)

\* It never binds its socket again: only Listen does.
LEMMA StaysUnbound ==
  ASSUME TypeOK, ControlInv, [Next]_vars, NEW s \in Servers, srv[s] = "stopped"
  PROVE  s \notin bound'
<1>1. s \notin bound
  BY DEF ControlInv, ServerControl
<1>2. CASE bound' \subseteq bound
  BY <1>1, <1>2
<1>3. CASE LanNext
  BY <1>2, <1>3 DEF LanNext, Lose, Inject
<1>4. CASE ServerNext
  <2>1. ASSUME NEW r \in Servers, Return(r)
        PROVE  bound' \subseteq bound
    BY <2>1 DEF Return
  <2>2. ASSUME NEW r \in Servers, srv[r] = "unicasting", new_socket(r)
        PROVE  s \notin bound'
    BY <1>1, <2>2 DEF new_socket
  <2> QED
    BY <1>2, <1>4, <2>1, <2>2
       DEF ServerNext, Serve, ScanForTargets, AnnounceByMulticast,
           AnnounceByUnicast, Listen, ReceivePacket, ReceiveFails, Stop, lanVars
<1>5. CASE ScannerNext
  <2>1. ASSUME NEW c \in Scanners, NEW how, CloseStream(c, how)
        PROVE  bound' \subseteq bound
    BY <2>1 DEF CloseStream
  <2>2. ASSUME NEW c \in Scanners, new_socket(c)
        PROVE  s \notin bound'
    BY <1>1, <2>2, LanAssumption DEF new_socket
  <2> QED
    BY <1>2, <1>5, <2>1, <2>2
       DEF ScannerNext, Scan, BindReceiver, RequestByMulticast,
           ScanForNeighbors, RequestByUnicast, ReceiveAnnouncement,
           ReceiveAnnouncementFails, YieldResponse, GrpcFails, ForeignSubmit,
           DropStream, SendRequestsFails, lanVars
<1> QED
  BY <1>2, <1>3, <1>4, <1>5
     DEF Next, vars, lanVars, Connect, Submit, CallFails, End, EndOfStream,
         CloseStream

\* It starts no handler and connects for none.
LEMMA NoCallAfterReturn ==
  ASSUME IInv, [Next]_vars, NEW s \in Servers, srv[s] = "stopped",
         NEW k \in calls' \ calls
  PROVE  k.server # s
<1> USE DEF IInv
<1>1. ASSUME NEW r \in Servers, NEW d \in net, r \in Receivers(d.dst),
             k \in handle_packet(r, d)
      PROVE  k.server # s
  <2>1. d \in Datagram
    BY DEF TypeOK, LanTypeOK
  <2>2. k.server = r /\ r \in bound
    BY <1>1, <2>1, HandlerOfRequest DEF Receivers
  <2> QED
    BY <2>2 DEF ControlInv, ServerControl
<1>2. ASSUME NEW l \in calls, NEW o \in Scanners, l.peer = {},
             k = [l EXCEPT !.peer = {o}]
      PROVE  k.server # s
  <2>1. k.server = l.server
    BY <1>2 DEF TypeOK, ServerTypeOK, Call
  <2> QED
    BY <1>2, <2>1 DEF CallInv
<1> QED
  BY <1>1, <1>2, CallArises

\* It announces nothing.
LEMMA NoAnnouncementAfterReturn ==
  ASSUME [Next]_vars, NEW s \in Servers, srv[s] = "stopped", OwnsService(s),
         NEW d \in net' \ net
  PROVE  ~FromServer(d, s)'
<1> SUFFICES ASSUME FromServer(d, s)' PROVE FALSE
  OBVIOUS
<1>1. /\ d.src.host = HostOf[s]
      /\ d.packet.type = "announcement" /\ d.packet.port = ServicePort[s]
  BY DEF FromServer, Announcement
<1>2. d \notin ForeignDatagrams
  BY <1>1 DEF OwnsService, ForeignServices, ServiceOf
<1>3. ASSUME NEW r \in Servers, NEW host, NEW way,
             d = sent(r, host, way, Announcement(ServicePort[r]))
      PROVE  r = s
  <2>1. HostOf[r] = HostOf[s] /\ ServicePort[r] = ServicePort[s]
    BY <1>1, <1>3 DEF sent, Announcement
  <2> QED
    BY <2>1 DEF OwnsService, ServiceOf
<1>4. ASSUME NEW o \in Scanners, NEW host, NEW way,
             d = sent(o, host, way, Request(collectorPort[o]))
      PROVE  FALSE
  BY <1>1, <1>4 DEF sent, Request
<1>5. ASSUME NEW r \in Servers, NEW host,
             \/ d \in Multicast(r, Announcement(ServicePort[r]))
             \/ d \in Unicast(r, host, Announcement(ServicePort[r]))
      PROVE  r = s
  BY <1>3, <1>5 DEF Multicast, Unicast
<1>6. ASSUME NEW o \in Scanners, NEW host,
             \/ d \in Multicast(o, Request(collectorPort[o]))
             \/ d \in Unicast(o, host, Request(collectorPort[o]))
      PROVE  FALSE
  BY <1>4, <1>6 DEF Multicast, Unicast
<1> QED
  BY <1>2, <1>5, <1>6, DatagramArises

\* A server that has returned is silent (serve_internal in server.rs: what
\* try_for_each_concurrent and try_join_all run is dropped with them).
THEOREM SilentAfterReturn == Spec => StoppedServerIsSilent
<1>1. ASSUME IInv, [Next]_vars, NEW s \in Servers, srv[s] = "stopped"
      PROVE  /\ s \notin bound'
             /\ \A k \in calls' \ calls : k.server # s
             /\ OwnsService(s) => \A d \in net' \ net : ~FromServer(d, s)'
  BY <1>1, StaysUnbound, NoCallAfterReturn, NoAnnouncementAfterReturn DEF IInv
<1>2. IInv /\ [Next]_vars =>
        [\A s \in Servers : srv[s] = "stopped" =>
           /\ s \notin bound'
           /\ \A k \in calls' \ calls : k.server # s
           /\ OwnsService(s) => \A d \in net' \ net : ~FromServer(d, s)']_vars
  BY <1>1
<1> QED
  BY <1>2, Inductive, PTL DEF Spec, StoppedServerIsSilent

=============================================================================
