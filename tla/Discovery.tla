------------------------------ MODULE Discovery ------------------------------
(***************************************************************************)
(* Servers and scanners on one LAN (doc/oneshot-scan.d2): a scanner sends  *)
(* its request to the discovery address, the servers that hear it submit   *)
(* their response to the scanner's collector via gRPC, and a server that   *)
(* starts announces itself to the scanners that listen.                    *)
(***************************************************************************)
EXTENDS Server, Scanner

vars == <<lanVars, serverVars, scannerVars>>

Init == LanInit /\ ServerInit /\ ScannerInit

-----------------------------------------------------------------------------
(***************************************************************************)
(* The gRPC call of a handler (response_sender.rs) to a collector.         *)
(***************************************************************************)

\* Scanner c has a collector at this address.
CollectorAt(c, address) ==
  /\ grpc[c] = "serving"
  /\ HostOf[c] = address.host
  /\ collectorPort[c] = address.port

\* The connection of call k is established; the task of the server that waits
\* for it must not be stuck.
Connect(k, c) ==
  /\ srv[k.server] # "stuck"
  /\ CollectorAt(c, k.to) /\ Collecting(c)
  /\ Connected(k, c)
  /\ UNCHANGED <<srv, targets, lanVars, scannerVars>>

\* The collector of c serves the SubmitResponse of call k.  A connection
\* outlives the stream it was accepted for.
Submit(k, c) ==
  /\ c \in k.peer
  /\ Finished(k)
  /\ submit_response(c, HostOf[k.server], ServicePort[k.server])
  /\ UNCHANGED <<srv, targets, lanVars, scn, recv, req, pending,
                 collectorPort, grpc, discovered>>

\* The call fails: nobody listens at its address, its connection breaks, or
\* its server has gone.  At the address of a scanner that is stuck it hangs.
CallFails(k) ==
  /\ \/ /\ k.peer = {} /\ srv[k.server] # "stuck"
        /\ "connect" \in Faults \/ \A c \in Scanners : ~CollectorAt(c, k.to)
     \/ /\ k.peer # {}
        /\ "connect" \in Faults \/ srv[k.server] = "stopped"
  /\ Finished(k)
  /\ UNCHANGED <<srv, targets, lanVars, scannerVars>>

End(c) ==
  /\ EndOfStream(c, \E k \in calls : c \in k.peer)
  /\ UNCHANGED serverVars

Next ==
  \/ LanNext /\ UNCHANGED <<serverVars, scannerVars>>
  \/ ServerNext /\ UNCHANGED scannerVars
  \/ ScannerNext /\ UNCHANGED serverVars
  \/ \E k \in calls, c \in Scanners : Connect(k, c) \/ Submit(k, c)
  \/ \E k \in calls : CallFails(k)
  \/ \E c \in Scanners : End(c)

Spec == Init /\ [][Next]_vars

(***************************************************************************)
(* Fairness: the runtime polls every task that is ready, `select` polls    *)
(* its sources in turn, and the kernel hands over what its sockets have    *)
(* received.  Nothing forces an application to start or to stop, and       *)
(* nothing forces a failing connection attempt to fail.                    *)
(***************************************************************************)
ServerTask(s) ==
  /\ \/ ScanForTargets(s)
     \/ AnnounceByMulticast(s)
     \/ AnnounceByUnicast(s)
     \/ Listen(s)
  /\ UNCHANGED scannerVars

ServerReceives(s) ==
  (\E d \in net : ReceivePacket(s, d)) /\ UNCHANGED scannerVars

RequestTask(c) ==
  /\ \/ BindReceiver(c)
     \/ RequestByMulticast(c)
     \/ ScanForNeighbors(c)
     \/ RequestByUnicast(c)
  /\ UNCHANGED serverVars

ScannerReceives(c) ==
  (\E d \in net : ReceiveAnnouncement(c, d)) /\ UNCHANGED serverVars

CollectorYields(c) == YieldResponse(c) /\ UNCHANGED serverVars

CollectorServes(s, c) ==
  \E k \in calls : k.server = s /\ (Connect(k, c) \/ Submit(k, c))

Fairness ==
  /\ \A s \in Servers : WF_vars(ServerTask(s)) /\ WF_vars(ServerReceives(s))
  /\ \A c \in Scanners : /\ WF_vars(RequestTask(c))
                         /\ WF_vars(ScannerReceives(c))
                         /\ WF_vars(CollectorYields(c))
  /\ \A s \in Servers, c \in Scanners : WF_vars(CollectorServes(s, c))

FairSpec == Spec /\ Fairness

-----------------------------------------------------------------------------
(***************************************************************************)
(* Safety                                                                  *)
(***************************************************************************)

\* Every variable has its type: servers and scanners only ever hold the
\* control states, addresses and datagrams their code can produce.
TypeOK == LanTypeOK /\ ServerTypeOK /\ ScannerTypeOK

\* Services that other programs make a scanner report.
ForeignServices ==
  {[host |-> d.src.host, port |-> d.packet.port] :
      d \in {f \in ForeignDatagrams : f.packet.type = "announcement"}}
    \cup {response \in ForeignResponses :
             Acceptable(response.host, response.port)}

\* A service that server s publishes on discovery port `port`.
Publishes(s, service, port) ==
  /\ srv[s] # "idle"
  /\ service = ServiceOf(s)
  /\ DiscoveryPort[s] = port
  /\ port # 0

\* No phantom: whatever `scan` yields (scanner.rs) is the address of a server
\* that has really been started with that service port on that host, or was
\* put on the LAN by another program.  The port never comes from the source
\* of a packet, and no packet is taken for one of the other type.
NoPhantomService ==
  \A c \in Scanners : \A service \in discovered[c] :
    \/ \E s \in Servers : Publishes(s, service, DiscoveryPort[s])
    \/ service \in ForeignServices

\* No other scanner of the same host has ever had the collector port of c,
\* and no foreign request names it.
OwnsCollectorPort(c) ==
  /\ \A other \in Scanners \ {c} :
       HostOf[other] = HostOf[c] => collectorPort[other] # collectorPort[c]
  /\ \A d \in ForeignDatagrams :
       d.packet.type = "request" /\ d.src.host = HostOf[c]
         => d.packet.port # collectorPort[c]

\* The discovery ports that have been scanned with the collector port of c: its
\* own, those of other scanners that have had the port, and those that foreign
\* requests naming it were sent to.
ScannedWithPortOf(c) ==
  {DiscoveryPort[o] :
      o \in {c} \cup {other \in Scanners :
                       /\ HostOf[other] = HostOf[c]
                       /\ collectorPort[other] = collectorPort[c]}}
    \cup
  {d.dst.port :
      d \in {f \in ForeignDatagrams : /\ f.packet.type = "request"
                                     /\ f.src.host = HostOf[c]
                                     /\ f.packet.port = collectorPort[c]}}

\* Isolation (lib.rs: "Each application must use its own discovery port"): a
\* scanner reports only services published to its own discovery port, however
\* late the responses arrive.  The one exception is the reuse of a collector
\* port, and it goes no further than this: a service of another discovery port
\* is reported only if somebody with the collector port of c has scanned that
\* very port.
IsolatedUnlessPortReused ==
  \A c \in Scanners : \A service \in discovered[c] :
    \/ \E s \in Servers : \E port \in ScannedWithPortOf(c) :
         Publishes(s, service, port)
    \/ service \in ForeignServices

-----------------------------------------------------------------------------
(***************************************************************************)
(* Liveness, on a LAN that does not lose what a property relies on.        *)
(***************************************************************************)

\* s and c belong to one application, and s has a port that can be reported.
Related(s, c) ==
  DiscoveryPort[s] = DiscoveryPort[c] /\ ServicePort[s] # 0

Discovered(s, c) == ServiceOf(s) \in discovered[c]

\* What p sends this way always gets to the device of q.
Reaches(p, q, via) ==
  /\ "loss" \notin Faults
  /\ via = "multicast" => /\ <<HostOf[p], HostOf[q]>> \notin MulticastLoss
                          /\ HostOf[p] # HostOf[q] \/ MulticastLoop
  /\ via = "unicast" => \A scan \in NeighborScans[HostOf[p]] : HostOf[q] \in scan

\* A server that has yet to announce itself is discovered by every scanner
\* that already listens and that it can reach, unless one of them stops.
LateServerIsDiscovered ==
  \A s \in Servers, c \in Scanners :
    Related(s, c) /\ (\E via \in {"multicast", "unicast"} : Reaches(s, c, via)) =>
    ((srv[s] = "scanning" /\ recv[c] = "listening")
       ~> (Discovered(s, c) \/ srv[s] = "stopped" \/ scn[c] # "polling"))

\* A scanner that has yet to send its request discovers every server that
\* already serves and that it can reach, unless one of them stops or the request could not be
\* sent.  Handlers that hang (a collector that never answers) do not delay
\* the others: the server handles packets without a limit.
LateScannerDiscovers ==
  \A s \in Servers, c \in Scanners :
    Related(s, c) /\ (\E via \in {"multicast", "unicast"} : Reaches(c, s, via)) =>
    ((srv[s] = "serving" /\ scn[c] = "polling" /\ req[c] = "unsent")
       ~> \/ Discovered(s, c)
          \/ srv[s] # "serving"
          \/ scn[c] # "polling" \/ req[c] = "failed" \/ grpc[c] = "closed")

\* README: "When multicast is unavailable [...] devices connected directly to
\* the host device are still discoverable as IP neighbors."
NeighborIsDiscovered ==
  \A s \in Servers, c \in Scanners :
    Related(s, c) /\ (\A scan \in NeighborScans[HostOf[c]] : HostOf[s] \in scan)
      => ((srv[s] = "serving" /\ scn[c] = "polling" /\ req[c] = "unsent")
            ~> \/ Discovered(s, c)
               \/ srv[s] # "serving" \/ scn[c] # "polling")

\* lib.rs: "Other devices within the same LAN can use [scan] to discover it."
\* A server that serves for good and a scanner that scans for good meet.
EventuallyDiscovered ==
  \A s \in Servers, c \in Scanners : Related(s, c) =>
    (<>[](srv[s] = "serving" /\ recv[c] = "listening" /\ Collecting(c))
       => <>Discovered(s, c))

-----------------------------------------------------------------------------
(***************************************************************************)
(* The inductive invariant behind the safety properties: where every       *)
(* datagram, call and report comes from.                                   *)
(***************************************************************************)

FromServer(d, s) ==
  /\ srv[s] # "idle"
  /\ DiscoveryPort[s] # 0
  /\ d.src = [host |-> HostOf[s], port |-> EphemeralPort]
  /\ d.dst.port = DiscoveryPort[s]
  /\ d.packet = Announcement(ServicePort[s])

FromScanner(d, c) ==
  /\ collectorPort[c] # 0
  /\ d.src = [host |-> HostOf[c], port |-> EphemeralPort]
  /\ d.dst.port = DiscoveryPort[c]
  /\ d.packet = Request(collectorPort[c])

DatagramInv ==
  \A d \in net : \/ d \in ForeignDatagrams
                 \/ \E s \in Servers : FromServer(d, s)
                 \/ \E c \in Scanners : FromScanner(d, c)

CallsCollectorOf(k, c) ==
  /\ collectorPort[c] # 0
  /\ k.to.host = HostOf[c]
  /\ k.to.port = collectorPort[c]

AskedByForeigner(k) ==
  \E d \in ForeignDatagrams : /\ d.packet.type = "request"
                              /\ d.src.host = k.to.host
                              /\ d.packet.port = k.to.port
                              /\ d.dst.port = DiscoveryPort[k.server]

CallOrigin(k) ==
  /\ srv[k.server] # "idle"
  /\ DiscoveryPort[k.server] # 0
  /\ \/ AskedByForeigner(k)
     \/ \E c \in Scanners : /\ CallsCollectorOf(k, c)
                            /\ DiscoveryPort[c] = DiscoveryPort[k.server]
  /\ \A c \in k.peer : CallsCollectorOf(k, c) /\ k.peer = {c}

CallInv ==
  \A k \in calls : /\ CallOrigin(k)
                   /\ k.peer = {} => srv[k.server] \in {"serving", "stuck"}

Justified(c, service) ==
  \/ service \in ForeignServices
  \/ \E s \in Servers : \E port \in ScannedWithPortOf(c) :
       Publishes(s, service, port)

Reports(c) == discovered[c] \cup {chan[c][i] : i \in 1 .. Len(chan[c])}

ReportInv ==
  \A c \in Scanners : \A service \in Reports(c) : Justified(c, service)

ServerControl(s) ==
  /\ s \in bound => srv[s] \in {"serving", "stuck"}
  /\ srv[s] \notin {"idle", "stopped"} => DiscoveryPort[s] # 0

ScannerControl(c) ==
  /\ scn[c] = "idle" => collectorPort[c] = 0
  /\ Open(c) => collectorPort[c] # 0
  /\ collectorPort[c] = 0 => discovered[c] = {}
  /\ ~Open(c) => grpc[c] = "closed" /\ chan[c] = <<>>

ControlInv ==
  /\ \A s \in Servers : ServerControl(s)
  /\ \A c \in Scanners : ScannerControl(c)

IInv == TypeOK /\ DatagramInv /\ CallInv /\ ReportInv /\ ControlInv

-----------------------------------------------------------------------------
(***************************************************************************)
(* Nothing that will lead to a discovery gets lost on the way, which is    *)
(* what the liveness properties rest on besides fairness, and without it   *)
(* there is no discovery.                                                  *)
(***************************************************************************)

\* Server s has still to announce itself to scanner c.
ToAnnounce(s, c, via) ==
  \/ srv[s] = "scanning"
  \/ srv[s] = "multicasting" /\ (via = "multicast" \/ HostOf[c] \in targets[s])
  \/ srv[s] = "unicasting" /\ via = "unicast" /\ HostOf[c] \in targets[s]

AnnouncementUnderway(s, c, via) ==
  \/ ToAnnounce(s, c, via)
  \/ sent(s, HostOf[c], via, Announcement(ServicePort[s])) \in net
  \/ Discovered(s, c)

\* The announcement of a server gets to every scanner that listens on its
\* discovery port and device, and to nobody else there: it stays under way
\* until the scanner has reported the service, unless the server gives up
\* before it has sent it or the scan is over.
NoAnnouncementIsLost ==
  [][\A s \in Servers, c \in Scanners, via \in {"multicast", "unicast"} :
       /\ Reaches(s, c, via)
       /\ DiscoveryPort[s] = DiscoveryPort[c]
       /\ recv[c] = "listening"
       /\ AnnouncementUnderway(s, c, via)
       => \/ AnnouncementUnderway(s, c, via)'
          \/ ToAnnounce(s, c, via) /\ srv'[s] = "stopped"
          \/ scn'[c] # "polling"]_vars

\* Scanner c has still to send its request to server s.
ToRequest(c, s, via) ==
  \/ req[c] = "unsent"
  \/ /\ via = "unicast"
     /\ \/ req[c] = "scanning"
        \/ req[c] = "unicasting" /\ HostOf[s] \in pending[c]

\* A handler of s waits for the collector of c or has connected to it.
Answering(s, c) ==
  \E k \in calls : /\ k.server = s
                    /\ CallsCollectorOf(k, c)
                    /\ k.peer \subseteq {c}

ResponseUnderway(s, c, via) ==
  \/ ToRequest(c, s, via)
  \/ sent(c, HostOf[s], via, Request(collectorPort[c])) \in net
  \/ Answering(s, c)
  \/ ServiceOf(s) \in Reports(c)

\* The request of a scanner gets to a server that serves, and the response
\* back to the scanner that has asked, however collector ports are reused:
\* they stay under way until the service is reported, unless the server
\* stops, the collector closes, or the request could not be sent.
NoRequestIsLost ==
  [][\A s \in Servers, c \in Scanners, via \in {"multicast", "unicast"} :
       /\ Reaches(c, s, via) /\ "connect" \notin Faults
       /\ Related(s, c)
       /\ srv[s] = "serving" /\ Collecting(c)
       /\ ResponseUnderway(s, c, via)
       => \/ ResponseUnderway(s, c, via)'
          \/ srv'[s] # "serving" \/ ~Collecting(c)'
          \/ ToRequest(c, s, via) /\ req'[c] = "failed"]_vars

\* s has started, c has a collector, and nothing is under way between them:
\* neither an announcement nor a request nor a response.
Missed(s, c) ==
  /\ srv[s] # "idle"
  /\ collectorPort[c] # 0
  /\ \A via \in {"multicast", "unicast"} : /\ ~AnnouncementUnderway(s, c, via)
                                          /\ ~ResponseUnderway(s, c, via)

OwnsService(s) ==
  /\ ServiceOf(s) \notin ForeignServices
  /\ \A other \in Servers \ {s} : ServiceOf(other) # ServiceOf(s)

\* A server that has returned holds no socket, starts no handler, opens no
\* connection for one that was waiting, and announces nothing:
\* try_for_each_concurrent and try_join_all drop the futures they run.  What it
\* has sent or handed to a connection before may still arrive.
StoppedServerIsSilent ==
  [][\A s \in Servers : srv[s] = "stopped" =>
       /\ s \notin bound'
       /\ \A k \in calls' \ calls : k.server # s
       /\ OwnsService(s) => \A d \in net' \ net : ~FromServer(d, s)']_vars

\* Everything is sent once (announce in server.rs, send_requests in
\* scanner.rs): when nothing is under way any more between a server and a
\* scanner that has not reported it, the scanner never will, however long both
\* run, and no answer to somebody else makes up for it.
MissedForGood ==
  [][\A s \in Servers, c \in Scanners :
       Missed(s, c) /\ OwnsService(s) /\ OwnsCollectorPort(c)'
         => Missed(s, c)']_vars

\* What the first two need besides IInv: a discovery socket is bound by one
\* process of a device, a collector port by one scanner, and who listens has its socket.
SocketInv ==
  /\ \A p, q \in bound : SameSocket(p, q) => p = q
  /\ \A s \in Servers : srv[s] = "serving" => s \in bound
  /\ \A c \in Scanners : recv[c] = "listening" => c \in bound
  /\ \A c, d \in Scanners :
       /\ grpc[c] = "serving" /\ grpc[d] = "serving"
       /\ HostOf[c] = HostOf[d] /\ collectorPort[c] = collectorPort[d]
       => c = d

-----------------------------------------------------------------------------
(***************************************************************************)
(* Discovery implements the directory of services.                         *)
(***************************************************************************)

Published == {s \in Servers : srv[s] # "idle" /\ DiscoveryPort[s] # 0}

SharedPorts == {c \in Scanners : collectorPort[c] # 0 /\ ~OwnsCollectorPort(c)}

Over == {c \in Scanners : scn[c] \in {"ended", "dropped"}}

Dir == INSTANCE Directory WITH
  Port      <- DiscoveryPort,
  Offer     <- [s \in Servers |-> ServiceOf(s)],
  Foreign   <- ForeignServices,
  published <- Published,
  shared    <- SharedPorts,
  reported  <- discovered,
  over      <- Over

\* Every behavior of servers and scanners on the LAN is one of the directory:
\* a service is reported one at a time, after it has been published to the
\* scan's own discovery port, never by a scan that is over, and what has been
\* published or reported stays so (lib.rs, serve and scan).
ImplementsDirectory == Dir!Spec

=============================================================================
