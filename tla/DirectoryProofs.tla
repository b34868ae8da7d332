--------------------------- MODULE DirectoryProofs ---------------------------
(***************************************************************************)
(* Discovery implements Directory, for every LAN: each of its steps is a   *)
(* step of the directory or leaves the directory as it is.                 *)
(***************************************************************************)
EXTENDS DiscoveryProofs

\* The directory consists of the states of servers and streams, collector
\* ports and reports.
LEMMA DirectoryStutters ==
  ASSUME UNCHANGED <<srv, scn, collectorPort, discovered>>
  PROVE  UNCHANGED Dir!vars
BY DEF Dir!vars, Published, SharedPorts, OwnsCollectorPort, Over

\* Nothing that has been published is ever withdrawn, and a collector port
\* that is not a scanner's own never becomes so.
LEMMA DirectoryGrows ==
  ASSUME Monotone, TypeOK
  PROVE  Published \subseteq Published' /\ SharedPorts \subseteq SharedPorts'
<1>1. Published \subseteq Published'
  BY DEF Monotone, Published
<1>2. ASSUME NEW c \in SharedPorts PROVE c \in SharedPorts'
  BY OwnsCollectorPortBefore DEF SharedPorts, Monotone
<1>3. QED
  BY <1>1, <1>2

\* A server that goes on publishes its service if it has just started.
LEMMA ServerSimulation ==
  ASSUME IInv, ServerNext, UNCHANGED scannerVars, Monotone
  PROVE  [Dir!Next]_(Dir!vars)
<1>1. PICK s \in Servers, state \in ServerStates :
        srv' = [srv EXCEPT ![s] = state] \/ srv' = srv
  BY DEF ServerNext, Serve, ScanForTargets, AnnounceByMulticast,
         AnnounceByUnicast, Listen, ReceivePacket, ReceiveFails, Stop, Return,
         ServerStates
<1>2. UNCHANGED <<SharedPorts, discovered, Over>>
  BY DEF scannerVars, SharedPorts, OwnsCollectorPort, Over
<1>3. Published' \subseteq Published \cup {s}
  BY <1>1 DEF Published, IInv, TypeOK, ServerTypeOK
<1>4. Published \subseteq Published'
  BY DirectoryGrows DEF IInv
<1>5. CASE Published' = Published
  BY <1>2, <1>5 DEF Dir!vars
<1>6. CASE Published' # Published
  <2>1. Published' = Published \cup {s} /\ s \in Published'
    BY <1>3, <1>4, <1>6
  <2>2. DiscoveryPort[s] # 0
    BY <2>1 DEF Published
  <2>3. Dir!Publish(s)
    BY <1>2, <2>1, <2>2 DEF Dir!Publish
  <2>4. QED
    BY <2>3 DEF Dir!Next
<1>7. QED
  BY <1>5, <1>6

\* A stream that ends or is dropped closes its scan.
LEMMA CloseSimulation ==
  ASSUME TypeOK, NEW c \in Scanners, NEW how \in {"ended", "dropped"},
         CloseStream(c, how), UNCHANGED serverVars
  PROVE  Dir!Next
<1>1. UNCHANGED <<Published, SharedPorts, discovered>>
  BY DEF CloseStream, serverVars, Published, SharedPorts, OwnsCollectorPort
<1>2. Over' = Over \cup {c}
  BY DEF CloseStream, Over, TypeOK, ScannerTypeOK
<1>3. Dir!Close(c)
  BY <1>1, <1>2 DEF Dir!Close
<1>4. QED
  BY <1>3 DEF Dir!Next

\* What is justified is known to the directory.
LEMMA JustifiedIsKnown ==
  ASSUME NEW c \in Scanners, collectorPort[c] # 0, NEW service,
         Justified(c, service)
  PROVE  /\ Dir!Known(c, service)
         /\ service \in ForeignServices
              \cup {[t \in Servers |-> ServiceOf(t)][s] : s \in Servers}
<1>1. ASSUME NEW s \in Servers, NEW port, Publishes(s, service, port)
      PROVE  /\ s \in Published /\ service = ServiceOf(s)
             /\ DiscoveryPort[s] = port
  BY <1>1 DEF Publishes, Published
<1>2. CASE service \in ForeignServices
  BY <1>2 DEF Dir!Known
<1>3. ASSUME NEW s \in Servers, NEW port \in ScannedWithPortOf(c),
             Publishes(s, service, port)
      PROVE  Dir!Known(c, service) /\ service = ServiceOf(s)
  <2>1. s \in Published /\ service = ServiceOf(s) /\ DiscoveryPort[s] = port
    BY <1>1, <1>3
  <2>2. CASE ~OwnsCollectorPort(c)
    BY <2>1, <2>2 DEF Dir!Known, SharedPorts
  <2>3. CASE OwnsCollectorPort(c)
    <3>1. port = DiscoveryPort[c]
      BY <2>3 DEF OwnsCollectorPort, ScannedWithPortOf
    <3>2. QED
      BY <2>1, <3>1 DEF Dir!Known
  <2>4. QED
    BY <2>2, <2>3, <2>1
<1>4. QED
  BY <1>2, <1>3 DEF Justified

\* A stream that yields at most one justified service reports it, or nothing.
LEMMA ReportSimulation ==
  ASSUME TypeOK, ControlInv, NEW c \in Scanners, scn[c] = "polling",
         UNCHANGED <<srv, collectorPort>>,
         scn' \in {scn, [scn EXCEPT ![c] = "stuck"]}, NEW services,
         discovered' = [discovered EXCEPT ![c] = @ \cup services],
         \A service \in services : Justified(c, service),
         \A service, other \in services : service = other
  PROVE  [Dir!Next]_(Dir!vars)
<1>1. UNCHANGED <<Published, SharedPorts, Over>>
  BY DEF Published, SharedPorts, OwnsCollectorPort, Over, TypeOK, ScannerTypeOK
<1>2. collectorPort[c] # 0 /\ c \notin Over
  BY DEF ControlInv, ScannerControl, Open, Over
<1>3. CASE services = {}
  BY <1>1, <1>3 DEF Dir!vars, TypeOK, ScannerTypeOK
<1>4. CASE services # {}
  <2>1. PICK service \in services : services = {service}
    BY <1>4
  <2>2. Dir!Report(c, service)
    BY <1>1, <1>2, <2>1, JustifiedIsKnown DEF Dir!Report
  <2>3. QED
    BY <1>2, <2>1, <2>2, JustifiedIsKnown DEF Dir!Next
<1>5. QED
  BY <1>3, <1>4

\* A packet describes at most one service.
LEMMA OneService ==
  ASSUME NEW d \in Datagram,
         NEW x \in UNION {extract_service(p, d.src) : p \in decode(d.packet)},
         NEW y \in UNION {extract_service(p, d.src) : p \in decode(d.packet)}
  PROVE  x = y
BY ServiceOfAnnouncement

\* The first poll of a stream may make collector ports shared.
LEMMA ScanSimulation ==
  ASSUME IInv, Monotone, NEW c \in Scanners, Scan(c), UNCHANGED serverVars
  PROVE  Dir!Next
<1>1. CASE CloseStream(c, "ended")
  BY <1>1, CloseSimulation DEF IInv
<1>2. CASE scn' = [scn EXCEPT ![c] = "polling"] /\ UNCHANGED discovered
  <2>1. UNCHANGED <<Published, discovered, Over>>
    BY <1>2 DEF Scan, serverVars, Published, Over, IInv, TypeOK, ScannerTypeOK
  <2>2. SharedPorts' = SharedPorts \cup SharedPorts'
    BY DirectoryGrows DEF IInv
  <2>3. SharedPorts' \in SUBSET Scanners
    BY DEF SharedPorts
  <2>4. Dir!Share(SharedPorts')
    BY <2>1, <2>2 DEF Dir!Share
  <2>5. QED
    BY <2>3, <2>4 DEF Dir!Next
<1>3. QED
  BY <1>1, <1>2 DEF Scan

\* Every step of a scanner is one of the directory.
LEMMA ScannerSimulation ==
  ASSUME IInv, ScannerNext, UNCHANGED serverVars, Monotone
  PROVE  [Dir!Next]_(Dir!vars)
<1> USE DEF IInv
<1>1. CASE UNCHANGED <<scn, collectorPort, discovered>>
  BY <1>1, DirectoryStutters DEF serverVars
<1>2. ASSUME NEW c \in Scanners, CloseStream(c, "dropped")
      PROVE  Dir!Next
  BY <1>2, CloseSimulation
<1>3. ASSUME NEW c \in Scanners, Scan(c) PROVE Dir!Next
  BY <1>3, ScanSimulation
<1>4. ASSUME NEW c \in Scanners, NEW d \in net, ReceiveAnnouncement(c, d)
      PROVE  [Dir!Next]_(Dir!vars)
  <2> DEFINE services == UNION {extract_service(packet, d.src) :
                                  packet \in decode(d.packet)}
  <2>1. c \in Receivers(d.dst) /\ d \in Datagram
    BY <1>4 DEF ReceiveAnnouncement, recv_from, TypeOK, LanTypeOK
  <2>2. \A service \in services : Justified(c, service)
    BY <2>1, AnnouncementJustified
  <2>3. \A service, other \in services : service = other
    BY <2>1, OneService
  <2>4. /\ scn[c] = "polling"
        /\ UNCHANGED <<srv, collectorPort>>
        /\ scn' \in {scn, [scn EXCEPT ![c] = "stuck"]}
        /\ discovered' = [discovered EXCEPT ![c] = @ \cup services]
    BY <1>4 DEF ReceiveAnnouncement, serverVars
  <2> HIDE DEF services
  <2>5. QED
    BY <2>2, <2>3, <2>4, ReportSimulation
<1>5. ASSUME NEW c \in Scanners, YieldResponse(c)
      PROVE  [Dir!Next]_(Dir!vars)
  <2>1. chan[c] \in Seq(Response) /\ chan[c] # <<>>
    BY <1>5 DEF YieldResponse, TypeOK, ScannerTypeOK
  <2>2. Head(chan[c]) = chan[c][1] /\ 1 \in 1 .. Len(chan[c])
    BY <2>1
  <2>3. Justified(c, Head(chan[c]))
    BY <2>2 DEF ReportInv, Reports
  <2>4. /\ scn[c] = "polling"
        /\ UNCHANGED <<srv, scn, collectorPort>>
        /\ discovered' = [discovered EXCEPT ![c] = @ \cup {Head(chan[c])}]
    BY <1>5 DEF YieldResponse, serverVars
  <2>5. PICK services : services = {Head(chan[c])}
    OBVIOUS
  <2>6. /\ discovered' = [discovered EXCEPT ![c] = @ \cup services]
        /\ \A service \in services : Justified(c, service)
        /\ \A service, other \in services : service = other
    BY <2>3, <2>4, <2>5
  <2>7. QED
    BY <2>4, <2>6, ReportSimulation
<1>6. QED
  BY <1>1, <1>2, <1>3, <1>4, <1>5
     DEF ScannerNext, BindReceiver, RequestByMulticast, ScanForNeighbors,
         RequestByUnicast, ReceiveAnnouncementFails, GrpcFails, ForeignSubmit,
         DropStream, SendRequestsFails

\* Every step of the system is a step of the directory or a stutter.
LEMMA StepSimulation ==
  ASSUME IInv, [Next]_vars
  PROVE  [Dir!Next]_(Dir!vars)
<1>1. Monotone
  BY MonotoneStep DEF IInv
<1>2. CASE UNCHANGED <<srv, scn, collectorPort, discovered>>
  BY <1>2, DirectoryStutters
<1>3. ASSUME NEW c \in Scanners, End(c) PROVE Dir!Next
  BY <1>3, CloseSimulation DEF End, EndOfStream, IInv
<1>4. QED
  BY <1>1, <1>2, <1>3, ServerSimulation, ScannerSimulation
     DEF Next, vars, lanVars, serverVars, scannerVars, Connect, Submit,
         CallFails

\* The protocol of servers and scanners implements the directory of services.
THEOREM Refinement == Spec => ImplementsDirectory
<1>1. Init => Dir!Init
  BY DEF Init, ServerInit, ScannerInit, Dir!Init, Published, SharedPorts, Over
<1>2. IInv /\ [Next]_vars => [Dir!Next]_(Dir!vars)
  BY StepSimulation
<1>3. QED
  BY <1>1, <1>2, Inductive, PTL DEF Spec, ImplementsDirectory, Dir!Spec

=============================================================================
