# A TLA+ model of tansa

tansa discovers services within an IPv6 LAN. An application calls
`serve(discovery_port, service_port)` to publish a service and
`scan(discovery_port)` to get a stream of the services of other devices. This
directory models the protocol between the two as the code implements it, checks
it with TLC on small instances and proves its safety properties with TLAPS.

## 1. The system

### Components

| Part | Source | State | Operations |
|---|---|---|---|
| server | `main/src/server.rs`, `response_sender.rs` | progress of `serve`, neighbors still to be told, handlers in progress | announce (neighbor scan, multicast, unicast), receive, handle a packet, call a collector, return |
| scanner | `main/src/scanner.rs` | the joined stream: `send_requests`, discovery socket, collector | create the collector, bind, send the request (multicast, neighbor scan, unicast), receive announcements, yield, end, be dropped |
| response collector | `main/src/response_collector.rs` | TCP port, gRPC server, channel of services | bind, `submit_response`, yield, fail |
| protocol | `protocol/` | none | encode, decode, unwrap, port conversion |
| packet receiver | `main/src/packet.rs`, `network/udp_receiver.rs` | UDP socket, decode buffer | bind and join, receive, drop undecodable and IPv4 packets |
| UDP sender | `main/src/network/udp_sender.rs` | none (a fresh socket per datagram) | multicast, unicast |
| stream join | `main/src/stream.rs` | which source is polled next | poll, end |
| IP neighbor scanner | `main/src/network/ip_neighbor/` | none | choose a scanner, scan, filter |
| child processes | `main/src/process.rs` | child, pipes | `eval`, `run`, `probe` |
| CLI | `cli/src/main.rs` | none | `serve`, `scan` until the first error |

### Interactions

- Scanner to server: a UDP `DiscoveryPacket` with a `Request`, by multicast to
  the discovery port and by unicast to every IP neighbor. It carries the port
  of the scanner's collector; the address is the source of the datagram.
- Server to scanner: a gRPC `SubmitResponse` to that collector, carrying the
  service port. The scanner takes the address of the TCP peer.
- Server to scanner, unasked: one announcement when the server starts, by
  multicast and to its IP neighbors.
- Operating system: UDP sockets bound without address reuse (one process per
  host and discovery port), TCP ports handed out for `[::]:0` and reused.

### What is hard about it

Everything is sent once, over a network that loses, duplicates and reorders.
The server announces itself *before* it listens; the scanner's three sources
fail independently and an error is only an item of the stream; handlers run
concurrently without limit or timeout, are dropped when the receive loop ends,
and their connections outlive the stream they were accepted for; a collector
port may pass from one scanner to another while a response is under way. Below
the protocol, a malformed datagram is taken apart by several decodes, or by none
that ends; two sources are polled by one task while others fill them; the neighbors are found
by external commands, which run in other processes behind pipes and report on
a system that changes between two of them. `PROJECT.json` lists these hazards line by line.

### What makes each part correct

- server: it is silent once `serve` has returned, wherever it gave up; a slow collector does not
  hold up the others; whoever asks while it serves gets an answer.
- scanner and collector: nothing is reported that nobody published; only
  services of the scanner's own discovery port are reported, and those of another
  one at most by way of a collector port that has changed hands; nothing is
  reported once the stream is over; a server that starts later is noticed.
- protocol: packets of the wrong type and ports out of range are ignored.
- packet receiver: a well-formed datagram is handed over whatever malformed
  ones came before it, with its own source, and no datagram stops the receiver.
- stream join: nothing is lost, no wake-up is missed, no source starves.
- neighbors: they are found when multicast is not available; a scan misses none
  that is there all the time and sends through no wrong interface.
- child processes: every call returns, and tells the truth about the child.

## 2. The modules

    Protocol   packets and the pure functions on them
      Lan      datagrams in flight, discovery sockets, faults
        Server    serve            Scanner   scan and its collector
              \                   /
               Discovery    composition, properties, inductive invariant
               /    |    \            implements Directory
     MCDiscovery    |     DiscoveryProofs
     (TLC constants)|       DirectoryProofs   refinement of Directory
                    |       DeliveryProofs    what is under way
                    |
      assumes of the parts below what these modules show of them:
        StreamJoin      implements Merge     StreamJoinProofs
        PacketReceiver                       PacketReceiverProofs
        IpNeighbor      MCIpNeighbor         IpNeighborProofs
        Process                              ProcessProofs

**Protocol.** A packet has a type ("request", "announcement", "empty" for an
unset `oneof`, "malformed" for bytes that do not decode, "unread" for bytes
that the decoder refuses without reading any of them) and a port, which is any natural number because it travels as `uint32`. `try_into` to `u16` is the
intersection with `U16`. An `Option` is a set with at most one element.

**Lan.** `net` is the set of datagrams in flight, `bound` the processes that
hold the UDP socket of their discovery port. `send_multicast` puts one copy per
reached host into `net`; `recv_from` takes a datagram out or, under the fault
"duplicate", leaves it for another delivery. `Lose` drops a datagram for which
no socket is bound (as the kernel does), multicast between the hosts of
`MulticastLoss`, or, under a fault, any. `Inject` is another program's datagram. Which I/O errors may happen is the constant
`Faults`; on a host outside `MulticastHosts` every multicast socket operation
fails, with or without faults.

**Server.** `srv[s]` is the place in `serve` (idle, scanning, multicasting,
unicasting, serving, stuck, stopped); each `?` leads to `Return`, which closes the
socket and drops the handlers that still wait for a connection. A server that
receives an "unread" payload is stuck in the poll of its socket, and with it the
handlers, which the same task polls. `calls` are
the handlers of `try_for_each_concurrent(0, ..)`, where 0 means no limit;
`peer` is the scanner a handler is connected to.

**Scanner.** `scn[c]` is the stream (idle, polling, stuck, ended, dropped), `recv[c]`
the discovery socket, `req[c]` the future `send_requests`, `grpc[c]` the gRPC
server, `chan[c]` the channel. `CloseStream` is what dropping the stream does to
all of them. After every error the consumer either drops the stream, as the CLI
does, or goes on polling, as the library allows. The first poll of the joined
streams reaches the discovery socket before `send_requests`, hence the guard of
`RequestByMulticast`. `submit_response` refuses a port that is 0 or out of range
and a peer whose address is IPv4 or not available. A stuck stream is one whose
socket has received an "unread" payload: no source of it makes progress, but
connections already accepted have tasks of their own and still fill the channel.

**Discovery.** The gRPC call: `Connect`, `Submit` and `CallFails` change the
handler of the server and the channel of the collector. A connection made while
the collector was listening may bring its response after the stream is over. A
stuck server connects no more; at the port of a stuck scanner a connection
attempt neither succeeds nor fails.
`End` is the end of the stream by itself, possible only after errors of all
its endless sources. The module also says what is *under way* between a server
and a scanner (`AnnouncementUnderway`, `ResponseUnderway`): something still to
be sent, in flight, in a handler, in the channel, or reported.

**Directory.** What `serve` and `scan` promise, without a network: servers
publish to a discovery port, scans report what has been published to theirs. It
has two exceptions, which are the code's: what other programs made known, and
scans whose collector port is not theirs alone. `Discovery` maps its state to
it (`Published`, `SharedPorts`, `Over`).

**PacketReceiver.** A datagram that `UdpFramed` has received stays in `buffer`
until `decode` finds nothing left; `decode` gives the possible outcomes for a
content. A content is a packet or, if it is malformed, a size; what a failed
decode leaves is *any* shorter content, also one that is a packet, or, if it is
marked `Unread`, all of it: `ProtobufDecoder` does not discard the buffer on an
error, and nothing in the repository makes the library advance it. `Yield` is
the pair of filters of `DiscoveryPacketReceiver::receive` with a consumer that
drops the stream at an error (`serve`) or goes on (`scan`). `arrived` and
`handed` keep the history that the property is about. In Lan a datagram
decodes, is dropped as a whole or blocks its receiver; this module shows that
this loses nothing:
what a malformed datagram yields besides has its own, foreign, source, and is
like one more datagram of `Inject`.

**StreamJoin** and **Merge.** One task polls two sides in the order of
`select`, one step per side, so that a source can produce and wake the task
between them. `Hidden` is the success of the future, which `join`'s
`filter_map` drops; `Futures` are sides that yield one item and end. With no
futures and nothing hidden it is the `select` of the scanner's announcements and
responses, which the proofs cover too. `Merge` is the promise: take from either side, end when both have,
starve nobody. The fairness of the scanner's sources in `Discovery` is what
`ImplementsMerge` says.

**IpNeighbor.** `links` and `table` are the system's interfaces and neighbors;
`RemoveLink`, `AddLink` and `LearnNeighbor` change them at any time. The scan is
one snapshot with PowerShell, and `ReadLinks` then `ReadNeighbors` with
iproute2. `steady` and `seen` remember what was there, for the properties only.
A row has the fields that `ip` prints for it (`lladdr`, `router`); `parse_output`
needs all of them. In `Discovery` a scan is the constant `NeighborScans` or the
fault "neighbors".

**Process.** One call of `eval`, `run` or `probe` with its child. The caller's
steps are those between two awaits; the child reads, prints and exits in any
order. Pipes are bounded, a full one blocks the writer, a closed one fails or
kills it. `RedirectStdIo` has no action: both pipes are always requested.

`map` in `PROJECT.json` gives the source lines of every definition. The
definitions marked external are the part of the kernel, the network, the child
process, and of the crates futures and tokio-util. `Directory` and `Merge` are
promises and map to no lines.

## 3. The runs

The first five runs use `MCDiscovery`: scanners on device h1, servers on device
h2 (in Liveness one scanner shares the server's device). Deadlock checking is off
because the system may really stop: `serve` has returned everywhere and every
stream is over; in the other modules, when the one call or scan is done or the
bound on the datagrams is reached.

| Run | Instance | Checks | Result |
|---|---|---|---|
| Faults | 1 server, 1 scanner, another of each with port 0, all faults, 1 foreign message or duplicate | `TypeOK`, `NoPhantomService`, `StoppedServerIsSilent` | hold (780,384 states) |
| Isolation | 2 servers, 2 scanners, 2 discovery ports, 2 collector ports, drops | `IsolatedUnlessPortReused`, `ImplementsDirectory`, `NoRequestIsLost`, `MissedForGood` | hold (145,703 states) |
| Liveness | 1 server, a scanner on another device, whose multicast may be lost, and one on its own, a hanging collector, processes that stop, fairness | `LateServerIsDiscovered`, `LateScannerDiscovers`, `NeighborIsDiscovered`, `NoAnnouncementIsLost`, `NoRequestIsLost` | hold (65,061 states) |
| MissedService | reliable LAN, fairness | `EventuallyDiscovered` | violated |
| NoMulticast | multicast fails on the scanner's host, fairness | `NeighborIsDiscovered` | violated |
| Datagrams | 3 datagrams of size up to 2, an IPv6 and an IPv4 host, I/O errors, fairness | `TypeOK`, `PacketsAreHandedOver`, `OnlyUnreadDatagramsBlock` | hold (471,475 states) |
| StuckDatagram | 2 datagrams, no faults, fairness | `NoDatagramIsStuck` | violated |
| Join | a stream and a future, 2 items ready, fairness | `TypeOK`, `NoLostWakeup`, `ImplementsMerge`, `ItemIsTakenInTurn` | hold (2,391 states) |
| NeighborScan | 2 interfaces, 7 kinds of rows, failing commands | `TypeOK`, `TargetsAreNeighbors`, `NoNeighborMissed` | hold (255,749 states) |
| HiddenNeighbor | the same, no command fails | `NeighborsAreFound` | violated |
| ChildProcess | pipe of 2, input and output up to 3, all faults, fairness | `TypeOK`, `ResultIsFaithful`, `FittingCallReturns`, `ChildIsReleased`, `OnlyLargeOutputBlocks`, `EveryStepIsProgress` | hold (840 states) |
| LargeOutput | the same without faults | `CallReturns` | violated |

What the violated ones show:

- **MissedService.** The server announces itself; then the scanner binds its
  socket and sends its request, which finds no socket on the server's host;
  then the server binds its socket. Both run for good and never meet, for
  neither sends again. `lib.rs` says that other devices "can use [scan] to
  discover it". `LateServerIsDiscovered` and `LateScannerDiscovers` are what
  does hold: one side has to be listening before the other one starts sending.
  `MissedForGood` is why waiting does not help.
- **NoMulticast.** `send_requests` returns at the error of `send_multicast`, so
  the neighbors are never asked. The README promises neighbors exactly "when
  multicast is unavailable". Liveness shows that it holds when multicast
  datagrams are merely lost.
- **StuckDatagram.** A content that the decoder refuses before it has read any of
  it is still in the buffer when `UdpFramed` decodes next, and `filter_map` asks
  again at once: the poll never returns, and every datagram behind it waits for
  good (`SpinsForGood`). `strip_protobuf_error` means to log an "Invalid Protocol
  Buffers packet" and to go on. That the library behaves so for some content is
  knowledge about it (prost 0.12), not something the repository shows; clearing the
  buffer in `ProtobufDecoder::decode` on an error would settle it either way.
  `OnlyUnreadDatagramsBlock` is what does hold.
- **HiddenNeighbor.** The neighbor table has a row without `router`; collecting
  the rows into a `Result` makes it the error of the scan, so that `announce`
  and `send_requests` fail and no neighbor is told or asked. The README says
  that such devices "are still discoverable as IP neighbors".
  `NoNeighborMissed` is what does hold: a scan that succeeds is complete.
- **LargeOutput.** The child fills the pipe and blocks; `run` waits for its exit
  and would read only then. `FittingCallReturns` is what does hold: calls
  return when the output fits into the pipe; `FittingOutputNeverBlocks` is why.
  `OnlyLargeOutputBlocks` says that there is no other deadlock, and `StuckForGood`
  that this one does not resolve itself.

Three more things that the models show, and no run is about:

- A collector port may be reused. A scanner is dropped while a server connects to
  its collector, and a scanner of another application gets the port: it reports a
  service of the first application. `IsolatedUnlessPortReused` says how far this
  goes: a service of another discovery port is reported only if somebody with the
  same collector port has scanned that very port. `Directory` has the exception
  `shared` for it.
- `extract_service` accepts service port 0 from an announcement, which
  `submit_response` refuses ("Port must not be 0").
- The sockets are bound to `[::]`. Where that makes them dual-stack, an IPv4
  sender has an IPv4-mapped address, which is a `SocketAddr::V6`, and
  `extract_ipv6` lets it pass, although "IPv4, both in discovery and application,
  is unsupported" (`lib.rs`). `Ipv4ShownAs` has both cases; `PacketsAreHandedOver`
  speaks of the address as shown.

**Bounds.** `MaxInjected` bounds foreign messages and duplicates: one is enough
for each kind of strange packet or response to meet every state of server and
scanner. In Isolation scans stop, so that a collector port is reused; two ports
make both cases happen, a reused one and one of its own. Two processes of each
kind suffice for the interference the properties speak of: isolation relates
one scanner to one other scanner and one server; the proofs cover the rest.
In Liveness nothing loops back to the device it is sent from, so the scanner on
the server's device discovers nothing and only competes for the socket, which keeps
the instance within reach of the liveness check. Requests of the other scanner may
be lost when they go by multicast, so that its answers rest on unicast; that a
multicast request is answered is `NoRequestIsLost` in Isolation, where the network
loses none, and its theorem. The server's announcement gets there both ways.

Datagrams of size 2 leave a rest that is a packet, malformed or empty; three of
them put a malformed one before, between and behind others. In Join a
side may have an item ready and another one behind it, which is what starvation
and lost wake-ups need. In NeighborScan both interfaces know the same link-local
address, and an interface may go and come back with a new index between the two
commands (`MaxChanges`, `MaxIndex`). A pipe of two units with one more unit of
input or output than it holds has all of its cases: empty, between, full, and
blocked.

**Fairness.** Weak fairness of the server's task, of the scanner's three
sources, of receiving from a bound socket, and of an established call. The
tokio runtime polls every woken task; `select` alternates between its sources,
so that none starves (StreamJoin shows it from the fairness of the task alone).
In PacketReceiver the consumer polls the stream until it is over. In Process
the runtime polls the call, and the child is a program that goes on while it can;
it is never forced to crash or to close its input. No fairness for starting,
stopping, faults, or the failure of a connection attempt (there is no timeout in
the code).

No property assumes that a failing decode reads a part of the buffer. What a server
or a scanner does until it is stuck is covered by the liveness properties; being
stuck is one of the ways out they name (`srv[s] # "serving"`, `scn[c] # "polling"`).

## 4. The proofs

### The protocol

`DiscoveryProofs` proves, for all values of the constants that satisfy
`LanAssumption`, `ServerAssumption` and `ScannerAssumption` (types of the
constants, servers and scanners are different processes, the system never hands
out TCP port 0):

- `TypeCorrect`: `Spec => []TypeOK`;
- `Inductive`: `Spec => []IInv`;
- `NoPhantom`, `Isolation`: the invariants of the runs Faults and Isolation.

The properties are not inductive. What a scanner reports depends on datagrams
and calls under way, so `IInv` says where each comes from: `DatagramInv` (every
datagram is foreign, or a server's announcement, or a scanner's request naming
its own collector), `CallInv` (every call was asked for by a scanner of the
server's discovery port or by a foreign request, and is connected only to a
collector at its address; one that still waits belongs to a server that serves
or is stuck),
`ReportInv` (every service in a channel or reported is justified) and
`ControlInv` (who holds sockets, ports and channels). The argument for
isolation is in `ResponseJustified`: if the call that brings a response to c
was asked for by anybody else, then with the collector port of c, so that the
server's discovery port is one of `ScannedWithPortOf(c)`. That this
stays true is `JustifiedStable`, which rests on `Monotone`: a server is never
idle again and the port a collector got is remembered for good.

`DirectoryProofs.Refinement` is `Spec => ImplementsDirectory`. Each action is a
step of the directory or a stutter; the one interesting case is a report, where
`JustifiedIsKnown` turns `ReportInv` and the emptiness of a closed channel into
the guard of `Directory!Report`. A scanner that gets a collector port may make
others share it at once, hence `Share` takes a set.

### What is under way

The liveness properties of the protocol need that nothing gets lost on the way
to a discovery. `DeliveryProofs` proves that part, which is safety, for every
LAN, every set of processes and every set of faults that spares the datagrams
and connections in question:

- `AnnouncementsArrive`, `RequestsAreAnswered`: `NoAnnouncementIsLost` and
  `NoRequestIsLost`. Between a server and a listening scanner, or a scanner
  that collects and a serving server, what is under way stays under way, unless
  one of them stops or fails to send. From one place to the next it moves by a
  step of the server, the scanner or a call, each of which has weak fairness in
  `FairSpec`, the last one being `CollectorYields`. That is the argument behind
  `LateServerIsDiscovered`, `LateScannerDiscovers` and `NeighborIsDiscovered`.
- `NoSecondChance`: `MissedForGood`, the converse. What is not under way never
  gets under way again, so a scanner and a server that have missed each other
  do so for good. It holds for a server whose service is published by nobody
  else and for a scanner whose collector port is its own; without these, an
  answer meant for another scanner may arrive by chance.
- `SilentAfterReturn`: `StoppedServerIsSilent`. A new handler needs a bound
  socket and a new connection a waiting handler, and `IInv` gives both only to
  servers that have not returned; a new announcement needs a server that is
  still announcing.
- `OneOwner`: `SocketInv`, the invariant the first two need besides `IInv`.
  If two processes of a device could hold the same discovery socket, or two
  scanners the same collector port, the wrong one could take a datagram or a
  connection off the network. That a socket is bound without address reuse is
  the only reason why it cannot.

`DatagramArises`, `CallArises` and `ReportArises` say where new datagrams,
calls and reports come from, `DatagramLeaves` where a datagram goes.

### The parts

Each module states its inductive invariant `IInv`, which was model-checked on
the instance of its run before it was proved.

- `PacketReceiverProofs.HandedOver`: the strengthening is `BufferInv`. While
  there is something left in the buffer nothing of its datagram has been handed
  over, and a well-formed datagram is still whole; so it is handed over once.
  `SpinsForGood`: a receiver that decodes an unread content does nothing else
  any more; no datagram that arrives and no error gets it out.
- `StreamJoinProofs.NoWakeupIsLost`: a side that was asked and had nothing is
  `Quiet` (over, or holding the waker, or the task has been woken) and stays so
  while the other side is asked. `JoinIsMerge` is the safety part of
  `ImplementsMerge`. `NobodyStarves` bounds what its fairness part leaves open:
  the `Distance` of an item that is ready is at most four, every step of the task
  decreases it and the one at zero takes the item; `TurnInv` says that the turn
  passes on when a poll begins.
- `IpNeighborProofs.SoundTargets`, `CompleteScan`: `IndexInv` says that an index
  never passes from one interface to another, `SteadyInv` that what was read of
  an interface is true while a neighbor on it stays. They need that the system
  does not use an index again.
- `ProcessProofs.FaithfulResult`: `OutputInv` accounts for every unit of
  output, `ControlInv` says what the caller knows at each step.
  `FittingOutputNeverBlocks` follows from the same invariant. `TheOnlyDeadlock`
  needs `EndsInv`, who holds which end of the pipes: whenever the caller waits
  and the child cannot go on, the child is in the middle of too large an output.
  `StuckForGood` has two hypotheses, no failing wait and no child that is
  killed, which are the two ways out. `Progress`: every step of either decreases
  `Work`, a natural number (`WorkIsNatural`). So a call ends, and it ends by
  returning or in that deadlock.
- Type correctness of each.

The assumptions are the types of the constants, a pipe that holds at least one
unit, and values that mean "nothing" being none of the items or packets.

### Only model-checked

The liveness properties, and with them the fairness part of `ImplementsMerge`:
fairness and `ENABLED` are out of the prover's reach. What is proved is the
safety part of their arguments: that nothing is lost on the way (the protocol),
that every step comes nearer to the end (a call, a joined stream), and in which states of a
call neither side can take one. That the steps in question are enabled, and
therefore taken, TLC checks on the instances of the runs.

## 5. Not modelled

- The CLI's argument parsing and printing, the wording of errors and logs,
  generated gRPC code, and the gRPC health service (nothing uses it).
- The loss of datagrams by a full socket buffer is `Lose` in Lan; PacketReceiver
  sees the datagrams that reach the socket.
- Interfaces that change their names during a scan. The join by name could
  then give a neighbor the index of another interface; an interface that goes
  and comes back under its name is modelled.
- The status that `submit_response` answers; the server only logs it.
- The bytes of packets, JSON and CSV: a row or a content is what its parser
  makes of it.
- Memory: `try_for_each_concurrent(0, ..)` and the collector's unbounded channel
  limit nothing. Handlers that wait for a collector for ever are modelled, what
  they cost is not.

Possible next steps: composing IpNeighbor with the server's announcements in
place of the constant `NeighborScans`, and Process with IpNeighbor in place of
commands that succeed or fail.
