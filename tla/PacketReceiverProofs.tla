------------------------ MODULE PacketReceiverProofs ------------------------
(***************************************************************************)
(* PacketsAreHandedOver for every set of packets and hosts, every bound on *)
(* the sizes and the number of datagrams and every way in which malformed  *)
(* ones are taken apart.                                                   *)
(***************************************************************************)
EXTENDS PacketReceiver, TLAPS

\* Init establishes the inductive invariant.
LEMMA InitIInv == Init => IInv
  BY PacketReceiverAssumption
  DEF Init, IInv, TypeOK, PacketsAreHandedOver, BufferInv, IsDecoded, Empty,
      Contents, Content, None

\* A datagram that arrives changes nothing about the ones before it.
LEMMA ArriveIInv == ASSUME IInv, NEW d \in Datagrams, Arrive(d) PROVE IInv'
<1> USE DEF IInv, TypeOK
<1>1. /\ Len(arrived') = Len(arrived) + 1
      /\ \A n \in 1..received : arrived'[n] = arrived[n]
  BY DEF Arrive
<1>2. TypeOK'
  BY <1>1 DEF Arrive
<1>3. BufferInv'
  BY <1>1 DEF Arrive, BufferInv
<1>4. PacketsAreHandedOver'
  BY <1>1 DEF Arrive, PacketsAreHandedOver, BufferInv, IsDecoded, IsPacket
<1> QED BY <1>2, <1>3, <1>4

\* Creating the socket touches no datagram.
LEMMA NewSocketIInv == ASSUME IInv, new_socket PROVE IInv'
  BY DEF new_socket, IInv, TypeOK, PacketsAreHandedOver, BufferInv, IsDecoded,
         IsPacket

\* Nor does an I/O error of the socket.
LEMMA RecvFailsIInv == ASSUME IInv, poll_recv_from_fails PROVE IInv'
<1>1. UNCHANGED <<arrived, received, buffer, is_readable, handed>>
      /\ state' \in {"open", "over"} /\ failed' = "yes"
  BY DEF poll_recv_from_fails, Yield, extract_ipv6, strip_protobuf_error
<1> QED
  BY <1>1 DEF IInv, TypeOK, PacketsAreHandedOver, BufferInv, IsDecoded,
              IsPacket

\* The next datagram is taken only when the one before it is decoded.
LEMMA RecvIInv == ASSUME IInv, poll_recv_from PROVE IInv'
<1> USE DEF IInv, TypeOK, poll_recv_from
<1>1. arrived[received + 1] \in Datagrams
  OBVIOUS
<1>2. TypeOK'
  BY <1>1 DEF Datagrams
<1>3. BufferInv'
  BY DEF BufferInv
<1>4. PacketsAreHandedOver'
  <2>1. ASSUME NEW n \in 1..received', IsDecoded(n)', IsPacket(arrived'[n])
        PROVE  \E k \in DOMAIN handed' : handed'[k].datagram = n
    <3>1. CASE n = received'
      <4>1. arrived[n].content.size = 0 /\ arrived[n].content.packet \in Packets
        BY <2>1, <3>1 DEF IsDecoded, IsPacket
      <4>2. arrived[n].content \in Contents
        BY <1>1, <3>1 DEF Datagrams
      <4> QED BY <4>1, <4>2, PacketReceiverAssumption DEF Contents
    <3>2. CASE n # received'
      <4>1. n \in 1..received /\ IsDecoded(n)
        BY <3>2 DEF IsDecoded
      <4> QED BY <2>1, <4>1 DEF PacketsAreHandedOver, IsPacket
    <3> QED BY <3>1, <3>2
  <2> QED BY <2>1 DEF PacketsAreHandedOver, IsPacket
<1> QED BY <1>2, <1>3, <1>4

\* A decode hands a packet over at most once, and the whole of it.
LEMMA PollNextIInv == ASSUME IInv, poll_next PROVE IInv'
<1> USE DEF IInv, TypeOK
<1>1. PICK o \in decode(buffer) :
        /\ buffer' = o.rest
        /\ is_readable' = IF o.result = "nothing" THEN "no" ELSE "yes"
        /\ IF o.result = "nothing"
             THEN UNCHANGED <<handed, state>>
             ELSE Yield(strip_protobuf_error(o.result), o.packet)
  BY DEF poll_next
<1>2. /\ state = "open" /\ is_readable = "yes"
      /\ UNCHANGED <<failed, arrived, received>>
      /\ received \in 1..Len(arrived)
      /\ arrived[received] \in Datagrams
  BY DEF poll_next, BufferInv
<1>3. buffer \in Contents /\ Empty \in Contents
  BY PacketReceiverAssumption DEF Contents, Content, Empty
<1>4. CASE buffer.size = 0
  <2>1. o.result = "nothing" /\ o.rest = Empty
    BY <1>4 DEF decode, Outcome
  <2>2. /\ UNCHANGED <<handed, state, failed, arrived, received>>
        /\ buffer' = Empty /\ is_readable' = "no"
    BY <1>1, <1>2, <2>1
  <2> QED
    BY <2>2, <1>2, <1>3, <1>4
    DEF BufferInv, PacketsAreHandedOver, IsDecoded, IsPacket
<1>5. CASE buffer.size # 0 /\ buffer.packet \notin Packets
  <2>1. /\ o.result = "error"
        /\ o.rest \in Contents
    BY <1>3, <1>5 DEF decode, Outcome
  <2>2. /\ UNCHANGED <<handed, state, failed, arrived, received>>
        /\ buffer' \in Contents /\ is_readable' = "yes"
    BY <1>1, <1>2, <2>1 DEF Yield, strip_protobuf_error, extract_ipv6, None
  <2>3. arrived[received].content.packet \notin Packets
    BY <1>2, <1>5 DEF BufferInv
  <2>4. \A k \in DOMAIN handed : handed[k].datagram # received
    BY <1>2, <1>5 DEF BufferInv
  <2>5. BufferInv'
    BY <2>2, <2>3, <2>4, <1>2 DEF BufferInv
  <2>6. PacketsAreHandedOver'
    BY <2>2, <2>3, <1>2 DEF PacketsAreHandedOver, IsDecoded, IsPacket
  <2> QED BY <2>2, <2>5, <2>6, <1>2
<1>6. CASE buffer.size # 0 /\ buffer.packet \in Packets
  <2>1. /\ o.result = "packet" /\ o.packet = buffer.packet
        /\ o.rest = Empty
    BY <1>6, PacketReceiverAssumption DEF decode, Outcome
  <2>2. /\ buffer' = Empty /\ is_readable' = "yes" /\ state' = state
        /\ handed' = extract_ipv6("Ok", buffer.packet)
    BY <1>1, <1>2, <2>1 DEF Yield, strip_protobuf_error
  <2>3. \A k \in DOMAIN handed : handed[k].datagram \in 1..(received - 1)
    BY <1>2, <1>6 DEF BufferInv
  <2>4. CASE arrived[received].family # "V6"
    <3>1. handed' = handed
      BY <2>2, <2>4 DEF extract_ipv6
    <3> QED
      BY <3>1, <2>2, <2>4, <1>2, <1>3
      DEF BufferInv, PacketsAreHandedOver, IsDecoded, IsPacket, Empty
  <2>5. CASE arrived[received].family = "V6"
    <3> DEFINE item == [datagram |-> received, packet |-> buffer.packet,
                        from |-> arrived[received].from]
    <3>1. handed' = Append(handed, item)
      BY <2>2, <2>5 DEF extract_ipv6
    <3>2. item \in [datagram : Nat, packet : Packets,
                    from : Hosts \cup Ipv4Hosts]
      BY <1>2, <1>3, <1>6 DEF Contents, Content, Datagrams
    <3>3. /\ item.datagram = received /\ item.packet = buffer.packet
          /\ item.from = arrived[received].from
      OBVIOUS
    <3> HIDE DEF item
    <3>4. /\ DOMAIN handed' = 1..(Len(handed) + 1)
          /\ handed'[Len(handed) + 1] = item
          /\ \A k \in DOMAIN handed : handed'[k] = handed[k]
          /\ DOMAIN handed = 1..Len(handed) /\ Len(handed) \in Nat
      BY <3>1, <3>2
    <3>5. TypeOK'
      <4> DEFINE Handed == [datagram : Nat, packet : Packets,
                            from : Hosts \cup Ipv4Hosts]
      <4>1. handed \in Seq(Handed) /\ item \in Handed
        BY <3>2
      <4> HIDE DEF Handed
      <4>2. handed' \in Seq(Handed)
        BY <4>1, <3>1
      <4> USE DEF Handed
      <4> QED BY <4>2, <2>2, <1>2, <1>3
    <3>6. BufferInv'
      BY <3>3, <3>4, <2>2, <2>3, <1>2 DEF BufferInv, Empty
    <3>7. IsPacket(arrived[received]) =>
            buffer.packet = arrived[received].content.packet
      BY <1>2, <1>6 DEF BufferInv, IsPacket
    <3>8. ASSUME NEW n \in 1..received, IsPacket(arrived[n])
          PROVE  \E k \in DOMAIN handed' : handed'[k].datagram = n
      <4>1. CASE n = received
        BY <4>1, <3>3, <3>4
      <4>2. CASE n # received
        <5>1. PICK k \in DOMAIN handed : handed[k].datagram = n
          BY <4>2, <3>8 DEF PacketsAreHandedOver, IsDecoded
        <5> QED BY <5>1, <3>4
      <4> QED BY <4>1, <4>2
    <3>9. ASSUME NEW k \in DOMAIN handed'
          PROVE  LET d == arrived[handed'[k].datagram] IN
                 /\ handed'[k].from = d.from /\ d.family = "V6"
                 /\ IsPacket(d) => handed'[k].packet = d.content.packet
      <4>1. CASE k \in DOMAIN handed
        BY <4>1, <3>4 DEF PacketsAreHandedOver
      <4>2. CASE k = Len(handed) + 1
        BY <4>2, <3>3, <3>4, <3>7, <2>5
      <4> QED BY <4>1, <4>2, <3>4
    <3>10. \A j, k \in DOMAIN handed' :
             j < k => handed'[j].datagram < handed'[k].datagram
      <4> SUFFICES ASSUME NEW j \in DOMAIN handed', NEW k \in DOMAIN handed',
                          j < k
                   PROVE  handed'[j].datagram < handed'[k].datagram
        OBVIOUS
      <4>1. CASE k \in DOMAIN handed
        <5>1. j \in DOMAIN handed
          BY <4>1, <3>4
        <5> QED BY <5>1, <4>1, <3>4 DEF PacketsAreHandedOver
      <4>2. CASE k \notin DOMAIN handed
        <5>1. j \in DOMAIN handed /\ k = Len(handed) + 1
          BY <4>2, <3>4
        <5>2. /\ handed'[j].datagram \in 1..(received - 1)
              /\ handed'[k].datagram = received
          BY <5>1, <3>3, <3>4, <2>3
        <5> QED BY <5>2, <1>2
      <4> QED BY <4>1, <4>2
    <3>11. PacketsAreHandedOver'
      BY <3>8, <3>9, <3>10, <1>2 DEF PacketsAreHandedOver, IsPacket
    <3> QED BY <3>5, <3>6, <3>11
  <2> QED BY <2>4, <2>5
<1> QED BY <1>4, <1>5, <1>6

\* The invariant is inductive.
LEMMA NextIInv == IInv /\ [Next]_vars => IInv'
<1> SUFFICES ASSUME IInv, [Next]_vars PROVE IInv'
  OBVIOUS
<1>1. CASE UNCHANGED vars
  BY <1>1 DEF vars, IInv, TypeOK, PacketsAreHandedOver, BufferInv, IsDecoded,
              IsPacket
<1> QED
  BY <1>1, ArriveIInv, NewSocketIInv, RecvFailsIInv, RecvIInv, PollNextIInv
  DEF Next, receive

\* Every well-formed datagram is handed over once, in order and with its own
\* source, whatever malformed datagrams surround it.
THEOREM HandedOver == Spec => []PacketsAreHandedOver
<1>1. IInv => PacketsAreHandedOver
  BY DEF IInv
<1> QED BY InitIInv, NextIInv, <1>1, PTL DEF Spec

\* The state of the receiver keeps its type.
THEOREM PacketReceiverTypeCorrect == Spec => []TypeOK
<1>1. IInv => TypeOK
  BY DEF IInv
<1> QED BY InitIInv, NextIInv, <1>1, PTL DEF Spec

-----------------------------------------------------------------------------
\* A content that is refused without having been read stays in the buffer for
\* good (lib.rs of the protocol does not discard it, strip_protobuf_error hides
\* the error): the receiver takes no other datagram and hands nothing over, and
\* no I/O error ends it, for it does not ask the socket any more.  What the run
\* StuckDatagram finds cannot heal.
THEOREM SpinsForGood ==
  Spec => [][Spinning => Spinning' /\ UNCHANGED <<received, handed>>]_vars
<1>1. ASSUME IInv, Spinning, poll_next
      PROVE  Spinning' /\ UNCHANGED <<received, handed>>
  <2>1. buffer.size # 0 /\ buffer.packet = Unread /\ buffer.packet \notin Packets
    BY <1>1, PacketReceiverAssumption
    DEF Spinning, IInv, TypeOK, Contents, Unread, None
  <2>2. decode(buffer) = {Outcome("error", None, buffer)}
    BY <2>1 DEF decode
  <2>3. /\ buffer' = buffer /\ is_readable' = "yes"
        /\ Yield(strip_protobuf_error("error"), None)
    BY <1>1, <2>2 DEF poll_next, Outcome
  <2> QED
    BY <1>1, <2>3
    DEF Spinning, poll_next, Yield, strip_protobuf_error, extract_ipv6, None
<1>2. IInv /\ [Next]_vars
        => [Spinning => Spinning' /\ UNCHANGED <<received, handed>>]_vars
  BY <1>1 DEF Next, receive, Arrive, new_socket, poll_recv_from,
              poll_recv_from_fails, Spinning, vars
<1> QED
  BY InitIInv, NextIInv, <1>2, PTL DEF Spec

=============================================================================
