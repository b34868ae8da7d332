--------------------------- MODULE PacketReceiver ---------------------------
(***************************************************************************)
(* DiscoveryPacketReceiver (main/src/packet.rs) over TokioUdpReceiver      *)
(* (main/src/network/udp_receiver.rs) and ProtobufDecoder                  *)
(* (protocol/rust/src/lib.rs): datagrams of a socket become packets.       *)
(*                                                                         *)
(* UdpFramed of tokio-util keeps the datagram it has received in a buffer  *)
(* and has it decoded again and again until the decoder says that there is *)
(* nothing left.  A decoder that fails leaves the part that it has not     *)
(* read, and that part is decoded next, with the same source address.      *)
(* Contents are abstract: a well-formed one is a packet, any other one is  *)
(* known by its size alone, and what a failed decode leaves of it may look *)
(* like anything that is shorter.  Or it leaves everything: neither the    *)
(* decoder nor the library promises that a decode that fails has read some *)
(* of the buffer, and nobody discards it.  Such a content is "unread".     *)
(***************************************************************************)
EXTENDS Naturals, Sequences

CONSTANTS
  Packets,        \* packets, as decoded
  Hosts,          \* IPv6 hosts that send datagrams
  Ipv4Hosts,      \* and IPv4 hosts
  Ipv4ShownAs,    \* address families of IPv4 hosts, as the socket shows them
  MaxSize,        \* bound on the size of a datagram
  MaxDatagrams,   \* bound on the number of datagrams
  Faults          \* "bind", "recv": the I/O errors that happen

None == "none"

\* Marks a content that a decode refuses without having read any of it.
Unread == "unread"

ASSUME PacketReceiverAssumption ==
  /\ Packets \cap {None, Unread} = {}
  /\ Hosts \cap Ipv4Hosts = {}
  /\ Ipv4ShownAs \subseteq {"V4", "V6"}
  /\ MaxSize \in Nat /\ MaxDatagrams \in Nat

VARIABLES
  state,         \* the stream: before the first poll, open, or over
  failed,        \* "yes" once the socket has had an I/O error
  arrived,       \* all datagrams that the socket has been sent
  received,      \* how many of them UdpFramed has taken from the socket
  buffer,        \* what is left of the last one
  is_readable,   \* "yes" while the decoder may find something in it
  handed         \* packets handed to the consumer, each with the number of
                 \* its datagram

vars == <<state, failed, arrived, received, buffer, is_readable, handed>>

Content == [packet : Packets \cup {None, Unread}, size : 0..MaxSize]

Empty == [packet |-> None, size |-> 0]

\* What a datagram holds.  A packet without a payload has no bytes at all.
Contents == {c \in Content : c.size = 0 => c.packet = None}

Datagrams ==
  {d \in [from : Hosts \cup Ipv4Hosts, family : {"V4", "V6"},
          content : Contents] :
    d.family \in IF d.from \in Hosts THEN {"V6"} ELSE Ipv4ShownAs}

TypeOK ==
  /\ state \in {"new", "open", "over"}
  /\ failed \in {"yes", "no"}
  /\ arrived \in Seq(Datagrams)
  /\ received \in 0..Len(arrived)
  /\ buffer \in Contents
  /\ is_readable \in {"yes", "no"}
  /\ handed \in Seq([datagram : Nat, packet : Packets,
                     from : Hosts \cup Ipv4Hosts])

Init ==
  /\ state = "new"
  /\ failed = "no"
  /\ arrived = <<>>
  /\ received = 0
  /\ buffer = Empty
  /\ is_readable = "no"
  /\ handed = <<>>

-----------------------------------------------------------------------------
(***************************************************************************)
(* The decoder and the two filters                                         *)
(***************************************************************************)

Outcome(result, packet, rest) ==
  [result |-> result, packet |-> packet, rest |-> rest]

\* Mutation: without the check for an empty buffer, which is a packet with
\* no payload to the library.
decode_of_nothing(content) ==
  IF content.packet \in Packets \/ content.size = 0
    THEN {Outcome("packet", content.packet, Empty)}
    ELSE {Outcome("error", None, rest) :
            rest \in {c \in Contents : c.size < content.size}}

\* Mutation: a copy of the buffer is decoded, which leaves the buffer alone.
decode_of_a_copy(content) ==
  CASE content.size = 0 -> {Outcome("nothing", None, Empty)}
    [] content.size # 0 /\ content.packet \in Packets ->
         {Outcome("packet", content.packet, content)}
    [] OTHER -> {Outcome("error", None, content)}

\* The possible outcomes of a decode.  One that succeeds reads all of the
\* buffer; one that fails has read some of it, or none of an unread content.
decode(content) ==
  CASE content.size = 0 -> {Outcome("nothing", None, Empty)}
    [] content.size # 0 /\ content.packet \in Packets ->
         {Outcome("packet", content.packet, Empty)}
    [] content.size # 0 /\ content.packet = Unread ->
         {Outcome("error", None, content)}
    [] OTHER -> {Outcome("error", None, rest) :
                   rest \in {c \in Contents : c.size < content.size}}

\* Mutation: a malformed packet is an I/O error.
strip_protobuf_error_kept(result) ==
  CASE result = "packet" -> "Ok"
    [] OTHER             -> "Err"

\* What becomes of a result of the socket or of the decoder.
strip_protobuf_error(result) ==
  CASE result = "packet" -> "Ok"
    [] result = "io"     -> "Err"
    [] OTHER             -> None

\* Packets from an address that is shown as an IPv6 one are handed over.
extract_ipv6(item, packet) ==
  IF item = "Ok" /\ arrived[received].family = "V6"
    THEN Append(handed, [datagram |-> received, packet |-> packet,
                         from |-> arrived[received].from])
    ELSE handed

-----------------------------------------------------------------------------
(***************************************************************************)
(* The stream                                                              *)
(***************************************************************************)

Arrive(d) ==
  /\ state = "open" /\ Len(arrived) < MaxDatagrams
  /\ arrived' = Append(arrived, d)
  /\ UNCHANGED <<state, failed, received, buffer, is_readable, handed>>

\* The first poll creates the socket; the stream is over if that fails.
new_socket ==
  /\ state = "new"
  /\ \/ state' = "open" /\ UNCHANGED failed
     \/ "bind" \in Faults /\ state' = "over" /\ failed' = "yes"
  /\ UNCHANGED <<arrived, received, buffer, is_readable, handed>>

poll_recv_from ==
  /\ state = "open" /\ is_readable = "no" /\ received < Len(arrived)
  /\ received' = received + 1
  /\ buffer' = arrived[received + 1].content
  /\ is_readable' = "yes"
  /\ UNCHANGED <<state, failed, arrived, handed>>

\* The consumer drops the stream at its first error (serve), or goes on (scan).
Yield(item, packet) ==
  /\ handed' = extract_ipv6(item, packet)
  /\ state' \in IF item = "Err" THEN {"open", "over"} ELSE {state}

poll_recv_from_fails ==
  /\ "recv" \in Faults /\ state = "open" /\ is_readable = "no"
  /\ Yield(strip_protobuf_error("io"), None)
  /\ failed' = "yes"
  /\ UNCHANGED <<arrived, received, buffer, is_readable>>

\* The buffer is decoded, and dropped once there is nothing left in it.
poll_next ==
  /\ state = "open" /\ is_readable = "yes"
  /\ \E o \in decode(buffer) :
       /\ buffer' = o.rest
       /\ is_readable' = IF o.result = "nothing" THEN "no" ELSE "yes"
       /\ IF o.result = "nothing"
            THEN UNCHANGED <<handed, state>>
            ELSE Yield(strip_protobuf_error(o.result), o.packet)
  /\ UNCHANGED <<failed, arrived, received>>

receive == new_socket \/ poll_recv_from \/ poll_recv_from_fails \/ poll_next

Next == receive \/ \E d \in Datagrams : Arrive(d)

Spec == Init /\ [][Next]_vars

\* The consumer polls the stream until it is over.
FairSpec == Spec /\ WF_vars(new_socket \/ poll_recv_from \/ poll_next)

-----------------------------------------------------------------------------
IsPacket(d) == d.content.packet \in Packets /\ d.family = "V6"

\* Datagram n has been decoded to its end.
IsDecoded(n) ==
  n \in 1..received /\ (n = received => is_readable = "no" \/ buffer.size = 0)

\* Every well-formed datagram from an IPv6 address is handed over, once, in
\* the order of arrival and with its own source, whatever malformed datagrams
\* come before it and however many decodes their leftovers take; and what is
\* handed over besides is left of a malformed datagram and has its source.
PacketsAreHandedOver ==
  /\ \A n \in 1..received :
       IsDecoded(n) /\ IsPacket(arrived[n]) =>
         \E k \in DOMAIN handed : handed[k].datagram = n
  /\ \A k \in DOMAIN handed :
       LET d == arrived[handed[k].datagram] IN
       /\ handed[k].from = d.from /\ d.family = "V6"
       /\ IsPacket(d) => handed[k].packet = d.content.packet
  /\ \A j, k \in DOMAIN handed :
       j < k => handed[j].datagram < handed[k].datagram

\* While there is something left in the buffer, nothing of its datagram has
\* been handed over, and a well-formed datagram is still whole.
BufferInv ==
  /\ \A k \in DOMAIN handed : handed[k].datagram \in 1..received
  /\ is_readable = "yes" => received # 0
  /\ is_readable = "yes" /\ buffer.size # 0 =>
       /\ \A k \in DOMAIN handed : handed[k].datagram # received
       /\ arrived[received].content.packet \in Packets =>
            buffer = arrived[received].content

\* The inductive invariant.
IInv == TypeOK /\ PacketsAreHandedOver /\ BufferInv

-----------------------------------------------------------------------------
\* Every datagram is taken from the socket and decoded to its end unless the
\* socket has an I/O error.  strip_protobuf_error logs a malformed packet and
\* drops it: the packets behind it are not affected.
NoDatagramIsStuck ==
  \A n \in 1..MaxDatagrams :
    Len(arrived) >= n ~> (IsDecoded(n) \/ failed = "yes")

\* UdpFramed has the same bytes decoded again and again.
Spinning ==
  state = "open" /\ is_readable = "yes" /\ buffer.packet = Unread

\* What holds of the code: every datagram is decoded to its end unless the
\* socket has an I/O error or something that is never read is in the way.
\* Malformed datagrams of which a decode reads something neither end the stream
\* (strip_protobuf_error) nor keep it from the ones behind them, however many
\* decodes (ProtobufDecoder) they take.
OnlyUnreadDatagramsBlock ==
  \A n \in 1..MaxDatagrams :
    Len(arrived) >= n ~> (IsDecoded(n) \/ failed = "yes" \/ Spinning)

=============================================================================
