------------------------------ MODULE IpNeighbor ------------------------------
(***************************************************************************)
(* One scan for IP neighbors (main/src/network/ip_neighbor/) on a system   *)
(* whose network interfaces and neighbor table change meanwhile.           *)
(*                                                                         *)
(*   start --> probing --> chosen --> [links read] --> done                *)
(*                                                                         *)
(* PowerShell takes one snapshot.  iproute2 is run twice, first for the    *)
(* links and then for the neighbors, and the two outputs are joined by the *)
(* name of the interface.  What a call of process.rs promises is shown in  *)
(* module Process; here a command yields its output or fails.              *)
(***************************************************************************)
EXTENDS Naturals

CONSTANTS
  Interfaces,    \* names of network interfaces
  Addresses,     \* IPv6 addresses
  Kind,          \* what kind of address each of them is
  Entries,       \* entries the neighbor table may have
  MaxIndex,      \* bound on the interface indexes the system hands out
  MaxChanges,    \* bound on the changes during a scan
  Faults         \* {} or {"command"}: may an external command fail?

Kinds == {"link-local", "global", "loopback", "unspecified", "multicast"}

\* struct Neighbor and NetNeighbor.  `lladdr` and `router` say whether `ip`
\* prints these fields: it leaves them out for a neighbor whose link-layer
\* address is unknown, and for one that is no router.
Entry == [ip : Addresses, ifname : Interfaces, lladdr : BOOLEAN,
          router : BOOLEAN, state : {"reachable", "stale", "failed"}]

ASSUME IpNeighborAssumption ==
  /\ Kind \in [Addresses -> Kinds]
  /\ Entries \subseteq Entry
  /\ MaxIndex \in Nat
  /\ MaxChanges \in Nat
  /\ Faults \subseteq {"command"}

VARIABLES
  links,        \* index of every interface, 0 if it does not exist
  lastIndex,    \* the last index handed out: indexes are not used again
  table,        \* the neighbor table
  changes,      \* number of changes so far
  pc,           \* where the scan is
  scanner,      \* the scanner that was chosen
  ip_links,     \* the output of `ip link`
  outcome,      \* the Result of the scan
  targets,      \* socket addresses of the neighbors it has found
  steady,       \* entries that have been there since the scan began
  seen          \* entries that were there when the neighbors were read

systemVars == <<links, lastIndex, table, changes>>
vars == <<systemVars, pc, scanner, ip_links, outcome, targets, steady, seen>>

Target == [ip : Addresses, scope : 0 .. MaxIndex]

TypeOK ==
  /\ links \in [Interfaces -> 0 .. MaxIndex]
  /\ lastIndex \in 0 .. MaxIndex
  /\ table \subseteq Entries
  /\ changes \in 0 .. MaxChanges
  /\ pc \in {"start", "probing", "chosen", "links read", "done"}
  /\ scanner \in {"none", "PowerShell", "IpRoute2", "Dummy"}
  /\ ip_links \in [Interfaces -> 0 .. MaxIndex]
  /\ outcome \in {"none", "Ok", "Err"}
  /\ targets \subseteq Target
  /\ steady \subseteq table /\ seen \subseteq Entries

\* A table has one entry for an address on an interface.
Consistent(entries) ==
  \A d, e \in entries : d.ip = e.ip /\ d.ifname = e.ifname => d = e

\* Some interfaces exist, with indexes of their own.
Init ==
  /\ links \in [Interfaces -> 0 .. MaxIndex]
  /\ \A i, j \in Interfaces : i # j /\ links[i] = links[j] => links[i] = 0
  /\ lastIndex \in 0 .. MaxIndex
  /\ \A i \in Interfaces : links[i] <= lastIndex
  /\ table \in SUBSET {e \in Entries : links[e.ifname] # 0}
  /\ Consistent(table)
  /\ changes = 0
  /\ pc = "start"
  /\ scanner = "none"
  /\ ip_links = [i \in Interfaces |-> 0]
  /\ outcome = "none"
  /\ targets = {}
  /\ steady = {}
  /\ seen = {}

-----------------------------------------------------------------------------
(***************************************************************************)
(* The operating system                                                    *)
(***************************************************************************)

Change(entries) ==
  /\ changes < MaxChanges
  /\ changes' = changes + 1
  /\ table' = entries
  /\ steady' = steady \cap entries
  /\ UNCHANGED <<pc, scanner, ip_links, outcome, targets, seen>>

RemoveLink(i) ==
  /\ links[i] # 0
  /\ links' = [links EXCEPT ![i] = 0]
  /\ Change({e \in table : e.ifname # i})
  /\ UNCHANGED lastIndex

AddLink(i) ==
  /\ links[i] = 0
  /\ lastIndex < MaxIndex
  /\ links' = [links EXCEPT ![i] = lastIndex + 1]
  /\ lastIndex' = lastIndex + 1
  /\ Change(table)

\* A neighbor appears, or what is known of it changes.
LearnNeighbor(e) ==
  /\ links[e.ifname] # 0
  /\ e \notin table
  /\ Change({e} \cup {d \in table : d.ip # e.ip \/ d.ifname # e.ifname})
  /\ UNCHANGED <<links, lastIndex>>

System ==
  \/ \E i \in Interfaces : RemoveLink(i) \/ AddLink(i)
  \/ \E e \in Entries : LearnNeighbor(e)

-----------------------------------------------------------------------------
(***************************************************************************)
(* Choosing a scanner (ip_neighbor_scanner)                                *)
(***************************************************************************)

\* The scanners are probed in turn; any system may have any of the tools.
ProbePowerShell ==
  /\ pc = "start"
  /\ \/ scanner' = "PowerShell" /\ pc' = "chosen"
     \/ UNCHANGED scanner /\ pc' = "probing"
  /\ UNCHANGED <<systemVars, ip_links, outcome, targets, steady, seen>>

ProbeIpRoute2 ==
  /\ pc = "probing"
  /\ scanner' \in {"IpRoute2", "Dummy"}
  /\ pc' = "chosen"
  /\ UNCHANGED <<systemVars, ip_links, outcome, targets, steady, seen>>

-----------------------------------------------------------------------------
(***************************************************************************)
(* Scanning                                                                *)
(***************************************************************************)

is_valid_ip(ip) == Kind[ip] \notin {"loopback", "unspecified", "multicast"}

is_link_local(ip) == Kind[ip] = "link-local"

\* IpNeighbor::get_socket_address, for a given port.
get_socket_address(ip, network_interface_index) ==
  [ip    |-> ip,
   scope |-> IF is_link_local(ip) THEN network_interface_index ELSE 0]

\* Mutation: only neighbors that have just been heard of.
is_usable_if_reachable(e) == e.state = "reachable" /\ is_valid_ip(e.ip)

\* The filters of both versions of parse_output.
is_usable(e) == e.state # "failed" /\ is_valid_ip(e.ip)

\* A row of `ip neighbor` must have the seven fields of struct Neighbor.
is_complete(e) == e.lladdr /\ e.router

Finish(value, addresses) ==
  /\ pc' = "done"
  /\ outcome' = value
  /\ targets' = addresses
  /\ seen' = table
  /\ UNCHANGED <<systemVars, scanner, ip_links>>

CommandFails ==
  /\ pc \in {"chosen", "links read"} /\ scanner # "Dummy"
  /\ "command" \in Faults
  /\ Finish("Err", {})
  /\ UNCHANGED steady

DummyScan ==
  /\ pc = "chosen" /\ scanner = "Dummy"
  /\ Finish("Ok", {})
  /\ UNCHANGED steady

\* Get-NetNeighbor prints the index of the interface with every neighbor.
PowerShellScan ==
  /\ pc = "chosen" /\ scanner = "PowerShell"
  /\ steady' = table
  /\ Finish("Ok", {get_socket_address(e.ip, links[e.ifname]) :
                      e \in {d \in table : is_usable(d)}})

ReadLinks ==
  /\ pc = "chosen" /\ scanner = "IpRoute2"
  /\ pc' = "links read"
  /\ ip_links' = links
  /\ steady' = table
  /\ UNCHANGED <<systemVars, scanner, outcome, targets, seen>>

\* Mutation: an unknown interface gets some index instead of being dropped.
ReadNeighbors_of_unknown_links ==
  /\ pc = "links read"
  /\ Finish("Ok", {get_socket_address(e.ip,
                     IF ip_links[e.ifname] = 0 THEN MaxIndex + 1
                     ELSE ip_links[e.ifname]) :
                      e \in {d \in table : is_usable(d)}})
  /\ UNCHANGED steady

\* Mutation: the neighbors are sent to through every interface.
ReadNeighbors_of_all_links ==
  /\ pc = "links read"
  /\ Finish("Ok", {get_socket_address(e.ip, ip_links[i]) :
                      e \in {d \in table : is_usable(d)}, i \in Interfaces})
  /\ UNCHANGED steady

\* The neighbors are read and joined with the links by parse_output.  One
\* incomplete row is an error of the whole scan.
ReadNeighbors ==
  /\ pc = "links read"
  /\ \/ /\ \A e \in table : is_complete(e)
        /\ Finish("Ok",
             {get_socket_address(e.ip, ip_links[e.ifname]) :
                e \in {d \in table : is_usable(d) /\ ip_links[d.ifname] # 0}})
     \/ /\ \E e \in table : ~is_complete(e)
        /\ Finish("Err", {})
  /\ UNCHANGED steady

Scan == CommandFails \/ DummyScan \/ PowerShellScan \/ ReadLinks
          \/ ReadNeighbors

Next == System \/ ProbePowerShell \/ ProbeIpRoute2 \/ Scan

Spec == Init /\ [][Next]_vars

-----------------------------------------------------------------------------
\* A neighbor that can be sent to, and the address it can be sent to at.
Reachable(e) ==
  e.state \in {"reachable", "stale"} /\ Kind[e.ip] \in {"link-local", "global"}

AddressOf(e) ==
  [ip    |-> e.ip,
   scope |-> IF Kind[e.ip] = "link-local" THEN links[e.ifname] ELSE 0]

\* Every target is a neighbor that could be reached when the neighbors were
\* read, and its scope is the index of an interface it was seen on or of no
\* interface at all: although the links are read before the neighbors and
\* may change in between and after, a link-local target is never reached
\* through an interface it was not seen on.
TargetsAreNeighbors ==
  \A t \in targets :
    /\ \E e \in seen : Reachable(e) /\ e.ip = t.ip
    /\ t.scope # 0 => \A i \in Interfaces :
         links[i] = t.scope
           => \E e \in seen : Reachable(e) /\ e.ip = t.ip /\ e.ifname = i

\* A scan that succeeds finds every neighbor that can be reached from its
\* first command to its last, with the right scope, whatever else changes
\* between the two commands of iproute2.
NoNeighborMissed ==
  pc = "done" /\ outcome = "Ok" /\ scanner # "Dummy" =>
    \A e \in steady : Reachable(e) => AddressOf(e) \in targets

\* README: "devices connected directly to the host device are still
\* discoverable as IP neighbors" on Windows and Linux: the same without the
\* condition that the scan succeeds.
NeighborsAreFound ==
  pc = "done" /\ scanner # "Dummy" =>
    \A e \in steady : Reachable(e) => AddressOf(e) \in targets

-----------------------------------------------------------------------------
(***************************************************************************)
(* The inductive invariant behind the two: an index never passes from one  *)
(* interface to another, and what has been read of an interface is still   *)
(* true of it while its neighbors stay.                                    *)
(***************************************************************************)

IndexInv ==
  /\ \A i \in Interfaces : links[i] <= lastIndex /\ ip_links[i] <= lastIndex
  /\ \A t \in targets : t.scope <= lastIndex
  /\ \A i, j \in Interfaces :
       i # j /\ links[j] \in {links[i], ip_links[i]} => links[j] = 0

SteadyInv ==
  /\ \A e \in table : links[e.ifname] # 0
  /\ pc = "links read" =>
       \A e \in steady : ip_links[e.ifname] = links[e.ifname]

IInv ==
  TypeOK /\ IndexInv /\ SteadyInv /\ TargetsAreNeighbors /\ NoNeighborMissed

=============================================================================
