--------------------------- MODULE IpNeighborProofs ---------------------------
(***************************************************************************)
(* A scan for IP neighbors is sound and complete, for every set of         *)
(* interfaces, addresses and table entries and any number of changes.      *)
(***************************************************************************)
EXTENDS IpNeighbor, TLAPS

\* The entries of a table have an address and an interface.
LEMMA EntryFields ==
  ASSUME NEW e \in Entries
  PROVE  e.ip \in Addresses /\ e.ifname \in Interfaces
BY IpNeighborAssumption DEF Entry

\* The bounds are natural numbers.
LEMMA Bounds == MaxIndex \in Nat /\ MaxChanges \in Nat
BY IpNeighborAssumption

\* parse_output keeps exactly the neighbors that can be reached.
LEMMA UsableIsReachable ==
  ASSUME NEW e \in Entries
  PROVE  is_usable(e) <=> Reachable(e)
BY IpNeighborAssumption DEF Entry, Kinds, is_usable, is_valid_ip, Reachable

\* get_socket_address makes targets of interface indexes.
LEMMA SocketAddressType ==
  ASSUME NEW ip \in Addresses, NEW index \in 0 .. MaxIndex
  PROVE  get_socket_address(ip, index) \in Target
BY IpNeighborAssumption DEF get_socket_address, Target

\* The system before the scan satisfies the invariant.
LEMMA InitIInv == Init => IInv
<1> SUFFICES ASSUME Init PROVE IInv
  OBVIOUS
<1>1. TypeOK
  BY IpNeighborAssumption DEF Init, TypeOK
<1>2. IndexInv
  BY IpNeighborAssumption DEF Init, IndexInv
<1>3. SteadyInv
  BY DEF Init, SteadyInv
<1>4. TargetsAreNeighbors /\ NoNeighborMissed
  BY DEF Init, TargetsAreNeighbors, NoNeighborMissed
<1> QED
  BY <1>1, <1>2, <1>3, <1>4 DEF IInv

\* The types are kept by every change of links and neighbors.
LEMMA ChangeType ==
  ASSUME TypeOK, NEW entries \in SUBSET Entries, Change(entries),
         links' \in [Interfaces -> 0 .. MaxIndex],
         lastIndex' \in 0 .. MaxIndex
  PROVE  TypeOK'
<1>1. changes \in 0 .. MaxChanges
  BY DEF TypeOK
<1>2. changes' \in 0 .. MaxChanges
  BY <1>1, Bounds DEF Change
<1> QED
  BY <1>2 DEF Change, TypeOK

\* What a step of the system may do to the interfaces: remove some, or add
\* one with a new index.
LinkStep ==
  /\ links' \in [Interfaces -> 0 .. MaxIndex]
  /\ lastIndex' \in 0 .. MaxIndex /\ lastIndex' >= lastIndex
  /\ \A i \in Interfaces : links'[i] # links[i] =>
       \/ links'[i] = 0
       \/ /\ links'[i] = lastIndex' /\ lastIndex' > lastIndex
          /\ \A j \in Interfaces \ {i} : links'[j] = links[j]

\* The entries that it leaves are on interfaces that it leaves alone.
KeepsLinksOf(entries) ==
  /\ \A e \in entries : links'[e.ifname] # 0
  /\ \A e \in entries \cap table : links'[e.ifname] = links[e.ifname]

\* Indexes are numbers up to the last one handed out.
LEMMA IndexBounds ==
  ASSUME IInv, NEW i \in Interfaces
  PROVE  /\ links[i] \in Nat /\ links[i] <= lastIndex
         /\ ip_links[i] \in Nat /\ ip_links[i] <= lastIndex
         /\ lastIndex \in Nat
<1>1. links[i] \in 0 .. MaxIndex /\ ip_links[i] \in 0 .. MaxIndex
        /\ lastIndex \in 0 .. MaxIndex
  BY DEF IInv, TypeOK
<1>2. links[i] <= lastIndex /\ ip_links[i] <= lastIndex
  BY DEF IInv, IndexInv
<1> QED
  BY <1>1, <1>2, Bounds

\* The scope of a target is a number up to the last index handed out.
LEMMA ScopeBounds ==
  ASSUME IInv, NEW t \in targets
  PROVE  t.scope \in Nat /\ t.scope <= lastIndex
<1>1. t.scope \in 0 .. MaxIndex
  BY DEF IInv, TypeOK, Target
<1>2. t.scope <= lastIndex
  BY DEF IInv, IndexInv
<1> QED
  BY <1>1, <1>2, Bounds

\* No index passes from one interface to another.
LEMMA LinkStepIndexInv ==
  ASSUME IInv, LinkStep, ip_links' = ip_links, targets' = targets
  PROVE  IndexInv'
<1>0. lastIndex' \in Nat /\ lastIndex' >= lastIndex
  BY Bounds DEF LinkStep
<1>1. ASSUME NEW i \in Interfaces
      PROVE  links'[i] <= lastIndex' /\ ip_links'[i] <= lastIndex'
  BY <1>0, IndexBounds, Bounds DEF LinkStep
<1>2. ASSUME NEW t \in targets PROVE t.scope <= lastIndex'
  <2>1. lastIndex \in 0 .. MaxIndex
    BY DEF IInv, TypeOK
  <2> QED
    BY <1>0, <2>1, ScopeBounds, Bounds
<1>3. ASSUME NEW i \in Interfaces, NEW j \in Interfaces, i # j,
             links'[j] \in {links'[i], ip_links[i]}
      PROVE  links'[j] = 0
  <2>1. CASE links'[j] # links[j]
    BY <1>3, <2>1, IndexBounds DEF LinkStep
  <2>2. CASE links'[j] = links[j] /\ links'[i] # links[i]
    <3>1. links[j] = ip_links[i] => links[j] = 0
      BY <1>3 DEF IInv, IndexInv
    <3>2. links'[i] = lastIndex' /\ lastIndex' > lastIndex => links[j] # links'[i]
      BY IndexBounds
    <3> QED
      BY <1>3, <2>2, <3>1, <3>2 DEF LinkStep
  <2>3. CASE links'[j] = links[j] /\ links'[i] = links[i]
    BY <1>3, <2>3 DEF IInv, IndexInv
  <2> QED
    BY <2>1, <2>2, <2>3
<1> QED
  BY <1>1, <1>2, <1>3 DEF IndexInv

\* A step of the system that keeps to LinkStep and KeepsLinksOf preserves the
\* invariant.
LEMMA ChangeIInv ==
  ASSUME IInv, NEW entries \in SUBSET Entries, Change(entries), LinkStep,
         KeepsLinksOf(entries)
  PROVE  IInv'
<1>1. TypeOK'
  BY ChangeType DEF IInv, LinkStep
<1>2. IndexInv'
  BY LinkStepIndexInv DEF Change
<1>3. SteadyInv'
  BY DEF KeepsLinksOf, Change, IInv, TypeOK, SteadyInv
<1>4. TargetsAreNeighbors'
  <2>1. ASSUME NEW t \in targets, NEW i \in Interfaces,
               t.scope # 0, links'[i] = t.scope
        PROVE  links[i] = t.scope
    BY <2>1, ScopeBounds, IndexBounds DEF LinkStep
  <2> QED
    BY <2>1 DEF Change, IInv, TargetsAreNeighbors, Reachable
<1>5. NoNeighborMissed'
  <2> SUFFICES ASSUME pc = "done", outcome = "Ok", scanner # "Dummy",
                      NEW e \in steady \cap entries, Reachable(e)
               PROVE  AddressOf(e)' \in targets
    BY DEF Change, NoNeighborMissed, Reachable
  <2>1. links'[e.ifname] = links[e.ifname]
    BY DEF IInv, TypeOK, KeepsLinksOf
  <2>2. AddressOf(e)' = AddressOf(e)
    BY <2>1 DEF AddressOf
  <2> QED
    BY <2>2 DEF IInv, NoNeighborMissed
<1> QED
  BY <1>1, <1>2, <1>3, <1>4, <1>5 DEF IInv

\* Whatever the operating system changes, the invariant stays.
LEMMA SystemIInv == IInv /\ System => IInv'
<1> SUFFICES ASSUME IInv, System PROVE IInv'
  OBVIOUS
<1> USE Bounds
<1>0. /\ links \in [Interfaces -> 0 .. MaxIndex]
      /\ lastIndex \in 0 .. MaxIndex
      /\ table \subseteq Entries
  BY DEF IInv, TypeOK
<1>1. ASSUME NEW i \in Interfaces, RemoveLink(i) PROVE IInv'
  <2> DEFINE entries == {e \in table : e.ifname # i}
  <2>1. KeepsLinksOf(entries)
    BY <1>0, <1>1, EntryFields DEF RemoveLink, IInv, SteadyInv, KeepsLinksOf
  <2>2. LinkStep
    BY <1>0, <1>1 DEF RemoveLink, LinkStep
  <2>3. Change(entries)
    BY <1>1 DEF RemoveLink
  <2> QED
    BY <1>0, <2>1, <2>2, <2>3, ChangeIInv
<1>2. ASSUME NEW i \in Interfaces, AddLink(i) PROVE IInv'
  <2>1. \A e \in table : e.ifname # i
    BY <1>2 DEF AddLink, IInv, SteadyInv
  <2>2. KeepsLinksOf(table)
    BY <1>0, <1>2, <2>1, EntryFields DEF AddLink, IInv, SteadyInv, KeepsLinksOf
  <2>3. LinkStep
    BY <1>0, <1>2 DEF AddLink, LinkStep
  <2> QED
    BY <1>0, <1>2, <2>2, <2>3, ChangeIInv DEF AddLink
<1>3. ASSUME NEW e \in Entries, LearnNeighbor(e) PROVE IInv'
  <2> DEFINE entries ==
        {e} \cup {d \in table : d.ip # e.ip \/ d.ifname # e.ifname}
  <2>1. entries \subseteq Entries /\ Change(entries)
    BY <1>0, <1>3 DEF LearnNeighbor
  <2>2. KeepsLinksOf(entries)
    BY <1>3 DEF LearnNeighbor, IInv, SteadyInv, KeepsLinksOf
  <2>3. LinkStep
    BY <1>0, <1>3 DEF LearnNeighbor, LinkStep
  <2> HIDE DEF entries
  <2> QED
    BY <2>1, <2>2, <2>3, ChangeIInv
<1> QED
  BY <1>1, <1>2, <1>3 DEF System

\* A scan that ends with the addresses of reachable neighbors of the current
\* table, scoped to an interface they are on or to no interface, keeps the
\* invariant.
LEMMA FinishIInv ==
  ASSUME IInv, NEW value \in {"Ok", "Err"}, NEW addresses \in SUBSET Target,
         Finish(value, addresses), steady' \in SUBSET table,
         \A t \in addresses :
           \E e \in table :
             /\ Reachable(e) /\ e.ip = t.ip
             /\ t.scope <= lastIndex
             /\ t.scope # 0 => \A j \in Interfaces \ {e.ifname} : links[j] # t.scope,
         value = "Ok" /\ scanner # "Dummy" =>
           \A e \in steady' : Reachable(e) => AddressOf(e) \in addresses
  PROVE  IInv'
<1> USE Bounds
<1>1. TypeOK'
  BY DEF Finish, systemVars, IInv, TypeOK
<1>2. IndexInv' /\ SteadyInv'
  BY DEF Finish, systemVars, IInv, IndexInv, SteadyInv
<1>3. TargetsAreNeighbors'
  BY DEF Finish, systemVars, TargetsAreNeighbors, Reachable
<1>4. NoNeighborMissed'
  BY DEF Finish, systemVars, NoNeighborMissed, Reachable, AddressOf
<1> QED
  BY <1>1, <1>2, <1>3, <1>4 DEF IInv

\* Every step of the system and of the scan preserves the invariant.
LEMMA NextIInv == IInv /\ [Next]_vars => IInv'
<1> SUFFICES ASSUME IInv, [Next]_vars PROVE IInv'
  OBVIOUS
<1> USE Bounds
<1>0. /\ links \in [Interfaces -> 0 .. MaxIndex]
      /\ ip_links \in [Interfaces -> 0 .. MaxIndex]
      /\ table \subseteq Entries /\ steady \subseteq table
      /\ lastIndex \in 0 .. MaxIndex
  BY DEF IInv, TypeOK
<1>1. CASE ProbePowerShell \/ ProbeIpRoute2
  <2>1. TypeOK'
    BY <1>1 DEF ProbePowerShell, ProbeIpRoute2, systemVars, IInv, TypeOK
  <2>2. IndexInv' /\ SteadyInv'
    BY <1>1 DEF ProbePowerShell, ProbeIpRoute2, systemVars, IInv, IndexInv, SteadyInv
  <2>3. TargetsAreNeighbors' /\ NoNeighborMissed'
    BY <1>1 DEF ProbePowerShell, ProbeIpRoute2, systemVars, IInv,
       TargetsAreNeighbors, NoNeighborMissed, Reachable
  <2> QED
    BY <2>1, <2>2, <2>3 DEF IInv
<1>2. CASE CommandFails \/ DummyScan
  <2>1. PICK value \in {"Ok", "Err"} :
          Finish(value, {}) /\ (value = "Ok" => scanner = "Dummy")
    BY <1>2 DEF CommandFails, DummyScan
  <2>2. steady' \in SUBSET table
    BY <1>0, <1>2 DEF CommandFails, DummyScan
  <2> QED
    BY <2>1, <2>2, FinishIInv
<1>3. CASE PowerShellScan
  <2> DEFINE addresses == {get_socket_address(e.ip, links[e.ifname]) :
                             e \in {d \in table : is_usable(d)}}
  <2>1. Finish("Ok", addresses) /\ steady' = table
    BY <1>3 DEF PowerShellScan
  <2>2. addresses \subseteq Target
    BY <1>0, EntryFields, SocketAddressType
  <2>3. ASSUME NEW t \in addresses
        PROVE  \E e \in table :
                 /\ Reachable(e) /\ e.ip = t.ip
                 /\ t.scope <= lastIndex
                 /\ t.scope # 0 =>
                      \A j \in Interfaces \ {e.ifname} : links[j] # t.scope
    <3>1. PICK e \in table : is_usable(e)
                             /\ t = get_socket_address(e.ip, links[e.ifname])
      OBVIOUS
    <3>2. t.ip = e.ip /\ t.scope \in {0, links[e.ifname]}
      BY <3>1 DEF get_socket_address
    <3>3. t.scope <= lastIndex
      BY <1>0, <3>2, EntryFields DEF IInv, IndexInv
    <3>4. ASSUME t.scope # 0, NEW j \in Interfaces \ {e.ifname}
          PROVE  links[j] # t.scope
      BY <1>0, <3>2, <3>4, EntryFields DEF IInv, IndexInv
    <3> QED
      BY <1>0, <3>1, <3>2, <3>3, <3>4, UsableIsReachable
  <2>4. \A e \in table : Reachable(e) => AddressOf(e) \in addresses
    BY <1>0, UsableIsReachable
    DEF AddressOf, get_socket_address, is_link_local
  <2> HIDE DEF addresses
  <2> QED
    BY <2>1, <2>2, <2>3, <2>4, FinishIInv
<1>4. CASE ReadLinks
  <2>1. TypeOK'
    BY <1>0, <1>4 DEF ReadLinks, systemVars, IInv, TypeOK
  <2>2. IndexInv' /\ SteadyInv'
    BY <1>0, <1>4 DEF ReadLinks, systemVars, IInv, IndexInv, SteadyInv
  <2>3. TargetsAreNeighbors' /\ NoNeighborMissed'
    BY <1>4 DEF ReadLinks, systemVars, IInv, TargetsAreNeighbors,
       NoNeighborMissed, Reachable
  <2> QED
    BY <2>1, <2>2, <2>3 DEF IInv
<1>5. CASE ReadNeighbors
  <2>1. CASE Finish("Err", {})
    <3>1. steady' \in SUBSET table
      BY <1>0, <1>5 DEF ReadNeighbors
    <3> QED
      BY <2>1, <3>1, FinishIInv
  <2> DEFINE addresses ==
        {get_socket_address(e.ip, ip_links[e.ifname]) :
           e \in {d \in table : is_usable(d) /\ ip_links[d.ifname] # 0}}
  <2>2. CASE Finish("Ok", addresses)
    <3>1. addresses \subseteq Target
      BY <1>0, EntryFields, SocketAddressType
    <3>2. ASSUME NEW t \in addresses
          PROVE  \E e \in table :
                   /\ Reachable(e) /\ e.ip = t.ip
                   /\ t.scope <= lastIndex
                   /\ t.scope # 0 =>
                        \A j \in Interfaces \ {e.ifname} : links[j] # t.scope
      <4>1. PICK e \in table :
              is_usable(e) /\ t = get_socket_address(e.ip, ip_links[e.ifname])
        OBVIOUS
      <4>2. t.ip = e.ip /\ t.scope \in {0, ip_links[e.ifname]}
        BY <4>1 DEF get_socket_address
      <4>3. t.scope <= lastIndex
        BY <1>0, <4>2, EntryFields DEF IInv, IndexInv
      <4>4. ASSUME t.scope # 0, NEW j \in Interfaces \ {e.ifname}
            PROVE  links[j] # t.scope
        BY <1>0, <4>2, <4>4, EntryFields DEF IInv, IndexInv
      <4> QED
        BY <1>0, <4>1, <4>2, <4>3, <4>4, UsableIsReachable
    <3>3. \A e \in steady : Reachable(e) => AddressOf(e) \in addresses
      <4> SUFFICES ASSUME NEW e \in steady, Reachable(e)
                   PROVE  AddressOf(e) \in addresses
        OBVIOUS
      <4>1. ip_links[e.ifname] = links[e.ifname] /\ links[e.ifname] # 0
        BY <1>0, <1>5 DEF ReadNeighbors, IInv, SteadyInv
      <4>2. e \in {d \in table : is_usable(d) /\ ip_links[d.ifname] # 0}
        BY <1>0, <4>1, UsableIsReachable
      <4>3. AddressOf(e) = get_socket_address(e.ip, ip_links[e.ifname])
        BY <4>1 DEF AddressOf, get_socket_address, is_link_local
      <4> QED
        BY <4>2, <4>3
    <3>4. steady' = steady
      BY <1>5 DEF ReadNeighbors
    <3> HIDE DEF addresses
    <3> QED
      BY <1>0, <2>2, <3>1, <3>2, <3>3, <3>4, FinishIInv
  <2> QED
    BY <1>5, <2>1, <2>2 DEF ReadNeighbors
<1>6. CASE UNCHANGED vars
  <2>1. TypeOK' /\ IndexInv' /\ SteadyInv'
    BY <1>6 DEF vars, systemVars, IInv, TypeOK, IndexInv, SteadyInv
  <2>2. TargetsAreNeighbors' /\ NoNeighborMissed'
    BY <1>6 DEF vars, systemVars, IInv, TargetsAreNeighbors, NoNeighborMissed,
       Reachable, AddressOf
  <2> QED
    BY <2>1, <2>2 DEF IInv
<1> QED
  BY <1>1, <1>2, <1>3, <1>4, <1>5, <1>6, SystemIInv DEF Next, Scan

\* A target is a neighbor that could be reached, and is never sent to through
\* an interface it was not seen on (linux.rs joins two outputs by name).
THEOREM SoundTargets == Spec => []TargetsAreNeighbors
<1>1. IInv => TargetsAreNeighbors
  BY DEF IInv
<1> QED
  BY InitIInv, NextIInv, <1>1, PTL DEF Spec

\* A scan that succeeds misses no neighbor that can be reached throughout.
THEOREM CompleteScan == Spec => []NoNeighborMissed
<1>1. IInv => NoNeighborMissed
  BY DEF IInv
<1> QED
  BY InitIInv, NextIInv, <1>1, PTL DEF Spec

\* Type correctness of a neighbor scan.
THEOREM IpNeighborTypeCorrect == Spec => []TypeOK
<1>1. IInv => TypeOK
  BY DEF IInv
<1> QED
  BY InitIInv, NextIInv, <1>1, PTL DEF Spec

=============================================================================
