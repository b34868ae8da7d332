---------------------------- MODULE MCIpNeighbor ----------------------------
(***************************************************************************)
(* Instances of IpNeighbor for TLC: two interfaces, on both of which the   *)
(* same link-local address is known, as link-local addresses may be.       *)
(***************************************************************************)
EXTENDS IpNeighbor

CONSTANTS wlan0, eth0, linkLocal, global, multicast

Kinds1 ==
  [a \in Addresses |-> CASE a = linkLocal -> "link-local"
                         [] a = global    -> "global"
                         [] a = multicast -> "multicast"]

Row(ip, ifname, state) ==
  [ip |-> ip, ifname |-> ifname, lladdr |-> TRUE, router |-> TRUE,
   state |-> state]

RouterRows ==
  {Row(linkLocal, wlan0, "reachable"), Row(linkLocal, eth0, "stale"),
   Row(global, wlan0, "stale"), Row(multicast, eth0, "reachable")}

\* A neighbor that is no router, and one that could not be resolved.
OtherRows ==
  {[Row(linkLocal, eth0, "reachable") EXCEPT !.router = FALSE],
   [Row(global, eth0, "failed") EXCEPT !.lladdr = FALSE, !.router = FALSE],
   Row(linkLocal, wlan0, "failed")}

AllRows == RouterRows \cup OtherRows

=============================================================================
