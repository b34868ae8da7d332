------------------------------ MODULE Directory ------------------------------
(***************************************************************************)
(* What tansa promises, without a network: a directory of services by      *)
(* discovery port.  A server publishes its service to its discovery port   *)
(* (`serve`).  A scan reports services, each of which has been published   *)
(* to the scan's discovery port before, and reports nothing any more once  *)
(* it is over (`scan`).                                                    *)
(*                                                                         *)
(* The promise has two exceptions: what other programs put on the LAN      *)
(* (Foreign), and scans that share the port of their collector with        *)
(* another scan of their device (`shared`), which may also report what was *)
(* published to other discovery ports.                                     *)
(***************************************************************************)

CONSTANTS
  Servers,
  Scanners,
  Port,       \* discovery port of a server or scanner; 0 is refused
  Offer,      \* the service of a server
  Foreign     \* services made known by other programs

VARIABLES
  published,  \* servers that have published their service
  shared,     \* scans whose collector port is not theirs alone
  reported,   \* services each scan has reported
  over        \* scans that are over

vars == <<published, shared, reported, over>>

Init ==
  /\ published = {}
  /\ shared = {}
  /\ reported = [c \in Scanners |-> {}]
  /\ over = {}

Publish(s) ==
  /\ Port[s] # 0
  /\ published' = published \cup {s}
  /\ UNCHANGED <<shared, reported, over>>

\* Scans get hold of a collector port that is not theirs alone.
Share(scans) ==
  /\ shared' = shared \cup scans
  /\ UNCHANGED <<published, reported, over>>

\* May scan c report this service?
Known(c, service) ==
  \/ service \in Foreign
  \/ \E s \in published : /\ service = Offer[s]
                          /\ Port[s] = Port[c] \/ c \in shared

Report(c, service) ==
  /\ c \notin over
  /\ Known(c, service)
  /\ reported' = [reported EXCEPT ![c] = @ \cup {service}]
  /\ UNCHANGED <<published, shared, over>>

Close(c) ==
  /\ over' = over \cup {c}
  /\ UNCHANGED <<published, shared, reported>>

Next ==
  \/ \E s \in Servers : Publish(s)
  \/ \E scans \in SUBSET Scanners : Share(scans)
  \/ \E c \in Scanners :
       \E service \in Foreign \cup {Offer[s] : s \in Servers} :
         Report(c, service)
  \/ \E c \in Scanners : Close(c)

Spec == Init /\ [][Next]_vars

=============================================================================
