-------------------------------- MODULE Merge --------------------------------
(***************************************************************************)
(* What joining two sources promises (main/src/stream.rs): every item of   *)
(* each source is taken, in the order of that source; the ones that are    *)
(* not hidden are handed to the consumer; no source waits for ever; and    *)
(* the joined stream is over when both sources are, and only then.         *)
(***************************************************************************)
EXTENDS Sequences

CONSTANTS
  Sides,     \* the two sources
  Items,     \* what they yield
  Hidden     \* items the consumer does not get to see

VARIABLES
  queue,     \* items a source has produced and the stream has not taken
  closed,    \* sources that will not produce any more
  last,      \* the item handed out last
  over       \* has the joined stream ended?

vars == <<queue, closed, last, over>>

Init ==
  /\ queue = [s \in Sides |-> <<>>]
  /\ closed = {}
  /\ last \notin Items
  /\ over = "no"

\* A source produces an item, and may be done with it.
Produce(s, item) ==
  /\ s \notin closed
  /\ queue' = [queue EXCEPT ![s] = Append(@, item)]
  /\ closed' = closed \/ closed' = closed \cup {s}
  /\ UNCHANGED <<last, over>>

Close(s) ==
  /\ closed' = closed \cup {s}
  /\ UNCHANGED <<queue, last, over>>

\* The joined stream takes the next item of source s.
Take(s) ==
  /\ queue[s] # <<>>
  /\ queue' = [queue EXCEPT ![s] = Tail(@)]
  /\ last' = IF Head(queue[s]) \in Hidden THEN last ELSE Head(queue[s])
  /\ UNCHANGED <<closed, over>>

End ==
  /\ closed = Sides /\ \A s \in Sides : queue[s] = <<>>
  /\ over' = "yes"
  /\ UNCHANGED <<queue, closed, last>>

Next ==
  \/ \E s \in Sides, item \in Items : Produce(s, item)
  \/ \E s \in Sides : Close(s) \/ Take(s)
  \/ End

Spec == Init /\ [][Next]_vars

FairSpec == Spec /\ (\A s \in Sides : WF_vars(Take(s))) /\ WF_vars(End)

=============================================================================
