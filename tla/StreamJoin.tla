----------------------------- MODULE StreamJoin -----------------------------
(***************************************************************************)
(* `join` (main/src/stream.rs) and `select` as scan_internal uses it       *)
(* (main/src/scanner.rs): two sources polled in turn by one task, while    *)
(* other tasks fill them.                                                  *)
(*                                                                         *)
(*   start --> first --> second --> start (an item), parked or ended       *)
(*                                                                         *)
(* A poll of the joined stream polls one side and, unless that has an      *)
(* item, the other one; which side comes first alternates while neither is *)
(* finished.  A side that has nothing keeps the waker.  The consumer polls *)
(* again after an item, and when it has been woken.  select, filter_map    *)
(* and wakers are those of the futures crate.                              *)
(***************************************************************************)
EXTENDS Sequences, Naturals

CONSTANTS
  Items,       \* what the sources yield: values and errors
  Hidden,      \* the success of the future, which filter_map drops
  Futures,     \* sides that are a future: one item, then the end
  QueueBound   \* bound on what a source has ready at a time

Sides == {"left", "right"}
Other(s) == IF s = "left" THEN "right" ELSE "left"

ASSUME StreamJoinAssumption ==
  /\ Hidden \subseteq Items
  /\ "none" \notin Items
  /\ Futures \subseteq Sides
  /\ QueueBound \in Nat \ {0}

VARIABLES
  queue,      \* items that a poll of a source would return
  closed,     \* sources that yield nothing more after their queue
  next,       \* the side that select polls first
  finished,   \* sides that select has seen the end of
  pc,         \* where the poll is
  side,       \* the side being polled
  wakers,     \* sources that hold the waker of the task
  woken,      \* "yes" if the task has been woken since its poll began
  last        \* the item handed to the consumer last

vars == <<queue, closed, next, finished, pc, side, wakers, woken, last>>

TypeOK ==
  /\ queue \in [Sides -> Seq(Items)]
  /\ closed \subseteq Sides
  /\ next \in Sides
  /\ finished \subseteq Sides
  /\ pc \in {"start", "first", "second", "parked", "ended"}
  /\ side \in Sides
  /\ wakers \subseteq Sides
  /\ woken \in {"yes", "no"}
  /\ last \in Items \cup {"none"}

\* select(wrapped_stream, wrapped_future): the stream is the left side.
Init ==
  /\ queue = [s \in Sides |-> <<>>]
  /\ closed = {}
  /\ next = "left"
  /\ finished = {}
  /\ pc = "start"
  /\ side = "left"
  /\ wakers = {}
  /\ woken = "no"
  /\ last = "none"

-----------------------------------------------------------------------------
(***************************************************************************)
(* The sources                                                             *)
(***************************************************************************)

Wake(s) ==
  /\ woken' = IF s \in wakers THEN "yes" ELSE woken
  /\ wakers' = wakers \ {s}
  /\ UNCHANGED <<next, finished, pc, side, last>>

Produce(s, item) ==
  /\ s \notin closed /\ Len(queue[s]) < QueueBound
  /\ item \in Hidden => s \in Futures
  /\ queue' = [queue EXCEPT ![s] = Append(@, item)]
  /\ closed' = IF s \in Futures THEN closed \cup {s} ELSE closed
  /\ Wake(s)

Close(s) ==
  /\ s \notin closed \cup Futures
  /\ closed' = closed \cup {s}
  /\ Wake(s)
  /\ UNCHANGED queue

Source == \E s \in Sides : Close(s) \/ \E item \in Items : Produce(s, item)

-----------------------------------------------------------------------------
(***************************************************************************)
(* The joined stream                                                       *)
(***************************************************************************)

\* Mutation: a combinator that prefers the left side.
StartPoll_left ==
  /\ pc = "start" \/ (pc = "parked" /\ woken = "yes")
  /\ side' = IF finished = {} THEN "left"
             ELSE CHOOSE s \in Sides : s \notin finished
  /\ pc' = IF finished = {} THEN "first" ELSE "second"
  /\ woken' = "no"
  /\ UNCHANGED <<queue, closed, next, finished, wakers, last>>

\* A poll begins with the side whose turn it is, or with the only one left.
StartPoll ==
  /\ pc = "start" \/ (pc = "parked" /\ woken = "yes")
  /\ \/ /\ finished = {}
        /\ side' = next /\ next' = Other(next) /\ pc' = "first"
     \/ /\ finished # {}
        /\ side' \in Sides \ finished /\ UNCHANGED next /\ pc' = "second"
  /\ woken' = "no"
  /\ UNCHANGED <<queue, closed, finished, wakers, last>>

\* Mutation: without filter_map, the success of the future is an item.
TakeItem_unfiltered ==
  /\ pc \in {"first", "second"} /\ queue[side] # <<>>
  /\ queue' = [queue EXCEPT ![side] = Tail(@)]
  /\ last' = IF Head(queue[side]) \in Hidden THEN "None"
                                           ELSE Head(queue[side])
  /\ pc' = "start"
  /\ UNCHANGED <<closed, next, finished, side, wakers, woken>>

\* Mutation: after an item that is dropped the task waits to be woken.
TakeItem_pending ==
  /\ pc \in {"first", "second"} /\ queue[side] # <<>>
  /\ queue' = [queue EXCEPT ![side] = Tail(@)]
  /\ IF Head(queue[side]) \in Hidden
       THEN pc' = "parked" /\ UNCHANGED last
       ELSE pc' = "start" /\ last' = Head(queue[side])
  /\ UNCHANGED <<closed, next, finished, side, wakers, woken>>

\* The side has an item.  filter_map hands it out or, if it is the success of
\* the future, drops it and polls again; so does the consumer.
TakeItem ==
  /\ pc \in {"first", "second"} /\ queue[side] # <<>>
  /\ queue' = [queue EXCEPT ![side] = Tail(@)]
  /\ last' = IF Head(queue[side]) \in Hidden THEN last ELSE Head(queue[side])
  /\ pc' = "start"
  /\ UNCHANGED <<closed, next, finished, side, wakers, woken>>

\* The side has no item: it is finished, or keeps the waker.  The other side
\* is polled next; if it has been polled before, the stream ends when both
\* sides have, and waits otherwise.
PollEmptySide ==
  /\ pc \in {"first", "second"} /\ queue[side] = <<>>
  /\ \/ /\ side \in closed
        /\ finished' = finished \cup {side} /\ UNCHANGED wakers
     \/ /\ side \notin closed
        /\ wakers' = wakers \cup {side} /\ UNCHANGED finished
  /\ \/ pc = "first" /\ pc' = "second" /\ side' = Other(side)
     \/ /\ pc = "second" /\ UNCHANGED side
        /\ pc' = IF finished' = Sides THEN "ended" ELSE "parked"
  /\ UNCHANGED <<queue, closed, next, woken, last>>

Task == StartPoll \/ TakeItem \/ PollEmptySide

Next == Source \/ Task

Spec == Init /\ [][Next]_vars

\* The consumer polls until the end, and the runtime polls a woken task.
FairSpec == Spec /\ WF_vars(Task)

-----------------------------------------------------------------------------
\* No wake-up is lost: a task that waits without having been woken has taken
\* everything there was, and every source that is not over will wake it,
\* although sources produce while the other side is being polled and a poll
\* may begin with an item that is dropped.
NoLostWakeup ==
  pc = "parked" /\ woken = "no" =>
    \A s \in Sides \ finished :
      queue[s] = <<>> /\ s \notin closed /\ s \in wakers

\* Side s is over, or the task will hear of what it has.
Quiet(s) ==
  \/ s \in finished \/ woken = "yes"
  \/ queue[s] = <<>> /\ s \notin closed /\ s \in wakers

\* The inductive invariant: a side that has been asked and had nothing stays
\* quiet while the other one is asked, and while the task waits.
IInv ==
  /\ TypeOK
  /\ \A s \in finished : s \in closed /\ queue[s] = <<>>
  /\ pc = "second" => Quiet(Other(side))
  /\ pc = "parked" => \A s \in Sides : Quiet(s)

\* The joined stream implements the merge of its sources: nothing is lost,
\* reordered or invented, neither side starves although the other one may
\* always have an item, and the stream ends when both sides have.
Merged == INSTANCE Merge WITH over <- IF pc = "ended" THEN "yes" ELSE "no"

ImplementsMerge == Merged!FairSpec

\* Its safety part.
ImplementsMergeSafely == Merged!Spec

-----------------------------------------------------------------------------
\* How many more steps the task may take before it takes the item that side s
\* has ready.
Distance(s) ==
  CASE pc \in {"first", "second"} /\ side = s -> 0
    [] pc = "first" /\ side # s  -> 2
    [] pc = "second" /\ side # s -> 4
    [] OTHER -> IF next = s \/ Other(s) \in finished THEN 1 ELSE 3

\* A side that has an item is served within five steps of the task, whatever
\* the other side has ready and whatever the sources do meanwhile: select
\* keeps its turn over the end of a poll, over items that are dropped, and
\* over the end of the other side.
ItemIsTakenInTurn ==
  [][\A s \in Sides : queue[s] # <<>> =>
       \/ queue'[s] = Tail(queue[s])
       \/ Source /\ Distance(s)' = Distance(s)
       \/ Task /\ Distance(s)' < Distance(s)]_vars

\* What it needs besides IInv: the turn passes on when a poll begins.
TurnInv == pc = "first" => next = Other(side)

=============================================================================
