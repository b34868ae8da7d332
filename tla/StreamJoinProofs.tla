-------------------------- MODULE StreamJoinProofs --------------------------
(***************************************************************************)
(* The joined stream loses no wake-up and is a merge of its sources, for   *)
(* every set of items and any number of items that are ready.              *)
(***************************************************************************)
EXTENDS StreamJoin, TLAPS

\* The other side is the other side.
LEMMA OtherSide ==
  \A s \in Sides : /\ Other(s) \in Sides /\ Other(s) # s /\ Other(Other(s)) = s
                   /\ \A t \in Sides : t = s \/ t = Other(s)
  BY DEF Sides, Other

\* Init establishes the inductive invariant.
LEMMA InitIInv == Init => IInv
  BY DEF Init, IInv, TypeOK, Sides

\* A source that produces or closes wakes the task if it has been asked.
LEMMA SourceIInv ==
  ASSUME IInv, NEW s \in Sides, Close(s) \/ \E i \in Items : Produce(s, i)
  PROVE  IInv'
<1> USE DEF IInv, TypeOK
<1>1. /\ UNCHANGED <<next, finished, pc, side, last>>
      /\ woken' = IF s \in wakers THEN "yes" ELSE woken
      /\ wakers' = wakers \ {s}
      /\ s \notin closed
  BY DEF Close, Produce, Wake
<1>2. /\ queue' \in [Sides -> Seq(Items)]
      /\ closed' \subseteq Sides
      /\ closed \subseteq closed' /\ closed' \subseteq closed \cup {s}
      /\ \A t \in Sides : t # s => queue'[t] = queue[t]
  <2>1. CASE Close(s)
    BY <2>1 DEF Close
  <2>2. ASSUME NEW i \in Items, Produce(s, i)
        PROVE  /\ queue' \in [Sides -> Seq(Items)]
               /\ closed' \subseteq Sides
               /\ closed \subseteq closed' /\ closed' \subseteq closed \cup {s}
               /\ \A t \in Sides : t # s => queue'[t] = queue[t]
    <3>1. Append(queue[s], i) \in Seq(Items)
      OBVIOUS
    <3> QED BY <2>2, <3>1 DEF Produce
  <2> QED BY <2>1, <2>2
<1>3. TypeOK'
  BY <1>1, <1>2
<1>4. \A t \in Sides : Quiet(t) => Quiet(t)'
  BY <1>1, <1>2 DEF Quiet
<1>5. \A t \in finished' : t \in closed' /\ queue'[t] = <<>>
  BY <1>1, <1>2
<1> QED BY <1>1, <1>3, <1>4, <1>5, OtherSide

\* A poll begins with nothing known about a side that is not over.
LEMMA StartPollIInv == ASSUME IInv, StartPoll PROVE IInv'
<1> USE DEF IInv, TypeOK
<1>1. CASE finished = {}
  BY <1>1, OtherSide DEF StartPoll
<1>2. CASE finished # {}
  <2>1. /\ side' \in Sides \ finished /\ pc' = "second"
        /\ UNCHANGED <<queue, closed, next, finished, wakers, last>>
        /\ woken' = "no"
    BY <1>2 DEF StartPoll
  <2>2. Other(side') \in finished'
    BY <1>2, <2>1, OtherSide
  <2> QED BY <2>1, <2>2 DEF Quiet
<1> QED BY <1>1, <1>2

\* Taking an item begins another poll.
LEMMA TakeItemIInv == ASSUME IInv, TakeItem PROVE IInv'
<1> USE DEF IInv, TypeOK
<1>1. /\ queue[side] \in Seq(Items) /\ queue[side] # <<>>
      /\ Head(queue[side]) \in Items /\ Tail(queue[side]) \in Seq(Items)
  BY DEF TakeItem
<1>2. /\ queue' \in [Sides -> Seq(Items)]
      /\ \A t \in Sides : t # side => queue'[t] = queue[t]
      /\ last' \in Items \cup {"none"} /\ pc' = "start"
      /\ UNCHANGED <<closed, next, finished, side, wakers, woken>>
  BY <1>1 DEF TakeItem
<1>3. side \notin finished
  BY <1>1
<1> QED BY <1>2, <1>3

\* A side without an item is finished, or keeps the waker.
LEMMA PollEmptySideIInv == ASSUME IInv, PollEmptySide PROVE IInv'
<1> USE DEF IInv, TypeOK
<1>1. /\ queue[side] = <<>>
      /\ UNCHANGED <<queue, closed, next, woken, last>>
      /\ finished \subseteq finished' /\ wakers \subseteq wakers'
      /\ finished' \subseteq finished \cup {side}
      /\ wakers' \subseteq Sides
      /\ side \in finished' => side \in closed
  BY DEF PollEmptySide
<1>2. \A t \in Sides : t = side => Quiet(t)'
  BY <1>1 DEF PollEmptySide, Quiet
<1>3. \A t \in Sides : Quiet(t) => Quiet(t)'
  BY <1>1 DEF Quiet
<1>4. CASE pc = "first"
  <2>1. pc' = "second" /\ side' = Other(side)
    BY <1>4 DEF PollEmptySide
  <2>2. Quiet(Other(side))'
    BY <2>1, <1>2, OtherSide
  <2> QED BY <2>1, <2>2, <1>1, OtherSide
<1>5. CASE pc = "second"
  <2>1. pc' \in {"ended", "parked"} /\ side' = side
    BY <1>5 DEF PollEmptySide
  <2>2. \A t \in Sides : Quiet(t)'
    BY <1>2, <1>3, <1>5, OtherSide
  <2> QED BY <2>1, <2>2, <1>1
<1> QED BY <1>4, <1>5 DEF PollEmptySide

\* The invariant is inductive.
LEMMA NextIInv == IInv /\ [Next]_vars => IInv'
<1> SUFFICES ASSUME IInv, [Next]_vars PROVE IInv'
  OBVIOUS
<1>1. CASE UNCHANGED vars
  BY <1>1 DEF vars, IInv, TypeOK, Quiet
<1>2. CASE Source
  BY <1>2, SourceIInv DEF Source
<1>3. CASE Task
  BY <1>3, StartPollIInv, TakeItemIInv, PollEmptySideIInv DEF Task
<1> QED BY <1>1, <1>2, <1>3 DEF Next

LEMMA Invariance == Spec => []IInv
  BY InitIInv, NextIInv, PTL DEF Spec

\* A task that waits unwoken has taken everything there was, and every source
\* that is not over will wake it.
THEOREM NoWakeupIsLost == Spec => []NoLostWakeup
<1>1. IInv => NoLostWakeup
  BY DEF IInv, NoLostWakeup, Quiet
<1> QED BY Invariance, <1>1, PTL

\* The state of the joined stream keeps its type.
THEOREM StreamJoinTypeCorrect == Spec => []TypeOK
<1>1. IInv => TypeOK
  BY DEF IInv
<1> QED BY Invariance, <1>1, PTL

\* Every step of the joined stream is a step of the merge or a stutter.
LEMMA StepSimulation == IInv /\ [Next]_vars => [Merged!Next]_(Merged!vars)
<1> SUFFICES ASSUME IInv, [Next]_vars PROVE [Merged!Next]_(Merged!vars)
  OBVIOUS
<1> USE DEF Merged!vars
<1>1. CASE UNCHANGED vars
  BY <1>1 DEF vars
<1>2. ASSUME NEW s \in Sides, NEW i \in Items, Produce(s, i)
      PROVE  Merged!Produce(s, i)
  BY <1>2 DEF Produce, Wake, Merged!Produce
<1>3. ASSUME NEW s \in Sides, Close(s) PROVE Merged!Close(s)
  BY <1>3 DEF Close, Wake, Merged!Close
<1>4. CASE StartPoll
  BY <1>4 DEF StartPoll
<1>5. ASSUME TakeItem PROVE side \in Sides /\ Merged!Take(side)
  BY <1>5 DEF TakeItem, Merged!Take, IInv, TypeOK
<1>6. ASSUME PollEmptySide
      PROVE  Merged!End \/ UNCHANGED Merged!vars
  <2>1. CASE pc' = "ended"
    <3>1. /\ finished' = Sides /\ UNCHANGED <<queue, closed, last>>
          /\ pc \in {"first", "second"}
          /\ finished' \subseteq finished \cup {side}
          /\ queue[side] = <<>> /\ (side \in finished' => side \in closed
                                     \/ side \in finished)
      BY <1>6, <2>1 DEF PollEmptySide
    <3>2. closed = Sides /\ \A s \in Sides : queue[s] = <<>>
      BY <3>1 DEF IInv, TypeOK
    <3> QED BY <2>1, <3>1, <3>2 DEF Merged!End
  <2>2. CASE pc' # "ended"
    BY <1>6, <2>2 DEF PollEmptySide
  <2> QED BY <2>1, <2>2
<1> QED
  BY <1>1, <1>2, <1>3, <1>4, <1>5, <1>6
  DEF Next, Source, Task, Merged!Next

\* The joined stream is a merge of its sources: nothing is lost, reordered or
\* invented, and the stream ends only when both sides have.
THEOREM JoinIsMerge == Spec => ImplementsMergeSafely
<1>1. Init => Merged!Init
  BY StreamJoinAssumption DEF Init, Merged!Init
<1> QED
  BY <1>1, StepSimulation, Invariance, PTL
  DEF Spec, ImplementsMergeSafely, Merged!Spec

-----------------------------------------------------------------------------
\* The turn passes on at the beginning of every poll.
LEMMA NextTurn == IInv /\ TurnInv /\ [Next]_vars => TurnInv'
<1> SUFFICES ASSUME IInv, TurnInv, [Next]_vars PROVE TurnInv'
  OBVIOUS
<1>1. CASE UNCHANGED vars
  BY <1>1 DEF vars, TurnInv
<1>2. CASE Source
  BY <1>2 DEF Source, Close, Produce, Wake, TurnInv
<1>3. CASE StartPoll
  BY <1>3 DEF StartPoll, TurnInv
<1>4. CASE TakeItem
  BY <1>4 DEF TakeItem, TurnInv
<1>5. CASE PollEmptySide
  BY <1>5 DEF PollEmptySide, TurnInv
<1> QED
  BY <1>1, <1>2, <1>3, <1>4, <1>5 DEF Next, Task

\* A step of the task takes the item of side s or brings its turn closer.
LEMMA TaskServes ==
  ASSUME IInv, TurnInv, NEW s \in Sides, queue[s] # <<>>, Task
  PROVE  queue'[s] = Tail(queue[s]) \/ Distance(s)' < Distance(s)
<1> USE DEF IInv, TypeOK
<1>1. s \notin finished
  OBVIOUS
<1>2. CASE StartPoll
  <2>1. CASE finished = {}
    <3>1. /\ side' = next /\ pc' = "first" /\ pc \in {"start", "parked"}
      BY <1>2, <2>1 DEF StartPoll
    <3>2. Distance(s) = IF next = s THEN 1 ELSE 3
      BY <2>1, <3>1 DEF Distance
    <3>3. Distance(s)' = IF next = s THEN 0 ELSE 2
      BY <3>1 DEF Distance
    <3> QED
      BY <3>2, <3>3
  <2>2. CASE finished # {}
    <3>1. /\ side' \in Sides \ finished /\ pc' = "second"
          /\ pc \in {"start", "parked"}
      BY <1>2, <2>2 DEF StartPoll
    <3>2. Other(s) \in finished
      BY <1>1, <2>2, OtherSide
    <3>3. side' = s
      BY <3>1, <3>2, OtherSide
    <3>4. Distance(s)' = 0
      BY <3>1, <3>3 DEF Distance
    <3>5. Distance(s) = 1
      BY <3>1, <3>2 DEF Distance
    <3> QED
      BY <3>4, <3>5
  <2> QED
    BY <2>1, <2>2
<1>3. CASE TakeItem
  <2>1. CASE side = s
    BY <1>3, <2>1 DEF TakeItem
  <2>2. CASE side # s
    <3>1. /\ pc' = "start" /\ UNCHANGED <<next, finished>>
          /\ pc \in {"first", "second"}
      BY <1>3 DEF TakeItem
    <3>2. Distance(s)' = IF next = s \/ Other(s) \in finished THEN 1 ELSE 3
      BY <3>1 DEF Distance
    <3>3. CASE pc = "first"
      <4>1. next = s
        BY <2>2, <3>3, OtherSide DEF TurnInv
      <4>2. Distance(s) = 2
        BY <2>2, <3>3 DEF Distance
      <4> QED
        BY <3>2, <4>1, <4>2
    <3>4. CASE pc = "second"
      <4>1. Distance(s) = 4
        BY <2>2, <3>4 DEF Distance
      <4> QED
        BY <3>2, <4>1
    <3> QED
      BY <3>1, <3>3, <3>4
  <2> QED
    BY <2>1, <2>2
<1>4. CASE PollEmptySide
  <2>1. side # s /\ side \in Sides
    BY <1>4 DEF PollEmptySide
  <2>2. CASE pc = "first"
    <3>1. pc' = "second" /\ side' = s
      BY <1>4, <2>1, <2>2, OtherSide DEF PollEmptySide
    <3>2. Distance(s)' = 0 /\ Distance(s) = 2
      BY <2>1, <2>2, <3>1 DEF Distance
    <3> QED
      BY <3>2
  <2>3. CASE pc = "second"
    <3>1. pc' \in {"ended", "parked"}
      BY <1>4, <2>3 DEF PollEmptySide
    <3>2. Distance(s)' \in {1, 3}
      BY <3>1 DEF Distance
    <3>3. Distance(s) = 4
      BY <2>1, <2>3 DEF Distance
    <3> QED
      BY <3>2, <3>3
  <2> QED
    BY <1>4, <2>2, <2>3 DEF PollEmptySide
<1> QED
  BY <1>2, <1>3, <1>4 DEF Task

\* No source of `join` (stream.rs) starves: an item that is ready is taken
\* within five steps of the task, whatever the other source has ready.
THEOREM NobodyStarves == Spec => ItemIsTakenInTurn
<1>1. Init => TurnInv
  BY DEF Init, TurnInv
<1>2. ASSUME IInv, TurnInv, Next, NEW s \in Sides, queue[s] # <<>>
      PROVE  \/ queue'[s] = Tail(queue[s])
             \/ Source /\ Distance(s)' = Distance(s)
             \/ Task /\ Distance(s)' < Distance(s)
  <2>1. CASE Source
    <3>1. UNCHANGED <<next, finished, pc, side>>
      BY <2>1 DEF Source, Close, Produce, Wake
    <3>2. Distance(s)' = Distance(s)
      BY <3>1 DEF Distance
    <3> QED
      BY <2>1, <3>2
  <2>2. CASE Task
    BY <1>2, <2>2, TaskServes
  <2> QED
    BY <1>2, <2>1, <2>2 DEF Next
<1>3. IInv /\ TurnInv /\ [Next]_vars =>
        [\A s \in Sides : queue[s] # <<>> =>
           \/ queue'[s] = Tail(queue[s])
           \/ Source /\ Distance(s)' = Distance(s)
           \/ Task /\ Distance(s)' < Distance(s)]_vars
  BY <1>2
<1> QED
  BY Invariance, NextTurn, <1>1, <1>3, PTL DEF Spec, ItemIsTakenInTurn

=============================================================================
