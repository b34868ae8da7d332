---------------------------- MODULE ProcessProofs ----------------------------
(***************************************************************************)
(* What a call of `eval`, `run` or `probe` returns is true of its child,   *)
(* for pipes of every capacity, inputs and outputs of every size, and      *)
(* every combination of faults.                                            *)
(***************************************************************************)
EXTENDS Process, TLAPS

\* Closing an end of a pipe leaves a pipe with the same contents.
LEMMA ClosedPipe ==
  ASSUME NEW p \in Pipe, NEW e
  PROVE  closed(p, e) \in Pipe /\ closed(p, e).units = p.units
BY DEF closed, Pipe

\* A call that has not yet started satisfies the invariant.
LEMMA InitIInv == Init => IInv
<1> SUFFICES ASSUME Init PROVE IInv
  OBVIOUS
<1>1. piped \in Pipe /\ null \in Pipe /\ piped.units = 0 /\ null.units = 0
  BY ProcessAssumption DEF piped, null, Pipe, Ends
<1>2. TypeOK
  BY <1>1, ProcessAssumption DEF Init, TypeOK, Results
<1>3. OutputInv
  BY <1>1, ProcessAssumption DEF Init, OutputInv
<1> QED
  BY <1>2, <1>3 DEF Init, IInv, ControlInv, ResultIsFaithful

\* Returning keeps the invariant if the value returned is true.
LEMMA ReturnIInv ==
  ASSUME IInv, NEW value \in Results \ {"none"}, Return(value),
         value = "Ok" => child = "success" /\ got = output,
         value = "true" => child = "success",
         value = "ExternalCommand" => child = "failure"
  PROVE  IInv'
<1>1. TypeOK'
  BY ClosedPipe DEF IInv, TypeOK, Return
<1>2. OutputInv'
  BY ClosedPipe DEF IInv, TypeOK, OutputInv, Return
<1>3. ControlInv'
  BY DEF IInv, ControlInv, Return
<1>4. ResultIsFaithful'
  BY DEF Return, ResultIsFaithful
<1> QED
  BY <1>1, <1>2, <1>3, <1>4 DEF IInv

\* An I/O error may be returned at any time.
LEMMA IoErrorIInv == IInv /\ IoError => IInv'
BY ReturnIInv DEF IoError, Results

\* The end of the child keeps the invariant if a successful child has
\* written everything.
LEMMA ExitIInv ==
  ASSUME IInv, child = "running", NEW status \in {"success", "failure"},
         Exit(status), status = "success" => unwritten = 0
  PROVE  IInv'
<1>1. TypeOK'
  BY ClosedPipe DEF IInv, TypeOK, Exit
<1>2. OutputInv'
  BY ClosedPipe DEF IInv, TypeOK, OutputInv, Exit
<1>3. ControlInv' /\ ResultIsFaithful'
  BY DEF IInv, ControlInv, ResultIsFaithful, Exit
<1> QED
  BY <1>1, <1>2, <1>3 DEF IInv

\* Every step of caller and child preserves the invariant.
LEMMA NextIInv == IInv /\ [Next]_vars => IInv'
<1> SUFFICES ASSUME IInv, [Next]_vars PROVE IInv'
  OBVIOUS
<1> USE ProcessAssumption
<1>1. CASE Spawn
  BY <1>1 DEF Spawn, IInv, TypeOK, OutputInv, ControlInv, ResultIsFaithful
<1>2. CASE WriteStdin
  <2>1. CASE "child" \notin stdin.open /\ IoError
    BY <2>1, IoErrorIInv
  <2>2. CASE ~("child" \notin stdin.open /\ IoError)
    BY <1>2, <2>2
    DEF WriteStdin, IInv, TypeOK, Pipe, OutputInv, ControlInv, ResultIsFaithful
  <2> QED
    BY <2>1, <2>2
<1>3. CASE DropStdin
  BY <1>3, ClosedPipe
  DEF DropStdin, IInv, TypeOK, OutputInv, ControlInv, ResultIsFaithful
<1>4. CASE Wait
  <2>1. CASE child = "failure"
               /\ Return(IF op = "probe" THEN "false" ELSE "ExternalCommand")
    BY <2>1, ReturnIInv DEF Results
  <2>2. CASE child = "success" /\ op = "probe" /\ Return("true")
    BY <2>2, ReturnIInv DEF Results
  <2>3. CASE child = "success" /\ op # "probe" /\ pc' = "reading"
               /\ UNCHANGED <<op, output, unsent, child, unwritten, stdin,
                              stdout, got, result>>
    BY <1>4, <2>3
    DEF Wait, IInv, TypeOK, OutputInv, ControlInv, ResultIsFaithful
  <2> QED
    BY <1>4, <2>1, <2>2, <2>3 DEF Wait
<1>5. CASE ReadStdout
  <2>1. CASE stdout.units = 0 /\ "child" \notin stdout.open /\ Return("Ok")
    <3>1. got = output
      BY <1>5, <2>1 DEF ReadStdout, IInv, TypeOK, OutputInv, ControlInv
    <3> QED
      BY <1>5, <2>1, <3>1, ReturnIInv DEF ReadStdout, IInv, ControlInv, Results
  <2>2. CASE /\ stdout.units > 0
             /\ stdout' = [stdout EXCEPT !.units = @ - 1]
             /\ got' = got + 1
             /\ UNCHANGED <<op, output, pc, unsent, child, unwritten, stdin,
                            result>>
    <3>1. stdout' \in Pipe /\ stdout'.units = stdout.units - 1
      BY <2>2 DEF IInv, TypeOK, Pipe
    <3>2. got + stdout.units + unwritten = output
      BY <1>5 DEF ReadStdout, IInv, OutputInv, ControlInv
    <3>3. got' \in 0 .. MaxOutput
      BY <2>2, <3>2 DEF IInv, TypeOK, Pipe
    <3>4. TypeOK'
      BY <2>2, <3>1, <3>3 DEF IInv, TypeOK
    <3>5. OutputInv'
      BY <2>2, <3>1 DEF IInv, TypeOK, Pipe, OutputInv
    <3>6. ControlInv' /\ ResultIsFaithful'
      BY <1>5, <2>2 DEF ReadStdout, IInv, ControlInv, ResultIsFaithful
    <3> QED
      BY <3>4, <3>5, <3>6 DEF IInv
  <2> QED
    BY <1>5, <2>1, <2>2 DEF ReadStdout
<1>6. CASE SystemFails
  BY <1>6, IoErrorIInv DEF SystemFails
<1>7. CASE ChildReads
  BY <1>7
  DEF ChildReads, IInv, TypeOK, Pipe, OutputInv, ControlInv, ResultIsFaithful
<1>8. CASE ChildClosesStdin
  BY <1>8, ClosedPipe
  DEF ChildClosesStdin, IInv, TypeOK, OutputInv, ControlInv, ResultIsFaithful
<1>9. CASE ChildWrites
  <2>1. CASE op # "probe" /\ "parent" \notin stdout.open /\ Exit("failure")
    BY <1>9, <2>1, ExitIInv DEF ChildWrites
  <2>2. CASE ~(op # "probe" /\ "parent" \notin stdout.open /\ Exit("failure"))
    <3>1. TypeOK' /\ OutputInv'
      BY <1>9, <2>2 DEF ChildWrites, IInv, TypeOK, Pipe, OutputInv
    <3>2. ControlInv' /\ ResultIsFaithful'
      BY <1>9, <2>2 DEF ChildWrites, IInv, ControlInv, ResultIsFaithful
    <3> QED
      BY <3>1, <3>2 DEF IInv
  <2> QED
    BY <2>1, <2>2
<1>10. CASE ChildExits
  BY <1>10, ExitIInv DEF ChildExits
<1>11. CASE ChildCrashes
  BY <1>11, ExitIInv DEF ChildCrashes
<1>12. CASE UNCHANGED vars
  BY <1>12 DEF vars, IInv, TypeOK, OutputInv, ControlInv, ResultIsFaithful
<1> QED
  BY <1>1, <1>2, <1>3, <1>4, <1>5, <1>6, <1>7, <1>8, <1>9, <1>10, <1>11, <1>12
  DEF Next, Caller, Child

\* Type correctness of process.rs' calls.
THEOREM ProcessTypeCorrect == Spec => []TypeOK
<1>1. IInv => TypeOK
  BY DEF IInv
<1> QED
  BY InitIInv, NextIInv, <1>1, PTL DEF Spec

\* `eval` and `run` never pass off what a failed child printed, nor a part of
\* the output, as the result; `probe` is true only of a command that succeeds.
THEOREM FaithfulResult == Spec => []ResultIsFaithful
<1>1. IInv => ResultIsFaithful
  BY DEF IInv
<1> QED
  BY InitIInv, NextIInv, <1>1, PTL DEF Spec

\* Waiting before reading (process.rs) is harmless for a child whose output
\* fits into the pipe: it can always write.
THEOREM FittingOutputNeverBlocks == Spec => []OutputNeverBlocks
<1>1. IInv => OutputNeverBlocks
  BY ProcessAssumption DEF IInv, TypeOK, Pipe, OutputInv, OutputNeverBlocks
<1> QED
  BY InitIInv, NextIInv, <1>1, PTL DEF Spec

-----------------------------------------------------------------------------
(***************************************************************************)
(* Who waits for whom.                                                     *)
(***************************************************************************)

\* The ends of a pipe after one of them has been closed.
LEMMA ClosedEnds ==
  ASSUME NEW p \in Pipe, NEW e
  PROVE  closed(p, e).open = p.open \ {e}
BY DEF closed, Pipe

\* Before the call starts, the ends are those of eval, run or probe.
LEMMA InitEnds == Init => EndsInv
BY DEF Init, EndsInv, piped, null, Ends

\* Returning keeps the ends in order.
LEMMA ReturnEnds ==
  ASSUME TypeOK, EndsInv, NEW value, Return(value)
  PROVE  EndsInv'
BY ClosedEnds DEF TypeOK, EndsInv, Return

\* So does the end of the child, which closes both of its ends.
LEMMA ExitEnds ==
  ASSUME TypeOK, EndsInv, child = "running",
         NEW status \in {"success", "failure"}, Exit(status)
  PROVE  EndsInv'
BY ClosedEnds DEF TypeOK, EndsInv, Exit

\* Every step of caller and child does.
LEMMA NextEnds == TypeOK /\ EndsInv /\ [Next]_vars => EndsInv'
<1> SUFFICES ASSUME TypeOK, EndsInv, [Next]_vars PROVE EndsInv'
  OBVIOUS
<1>1. CASE Spawn
  BY <1>1 DEF Spawn, TypeOK, EndsInv
<1>2. CASE WriteStdin
  <2>1. CASE IoError
    BY <2>1, ReturnEnds DEF IoError
  <2>2. CASE ~IoError
    BY <1>2, <2>2 DEF WriteStdin, TypeOK, Pipe, EndsInv
  <2> QED
    BY <2>1, <2>2
<1>3. CASE DropStdin
  BY <1>3, ClosedEnds DEF DropStdin, TypeOK, EndsInv
<1>4. CASE Wait
  <2>1. CASE \E value : Return(value)
    BY <2>1, ReturnEnds
  <2>2. CASE ~\E value : Return(value)
    BY <1>4, <2>2 DEF Wait, TypeOK, EndsInv
  <2> QED
    BY <2>1, <2>2
<1>5. CASE ReadStdout
  <2>1. CASE Return("Ok")
    BY <2>1, ReturnEnds
  <2>2. CASE ~Return("Ok")
    BY <1>5, <2>2 DEF ReadStdout, TypeOK, Pipe, EndsInv
  <2> QED
    BY <2>1, <2>2
<1>6. CASE SystemFails
  BY <1>6, ReturnEnds DEF SystemFails, IoError
<1>7. CASE ChildReads
  BY <1>7 DEF ChildReads, TypeOK, Pipe, EndsInv
<1>8. CASE ChildClosesStdin
  BY <1>8, ClosedEnds DEF ChildClosesStdin, TypeOK, EndsInv
<1>9. CASE ChildWrites
  <2>1. CASE Exit("failure")
    BY <1>9, <2>1, ExitEnds DEF ChildWrites
  <2>2. CASE ~Exit("failure")
    BY <1>9, <2>2 DEF ChildWrites, TypeOK, Pipe, EndsInv
  <2> QED
    BY <2>1, <2>2
<1>10. CASE ChildExits
  BY <1>10, ExitEnds DEF ChildExits
<1>11. CASE ChildCrashes
  BY <1>11, ExitEnds DEF ChildCrashes
<1>12. CASE UNCHANGED vars
  BY <1>12 DEF vars, EndsInv
<1> QED
  BY <1>1, <1>2, <1>3, <1>4, <1>5, <1>6, <1>7, <1>8, <1>9, <1>10, <1>11, <1>12
  DEF Next, Caller, Child

\* Caller and child wait for each other only when `run` or `eval` waits for a
\* child whose output does not fit into the pipe (process.rs: the output is
\* read after the exit).  For every pipe, input and output.
THEOREM TheOnlyDeadlock == Spec => []OnlyLargeOutputBlocks
<1>1. IInv /\ EndsInv => OnlyLargeOutputBlocks
  <2> SUFFICES ASSUME IInv, EndsInv, CallerWaits, ~ChildCanGoOn
               PROVE  StuckWriting /\ output > PipeCapacity
    BY DEF OnlyLargeOutputBlocks
  <2>1. /\ PipeCapacity \in Nat \ {0}
        /\ unwritten \in Nat /\ output \in Nat
        /\ stdin.units \in Nat /\ stdout.units \in Nat
        /\ stdout.units <= PipeCapacity
    BY ProcessAssumption DEF IInv, TypeOK, Pipe
  <2>2. pc # "reading"
    BY DEF CallerWaits, IInv, ControlInv, EndsInv
  <2>3. child = "running"
    BY <2>2 DEF CallerWaits, IInv, TypeOK, EndsInv
  <2>4. pc = "waiting"
    BY <2>1, <2>2, <2>3 DEF CallerWaits, ChildCanGoOn
  <2>5. "child" \in stdin.open => stdin.units = 0
    BY <2>1, <2>3 DEF ChildCanGoOn
  <2>6. AtEndOfInput
    BY <2>4, <2>5 DEF AtEndOfInput, EndsInv
  <2>7. unwritten > 0 /\ StuckWriting
    BY <2>1, <2>3, <2>4, <2>6 DEF ChildCanGoOn, StuckWriting
  <2>8. stdout.units + unwritten = output
    BY <2>1, <2>4, <2>7 DEF IInv, OutputInv, EndsInv, StuckWriting
  <2> QED
    BY <2>1, <2>7, <2>8 DEF StuckWriting
<1>2. IInv => TypeOK
  BY DEF IInv
<1> QED
  BY InitIInv, NextIInv, InitEnds, NextEnds, <1>1, <1>2, PTL DEF Spec

\* That deadlock is one for good, however long the caller waits and whatever
\* the child still reads: process.rs has no timeout.  Only a child that is
\* killed, or a failing wait, would end it.
THEOREM StuckForGood ==
  ASSUME Faults \cap {"wait", "crash"} = {}
  PROVE  Spec => [](StuckWriting => []StuckWriting)
<1>1. TypeOK /\ StuckWriting /\ [Next]_vars => StuckWriting'
  <2> SUFFICES ASSUME TypeOK, StuckWriting, [Next]_vars PROVE StuckWriting'
    OBVIOUS
  <2>1. /\ ~Spawn /\ ~WriteStdin /\ ~DropStdin /\ ~Wait /\ ~ReadStdout
        /\ ~SystemFails /\ ~ChildWrites /\ ~ChildExits /\ ~ChildCrashes
    BY ProcessAssumption
    DEF StuckWriting, TypeOK, Pipe, Spawn, WriteStdin, DropStdin, Wait,
        ReadStdout, SystemFails, ChildWrites, ChildExits, ChildCrashes
  <2>2. CASE ChildReads \/ ChildClosesStdin
    BY <2>2 DEF ChildReads, ChildClosesStdin, StuckWriting
  <2>3. CASE UNCHANGED vars
    BY <2>3 DEF vars, StuckWriting
  <2> QED
    BY <2>1, <2>2, <2>3 DEF Next, Caller, Child
<1> QED
  BY <1>1, ProcessTypeCorrect, PTL DEF Spec

-----------------------------------------------------------------------------
(***************************************************************************)
(* Every step brings the call and its child closer to their end.           *)
(***************************************************************************)

\* The measure is a natural number: it cannot decrease for ever.
LEMMA WorkIsNatural == TypeOK => Work \in Nat
<1> SUFFICES ASSUME TypeOK PROVE Work \in Nat
  OBVIOUS
<1>1. /\ stdin.units \in Nat /\ stdout.units \in Nat
      /\ unsent \in Nat /\ unwritten \in Nat
  BY ProcessAssumption DEF TypeOK, Pipe
<1> QED
  BY <1>1 DEF Work, TypeOK

\* Returning is progress, whatever is returned.
LEMMA WorkOfReturn ==
  ASSUME TypeOK, pc # "done", NEW value, Return(value)
  PROVE  Work' < Work
<1>1. /\ stdin'.units = stdin.units /\ stdout'.units = stdout.units
      /\ "child" \in stdin'.open <=> "child" \in stdin.open
      /\ stdin.units \in Nat /\ stdout.units \in Nat
      /\ unsent \in Nat /\ unwritten \in Nat
  BY ClosedPipe, ClosedEnds, ProcessAssumption DEF TypeOK, Return, Pipe
<1> QED
  BY <1>1 DEF Return, Work, TypeOK

\* So is the end of the child.
LEMMA WorkOfExit ==
  ASSUME TypeOK, child = "running", NEW status \in {"success", "failure"},
         Exit(status)
  PROVE  Work' < Work
<1>1. /\ stdin'.units = stdin.units /\ stdout'.units = stdout.units
      /\ "child" \notin stdin'.open
      /\ stdin.units \in Nat /\ stdout.units \in Nat
      /\ unsent \in Nat /\ unwritten \in Nat
  BY ClosedPipe, ClosedEnds, ProcessAssumption DEF TypeOK, Exit, Pipe
<1> QED
  BY <1>1 DEF Exit, Work, TypeOK

\* Every step of caller and child is progress, so that no call, and no child,
\* goes on for ever (process.rs); the natural number Work bounds their steps.
THEOREM Progress == Spec => EveryStepIsProgress
<1>1. IInv /\ Next => Work' < Work
  <2> SUFFICES ASSUME IInv, TypeOK, Next PROVE Work' < Work
    BY DEF IInv
  <2>0. /\ stdin \in Pipe /\ stdout \in Pipe
        /\ stdin.units \in Nat /\ stdout.units \in Nat
        /\ unsent \in Nat /\ unwritten \in Nat
    BY ProcessAssumption DEF TypeOK, Pipe
  <2>1. CASE Spawn
    BY <2>0, <2>1 DEF Spawn, Work, IInv, ControlInv
  <2>2. CASE WriteStdin
    <3>1. CASE IoError
      BY <2>2, <3>1, WorkOfReturn DEF WriteStdin, IoError
    <3>2. CASE ~IoError
      <4>1. /\ stdin'.units = stdin.units + 1 /\ stdin'.open = stdin.open
            /\ unsent' = unsent - 1 /\ unsent > 0
            /\ UNCHANGED <<pc, child, unwritten, stdout>>
        BY <2>0, <2>2, <3>2 DEF WriteStdin, Pipe
      <4> QED
        BY <2>0, <4>1 DEF Work, TypeOK
    <3> QED
      BY <3>1, <3>2
  <2>3. CASE DropStdin
    <3>1. /\ stdin'.units = stdin.units
          /\ "child" \in stdin'.open <=> "child" \in stdin.open
      BY <2>0, <2>3, ClosedPipe, ClosedEnds DEF DropStdin
    <3> QED
      BY <2>0, <2>3, <3>1 DEF DropStdin, Work, TypeOK
  <2>4. CASE Wait
    <3>1. CASE \E value : Return(value)
      BY <2>4, <3>1, WorkOfReturn DEF Wait
    <3>2. CASE ~\E value : Return(value)
      BY <2>0, <2>4, <3>2 DEF Wait, Work, TypeOK
    <3> QED
      BY <3>1, <3>2
  <2>5. CASE ReadStdout
    <3>1. CASE Return("Ok")
      BY <2>5, <3>1, WorkOfReturn DEF ReadStdout
    <3>2. CASE ~Return("Ok")
      <4>1. /\ stdout'.units = stdout.units - 1 /\ stdout.units > 0
            /\ UNCHANGED <<pc, child, unsent, unwritten, stdin>>
        BY <2>0, <2>5, <3>2 DEF ReadStdout, Pipe
      <4> QED
        BY <2>0, <4>1 DEF Work, TypeOK
    <3> QED
      BY <3>1, <3>2
  <2>6. CASE SystemFails
    BY <2>6, WorkOfReturn DEF SystemFails, IoError
  <2>7. CASE ChildReads
    <3>1. /\ stdin'.units = stdin.units - 1 /\ stdin.units > 0
          /\ stdin'.open = stdin.open
          /\ UNCHANGED <<pc, child, unsent, unwritten, stdout>>
      BY <2>0, <2>7 DEF ChildReads, Pipe
    <3> QED
      BY <2>0, <3>1 DEF Work, TypeOK
  <2>8. CASE ChildClosesStdin
    <3>1. /\ stdin'.units = stdin.units
          /\ "child" \in stdin.open /\ "child" \notin stdin'.open
          /\ UNCHANGED <<pc, child, unsent, unwritten, stdout>>
      BY <2>0, <2>8, ClosedPipe, ClosedEnds DEF ChildClosesStdin
    <3> QED
      BY <2>0, <3>1 DEF Work, TypeOK
  <2>9. CASE ChildWrites
    <3>1. CASE Exit("failure")
      BY <2>9, <3>1, WorkOfExit DEF ChildWrites
    <3>2. CASE ~Exit("failure")
      <4>1. /\ stdout'.units \in {stdout.units, stdout.units + 1}
            /\ unwritten' = unwritten - 1 /\ unwritten > 0
            /\ UNCHANGED <<pc, child, unsent, stdin>>
        BY <2>0, <2>9, <3>2 DEF ChildWrites, Pipe
      <4> QED
        BY <2>0, <4>1 DEF Work, TypeOK
    <3> QED
      BY <3>1, <3>2
  <2>10. CASE ChildExits
    BY <2>10, WorkOfExit DEF ChildExits
  <2>11. CASE ChildCrashes
    BY <2>11, WorkOfExit DEF ChildCrashes
  <2> QED
    BY <2>1, <2>2, <2>3, <2>4, <2>5, <2>6, <2>7, <2>8, <2>9, <2>10, <2>11
    DEF Next, Caller, Child
<1> QED
  BY InitIInv, NextIInv, <1>1, PTL DEF Spec, EveryStepIsProgress

=============================================================================
