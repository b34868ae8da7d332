------------------------------- MODULE Process -------------------------------
(***************************************************************************)
(* One call of `eval`, `run` or `probe` (main/src/process.rs) and the      *)
(* child process it spawns.                                                *)
(*                                                                         *)
(*   start --> writing (eval) --> waiting --> reading --> done             *)
(*                                                                         *)
(* The child is waited for before its output is read.  Pipes are the       *)
(* kernel's: they hold PipeCapacity units, a reader sees the end of file   *)
(* when every writer has closed its end, and a writer fails when the       *)
(* reader has.  A unit stands for a block of bytes.                        *)
(***************************************************************************)
EXTENDS Naturals

CONSTANTS
  PipeCapacity,   \* units a pipe holds
  MaxInput,       \* bound on what `eval` writes to the child
  MaxOutput,      \* bound on what the child writes
  Faults          \* what may go wrong, see FaultKinds

FaultKinds == {"spawn", "wait", "read", "close", "crash"}

ASSUME ProcessAssumption ==
  /\ PipeCapacity \in Nat \ {0}
  /\ MaxInput \in Nat
  /\ MaxOutput \in Nat
  /\ Faults \subseteq FaultKinds

VARIABLES
  op,         \* the function that is called
  output,     \* what the child prints when nothing stops it
  pc,         \* where the call is
  unsent,     \* input not yet written to the child
  child,      \* state of the child process
  unwritten,  \* output the child has not yet written
  stdin,      \* the pipe to the child
  stdout,     \* the pipe from the child
  got,        \* output read so far
  result      \* what the call has returned

vars ==
  <<op, output, pc, unsent, child, unwritten, stdin, stdout, got, result>>

Ends == {"parent", "child"}
Pipe == [units : 0 .. PipeCapacity, open : SUBSET Ends]

\* Stdio::piped() and Stdio::null(), whose reader is at the end of file.
piped == [units |-> 0, open |-> Ends]
null  == [units |-> 0, open |-> {"child"}]

closed(pipe, end) == [pipe EXCEPT !.open = @ \ {end}]

\* The variants of ProcessError that can be returned: "Io" is
\* ChildProcessCreation, which every I/O error becomes.  `probe` returns a
\* Boolean.
Results == {"none", "Ok", "Io", "ExternalCommand", "true", "false"}

TypeOK ==
  /\ op \in {"eval", "run", "probe"}
  /\ output \in 0 .. MaxOutput
  /\ pc \in {"start", "writing", "waiting", "reading", "done"}
  /\ unsent \in 0 .. MaxInput
  /\ child \in {"none", "running", "success", "failure"}
  /\ unwritten \in 0 .. MaxOutput
  /\ stdin \in Pipe /\ stdout \in Pipe
  /\ got \in 0 .. MaxOutput
  /\ result \in Results

Init ==
  /\ op \in {"eval", "run", "probe"}
  /\ output \in 0 .. MaxOutput
  /\ unsent \in IF op = "eval" THEN 0 .. MaxInput ELSE {0}
  /\ stdin = IF op = "eval" THEN piped ELSE null
  /\ stdout = IF op = "probe" THEN null ELSE piped
  /\ unwritten = output
  /\ pc = "start" /\ child = "none" /\ got = 0 /\ result = "none"

-----------------------------------------------------------------------------
(***************************************************************************)
(* The caller                                                              *)
(***************************************************************************)

\* Mutation: the handles of the child are kept somewhere.
Return_leaking(value) ==
  /\ pc' = "done" /\ result' = value
  /\ UNCHANGED <<op, output, unsent, child, unwritten, stdin, stdout, got>>

\* The call returns and drops the Child: the parent's ends are closed, the
\* child itself goes on.
Return(value) ==
  /\ pc' = "done" /\ result' = value
  /\ stdin' = closed(stdin, "parent")
  /\ stdout' = closed(stdout, "parent")
  /\ UNCHANGED <<op, output, unsent, child, unwritten, got>>

\* What an I/O error makes of a call.
IoError == Return(IF op = "probe" THEN "false" ELSE "Io")

Spawn ==
  /\ pc = "start"
  /\ child' = "running"
  /\ pc' = IF op = "eval" THEN "writing" ELSE "waiting"
  /\ UNCHANGED <<op, output, unsent, unwritten, stdin, stdout, got, result>>

\* write_all: blocks while the pipe is full.
WriteStdin ==
  /\ pc = "writing" /\ unsent > 0
  /\ \/ /\ "child" \in stdin.open /\ stdin.units < PipeCapacity
        /\ stdin' = [stdin EXCEPT !.units = @ + 1]
        /\ unsent' = unsent - 1
        /\ UNCHANGED <<op, output, pc, child, unwritten, stdout, got, result>>
     \/ "child" \notin stdin.open /\ IoError

\* Mutation: the pipe is kept open while the child is waited for.
DropStdin_omitted ==
  /\ pc = "writing" /\ unsent = 0
  /\ pc' = "waiting"
  /\ UNCHANGED <<op, output, unsent, child, unwritten, stdin, stdout, got,
                 result>>

DropStdin ==
  /\ pc = "writing" /\ unsent = 0
  /\ pc' = "waiting"
  /\ stdin' = closed(stdin, "parent")
  /\ UNCHANGED <<op, output, unsent, child, unwritten, stdout, got, result>>

\* Mutation: only the exit of the child is waited for, not its success.
Wait_any_status ==
  /\ pc = "waiting" /\ child \in {"success", "failure"}
  /\ pc' = "reading"
  /\ UNCHANGED <<op, output, unsent, child, unwritten, stdin, stdout, got,
                 result>>

Wait ==
  /\ pc = "waiting"
  /\ \/ child = "failure"
        /\ Return(IF op = "probe" THEN "false" ELSE "ExternalCommand")
     \/ child = "success" /\ op = "probe" /\ Return("true")
     \/ /\ child = "success" /\ op # "probe"
        /\ pc' = "reading"
        /\ UNCHANGED <<op, output, unsent, child, unwritten, stdin, stdout,
                       got, result>>

\* Mutation: the buffer grows although nothing is left in the pipe.
ReadStdout_past_the_end ==
  /\ pc = "reading"
  /\ got' = got + 1
  /\ UNCHANGED <<op, output, pc, unsent, child, unwritten, stdin, stdout,
                 result>>

\* read_stdout: read_to_end, up to the end of file.
ReadStdout ==
  /\ pc = "reading"
  /\ \/ /\ stdout.units > 0
        /\ stdout' = [stdout EXCEPT !.units = @ - 1]
        /\ got' = got + 1
        /\ UNCHANGED <<op, output, pc, unsent, child, unwritten, stdin, result>>
     \/ stdout.units = 0 /\ "child" \notin stdout.open /\ Return("Ok")

\* spawn, wait or read_to_end fails; what write_all meets is WriteStdin.
SystemFails ==
  /\ \/ pc = "start" /\ "spawn" \in Faults
     \/ pc = "waiting" /\ "wait" \in Faults
     \/ pc = "reading" /\ "read" \in Faults
  /\ IoError

Caller == Spawn \/ WriteStdin \/ DropStdin \/ Wait \/ ReadStdout

-----------------------------------------------------------------------------
(***************************************************************************)
(* The child: any program that reads its input, prints its output in       *)
(* whatever order, and exits when it has reached the end of both.          *)
(***************************************************************************)

ChildReads ==
  /\ child = "running" /\ "child" \in stdin.open /\ stdin.units > 0
  /\ stdin' = [stdin EXCEPT !.units = @ - 1]
  /\ UNCHANGED <<op, output, pc, unsent, child, unwritten, stdout, got, result>>

\* The child does not care for the rest of its input.
ChildClosesStdin ==
  /\ child = "running" /\ "child" \in stdin.open /\ "close" \in Faults
  /\ stdin' = closed(stdin, "child")
  /\ UNCHANGED <<op, output, pc, unsent, child, unwritten, stdout, got, result>>

Exit(status) ==
  /\ child' = status
  /\ stdin' = closed(stdin, "child")
  /\ stdout' = closed(stdout, "child")
  /\ UNCHANGED <<op, output, pc, unsent, unwritten, got, result>>

\* What `probe` spawns writes to the null device.  Writing to a pipe that
\* nobody reads kills the child.
ChildWrites ==
  /\ child = "running" /\ unwritten > 0
  /\ \/ /\ op = "probe" \/ "parent" \in stdout.open
        /\ op = "probe" \/ stdout.units < PipeCapacity
        /\ stdout' = IF op = "probe" THEN stdout
                     ELSE [stdout EXCEPT !.units = @ + 1]
        /\ unwritten' = unwritten - 1
        /\ UNCHANGED <<op, output, pc, unsent, child, stdin, got, result>>
     \/ op # "probe" /\ "parent" \notin stdout.open /\ Exit("failure")

AtEndOfInput ==
  \/ "child" \notin stdin.open
  \/ stdin.units = 0 /\ "parent" \notin stdin.open

ChildExits ==
  /\ child = "running" /\ unwritten = 0 /\ AtEndOfInput
  /\ \E status \in {"success", "failure"} : Exit(status)

ChildCrashes ==
  /\ child = "running" /\ "crash" \in Faults
  /\ Exit("failure")

Child == ChildReads \/ ChildClosesStdin \/ ChildWrites \/ ChildExits
           \/ ChildCrashes

Next == Caller \/ SystemFails \/ Child

Spec == Init /\ [][Next]_vars

\* The runtime polls the call; the child is a program that goes on while it
\* can, whatever it does first.
FairSpec ==
  /\ Spec
  /\ WF_vars(Caller)
  /\ WF_vars(ChildReads) /\ WF_vars(ChildWrites) /\ WF_vars(ChildExits)

-----------------------------------------------------------------------------
\* What a call returns is true of its child, however the two interleave and
\* whatever fails: a child that was killed halfway never passes for one that
\* printed everything (eval, run), Ok brings the whole output and is returned
\* only when the child is gone, ExternalCommand and `probe`'s true speak of
\* the exit status.
ResultIsFaithful ==
  /\ result = "Ok" => child = "success" /\ got = output
  /\ result = "true" => child = "success"
  /\ result = "ExternalCommand" => child = "failure"

\* Every call returns: caller and child never wait for each other for good.
CallReturns == <>(pc = "done")

\* So it is when the output fits into the pipe or is not read, whatever fails
\* and however much input eval still has to write.
FittingCallReturns ==
  output <= PipeCapacity \/ op = "probe" => <>(pc = "done")

\* A call that has returned with an error leaves nobody behind: the child it
\* has stopped to talk to finds its pipes closed and exits, however much it
\* has to print.
ChildIsReleased ==
  (pc = "done" /\ child = "running") ~> (child \in {"success", "failure"})

-----------------------------------------------------------------------------
(***************************************************************************)
(* The inductive invariant behind ResultIsFaithful: no output is lost or   *)
(* made up, and the call knows what it has waited for.                     *)
(***************************************************************************)

OutputInv == op # "probe" => got + stdout.units + unwritten = output

ControlInv ==
  /\ pc = "start" => child = "none"
  /\ pc = "reading" => child = "success" /\ op # "probe"
  /\ child = "success" => unwritten = 0
  /\ pc # "done" => result = "none"

IInv == TypeOK /\ OutputInv /\ ControlInv /\ ResultIsFaithful

\* A child whose output fits into the pipe is never blocked by its output.
OutputNeverBlocks ==
  output <= PipeCapacity /\ op # "probe" /\ unwritten > 0
    => stdout.units < PipeCapacity

-----------------------------------------------------------------------------
(***************************************************************************)
(* Who waits for whom.  With the fairness of FairSpec, the two properties  *)
(* below are the argument for FittingCallReturns.                          *)
(***************************************************************************)

\* The caller is in an await that only the child can end.
CallerWaits ==
  \/ /\ pc = "writing" /\ unsent > 0
     /\ "child" \in stdin.open /\ stdin.units = PipeCapacity
  \/ pc = "waiting" /\ child = "running"
  \/ pc = "reading" /\ stdout.units = 0 /\ "child" \in stdout.open

\* The child has something to read, room (or nobody) to write to, or is done.
ChildCanGoOn ==
  /\ child = "running"
  /\ \/ "child" \in stdin.open /\ stdin.units > 0
     \/ /\ unwritten > 0
        /\ \/ op = "probe"
           \/ "parent" \notin stdout.open \/ stdout.units < PipeCapacity
     \/ unwritten = 0 /\ AtEndOfInput

\* The child has filled the pipe that `run` and `eval` read only after it
\* has exited.
StuckWriting ==
  /\ op # "probe" /\ pc = "waiting"
  /\ child = "running" /\ unwritten > 0
  /\ stdout.units = PipeCapacity /\ "parent" \in stdout.open

\* Waiting for the child before reading its output (`run`, `eval`) is the only
\* way for caller and child to wait for each other, and it takes an output
\* that is larger than the pipe: writing all of the input first does no harm,
\* and no child is left waiting for the end of its input.
OnlyLargeOutputBlocks ==
  CallerWaits /\ ~ChildCanGoOn => StuckWriting /\ output > PipeCapacity

\* What is left to be done, at most.
Work ==
  2 * unsent + stdin.units + 2 * unwritten + stdout.units
    + (IF "child" \in stdin.open THEN 1 ELSE 0)
    + (CASE child = "none" -> 2 [] child = "running" -> 1 [] OTHER -> 0)
    + (CASE pc = "start" -> 4 [] pc = "writing" -> 3 [] pc = "waiting" -> 2
         [] pc = "reading" -> 1 [] OTHER -> 0)

\* No call goes on for ever: whatever caller and child do, and in whatever
\* order, brings both closer to their end (write_all, read_to_end and the
\* child's loops included).
EveryStepIsProgress == [][Work' < Work]_vars

\* What the first of the two needs besides IInv: who holds which end of the
\* pipes, and when the output is read.
EndsInv ==
  /\ child \in {"success", "failure"} =>
       "child" \notin stdin.open /\ "child" \notin stdout.open
  /\ pc \in {"waiting", "reading"} => "parent" \notin stdin.open
  /\ op # "eval" => "parent" \notin stdin.open /\ pc # "writing"
  /\ op # "probe" /\ pc # "done" => "parent" \in stdout.open
  /\ pc \in {"start", "writing", "waiting"} => got = 0
  /\ pc \in {"writing", "waiting", "reading"} => child # "none"

=============================================================================
