---------------------------- MODULE SerialReport ----------------------------
(***************************************************************************)
(* What the sequencer of gofmt.go promises to whoever reads stdout, stderr *)
(* and the exit status: the tasks take turns in the order they were added. *)
(* During its turn a task may write, may then fail once, and gives the     *)
(* turn up for good.  The exit status is read during a turn too, so it     *)
(* accounts for every earlier task.  Nothing here is concurrent: there are *)
(* no goroutines, channels or weights.                                     *)
(***************************************************************************)
EXTENDS Integers, Sequences

CONSTANT N    \* the number of tasks

VARIABLES
  done,       \* the tasks that gave up their turn
  failed,     \* the tasks that reported an error
  log,        \* everything printed so far, in order
  exitCode,   \* reporterState.exitCode
  answer      \* the exit status handed to the program, -1 before that

vars == <<done, failed, log, exitCode, answer>>

Tasks == 1..N

Turn(i) == i \notin done /\ \A j \in 1..(i - 1) : j \in done

Init ==
  /\ done = {}
  /\ failed = {}
  /\ log = <<>>
  /\ exitCode = 0
  /\ answer = -1

Output(i) ==
  /\ Turn(i)
  /\ i \notin failed
  /\ log' = Append(log, [task |-> i, kind |-> "out"])
  /\ UNCHANGED <<done, failed, exitCode, answer>>

\* A formatting difference sets status 1 and prints nothing of its own.
FailDiffers(i) ==
  /\ Turn(i)
  /\ i \notin failed
  /\ failed' = failed \union {i}
  /\ exitCode' = 1
  /\ UNCHANGED <<done, log, answer>>

FailError(i) ==
  /\ Turn(i)
  /\ i \notin failed
  /\ failed' = failed \union {i}
  /\ exitCode' = 2
  /\ log' = Append(log, [task |-> i, kind |-> "err"])
  /\ UNCHANGED <<done, answer>>

ReadStatus(i) ==
  /\ Turn(i)
  /\ answer = -1
  /\ answer' = exitCode
  /\ UNCHANGED <<done, failed, log, exitCode>>

GiveUp(i) ==
  /\ Turn(i)
  /\ done' = done \union {i}
  /\ UNCHANGED <<failed, log, exitCode, answer>>

Next ==
  \E i \in Tasks :
    \/ Output(i)
    \/ FailDiffers(i)
    \/ FailError(i)
    \/ ReadStatus(i)
    \/ GiveUp(i)

Spec == Init /\ [][Next]_vars

=============================================================================
