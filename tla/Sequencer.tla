------------------------------ MODULE Sequencer ------------------------------
(***************************************************************************)
(* The sequencer and its reporters (gofmt.go): the main goroutine adds     *)
(* tasks, each runs in a goroutine of its own as far as the weighted       *)
(* semaphore lets it, and the single reporterState travels down a chain of *)
(* one-buffered channels so that output comes out in the order of the Add  *)
(* calls.  Channel i-1 is the prev of task i and channel i its next;       *)
(* channel 0 is the one newSequencer fills.                                *)
(*                                                                         *)
(* A task's function f is known by its dealings with the reporter: it      *)
(* writes at most MaxWrites times and returns nil, errFormattingDiffers or *)
(* another error.  context.TODO is never cancelled, so Acquire only blocks *)
(* and Add's error branch is never taken.                                  *)
(***************************************************************************)
EXTENDS Integers, Sequences, FiniteSets

CONSTANTS
  N,          \* bound on the Add calls of one run, GetExitCode's included
  MaxWeight,  \* sequencer.maxWeight
  Weights,    \* what fileWeight may return: a size, or exclusive (-1)
  MaxWrites   \* bound on the writes of one task

ASSUME NAssumption         == N \in Nat \ {0}
ASSUME MaxWeightAssumption == MaxWeight \in Nat \ {0}
ASSUME WeightsAssumption   == Weights \subseteq Int
ASSUME MaxWritesAssumption == MaxWrites \in Nat

Tasks   == 1..N
Entries == [task : Tasks, kind : {"out", "err"}]

VARIABLES
  main,      \* where the main goroutine is
  added,     \* how many tasks were added
  cur,       \* weight acquired from sequencer.sem
  weight,    \* the weight argument of each Add
  kind,      \* what f is: format a file, return an error, read the status
  pc,        \* where the goroutine of each task is
  err,       \* what f returned
  writes,    \* how often f wrote
  state,     \* whether reporter.state is set
  chan,      \* whether each chained channel holds the reporterState
  log,       \* what went through reporterState.out and reporterState.err
  exitCode,  \* reporterState.exitCode
  answer     \* the channel c of GetExitCode: -1 while nothing was sent

taskVars   == <<weight, kind, pc, err, writes, state>>
reportVars == <<log, exitCode, answer>>
vars       == <<main, added, cur, taskVars, chan, reportVars>>

------------------------------------------------------------------------------

\* Add turns a negative or an oversized weight into the whole capacity.
Clamp(w) == IF w < 0 \/ w > MaxWeight THEN MaxWeight ELSE w

\* newSequencer: channel 0 holds the reporterState.
Init ==
  /\ main = "walking"
  /\ added = 0
  /\ cur = 0
  /\ weight = [i \in Tasks |-> 0]
  /\ kind = [i \in Tasks |-> "none"]
  /\ pc = [i \in Tasks |-> "idle"]
  /\ err = [i \in Tasks |-> "nil"]
  /\ writes = [i \in Tasks |-> 0]
  /\ state = [i \in Tasks |-> FALSE]
  /\ chan = [c \in 0..N |-> c = 0]
  /\ log = <<>>
  /\ exitCode = 0
  /\ answer = -1

\* sequencer.Add is called, with this weight and this f, and asks for the weight.
Add(w, k) ==
  LET i == added + 1 IN
  /\ main = "walking"
  /\ added < N
  /\ main' = "adding"
  /\ added' = i
  /\ weight' = [weight EXCEPT ![i] = w]
  /\ kind' = [kind EXCEPT ![i] = k]
  /\ pc' = [pc EXCEPT ![i] = "asking"]
  /\ UNCHANGED <<cur, err, writes, state, chan, reportVars>>

\* sem.Acquire blocks main until there is room for just that weight; main is
\* the only one to wait.  Then a reporter is chained, f is started and Add
\* returns: to the walk, or to GetExitCode, which waits for the answer.
Acquire ==
  /\ main = "adding"
  /\ cur + Clamp(weight[added]) <= MaxWeight
  /\ cur' = cur + Clamp(weight[added])
  /\ pc' = [pc EXCEPT ![added] = "running"]
  /\ main' = IF kind[added] = "exit" THEN "waiting" ELSE "walking"
  /\ UNCHANGED <<added, weight, kind, err, writes, state, chan, reportVars>>

\* The walk adds a file.  One Add is kept for GetExitCode.
AddFile(w) == added + 1 < N /\ Add(w, "file")

AddReport == added + 1 < N /\ Add(0, "report")

GetExitCode == Add(0, "exit")

\* GetExitCode returns <-c and main passes it to os.Exit.
Exit ==
  /\ main = "waiting"
  /\ answer # -1
  /\ main' = "exited"
  /\ UNCHANGED <<added, cur, taskVars, chan, reportVars>>

------------------------------------------------------------------------------

\* Mutant of GetState: the channel still holds the state it was received from.
GetStateKeeps(i) ==
  /\ pc[i] \in {"running", "failed", "returned"}
  /\ ~state[i]
  /\ chan[i - 1]
  /\ state' = [state EXCEPT ![i] = TRUE]
  /\ UNCHANGED <<main, added, cur, weight, kind, pc, err, writes, chan,
                 reportVars>>

\* reporter.getState: receive from prev, once.
GetState(i) ==
  /\ pc[i] \in {"running", "failed", "returned"}
  /\ kind[i] = "report" => pc[i] # "running"
  /\ ~state[i]
  /\ chan[i - 1]
  /\ state' = [state EXCEPT ![i] = TRUE]
  /\ chan' = [chan EXCEPT ![i - 1] = FALSE]
  /\ UNCHANGED <<main, added, cur, weight, kind, pc, err, writes, reportVars>>

\* reporter.Write, by a task that formats a file.
Write(i) ==
  /\ pc[i] = "running"
  /\ kind[i] = "file"
  /\ state[i]
  /\ writes[i] < MaxWrites
  /\ writes' = [writes EXCEPT ![i] = @ + 1]
  /\ log' = Append(log, [task |-> i, kind |-> "out"])
  /\ UNCHANGED <<main, added, cur, weight, kind, pc, err, state, chan,
                 exitCode, answer>>

\* reporter.ExitCode and the send on c, the whole of GetExitCode's task.
ExitCode(i) ==
  /\ pc[i] = "running"
  /\ kind[i] = "exit"
  /\ state[i]
  /\ answer' = exitCode
  /\ pc' = [pc EXCEPT ![i] = "returned"]
  /\ UNCHANGED <<main, added, cur, weight, kind, err, writes, state, chan,
                 log, exitCode>>

\* What each kind of function may return.  AddReport's always fails.
Results(k) ==
  CASE k = "file"   -> {"nil", "differs", "error"}
    [] k = "report" -> {"error"}
    [] OTHER        -> {}

Return(i, e) ==
  /\ pc[i] = "running"
  /\ e \in Results(kind[i])
  /\ err' = [err EXCEPT ![i] = e]
  /\ pc' = [pc EXCEPT ![i] = IF e = "nil" THEN "returned" ELSE "failed"]
  /\ UNCHANGED <<main, added, cur, weight, kind, writes, state, chan,
                 reportVars>>

\* Mutants of Report: a difference leaves the exit code alone; codes add up.
ReportErrorsOnly(i) ==
  /\ pc[i] = "failed"
  /\ state[i]
  /\ IF err[i] = "differs"
     THEN UNCHANGED <<exitCode, log>>
     ELSE exitCode' = 2 /\ log' = Append(log, [task |-> i, kind |-> "err"])
  /\ pc' = [pc EXCEPT ![i] = "returned"]
  /\ UNCHANGED <<main, added, cur, weight, kind, err, writes, state, chan,
                 answer>>

ReportAddsUp(i) ==
  /\ pc[i] = "failed"
  /\ state[i]
  /\ exitCode' = exitCode + 2
  /\ pc' = [pc EXCEPT ![i] = "returned"]
  /\ UNCHANGED <<main, added, cur, weight, kind, err, writes, state, chan,
                 log, answer>>

\* reporter.Report: errFormattingDiffers prints nothing.
Report(i) ==
  /\ pc[i] = "failed"
  /\ state[i]
  /\ IF err[i] = "differs"
     THEN exitCode' = 1 /\ UNCHANGED log
     ELSE exitCode' = 2 /\ log' = Append(log, [task |-> i, kind |-> "err"])
  /\ pc' = [pc EXCEPT ![i] = "returned"]
  /\ UNCHANGED <<main, added, cur, weight, kind, err, writes, state, chan,
                 answer>>

\* Mutant of Pass: the next task is released before f is over.
PassEarly(i) ==
  /\ pc[i] \in {"running", "failed", "returned"}
  /\ state[i]
  /\ ~chan[i]
  /\ chan' = [chan EXCEPT ![i] = TRUE]
  /\ pc' = [pc EXCEPT ![i] = IF @ = "returned" THEN "passed" ELSE @]
  /\ UNCHANGED <<main, added, cur, weight, kind, err, writes, state,
                 reportVars>>

\* next <- r.getState()
Pass(i) ==
  /\ pc[i] = "returned"
  /\ state[i]
  /\ ~chan[i]
  /\ chan' = [chan EXCEPT ![i] = TRUE]
  /\ pc' = [pc EXCEPT ![i] = "passed"]
  /\ UNCHANGED <<main, added, cur, weight, kind, err, writes, state,
                 reportVars>>

\* Mutants of Release: the weight is given back as it was asked for, or not at
\* all.
ReleaseAsked(i) ==
  /\ pc[i] = "passed"
  /\ cur' = cur - weight[i]
  /\ pc' = [pc EXCEPT ![i] = "released"]
  /\ UNCHANGED <<main, added, weight, kind, err, writes, state, chan,
                 reportVars>>

ReleaseNothing(i) ==
  /\ pc[i] = "passed"
  /\ pc' = [pc EXCEPT ![i] = "released"]
  /\ UNCHANGED <<main, added, cur, weight, kind, err, writes, state, chan,
                 reportVars>>

\* s.sem.Release(weight), with the clamped weight.
Release(i) ==
  /\ pc[i] = "passed"
  /\ cur' = cur - Clamp(weight[i])
  /\ pc' = [pc EXCEPT ![i] = "released"]
  /\ UNCHANGED <<main, added, weight, kind, err, writes, state, chan,
                 reportVars>>

------------------------------------------------------------------------------

MainStep ==
  \/ \E w \in Weights : AddFile(w)
  \/ AddReport
  \/ GetExitCode
  \/ Acquire
  \/ Exit

TaskStep(i) ==
  \/ GetState(i)
  \/ Write(i)
  \/ ExitCode(i)
  \/ \E e \in {"nil", "differs", "error"} : Return(i, e)
  \/ Report(i)
  \/ Pass(i)
  \/ Release(i)

\* os.Exit ended the process, whatever the goroutines were doing.
Exited == main = "exited" /\ UNCHANGED vars

Next ==
  \/ MainStep
  \/ main # "exited" /\ \E i \in Tasks : TaskStep(i)
  \/ Exited

\* The Go scheduler runs every goroutine that can run.  The walk is finite
\* and each f returns: N and MaxWrites bound what fairness could repeat.
Fairness ==
  /\ WF_vars(MainStep)
  /\ \A i \in Tasks : WF_vars(main # "exited" /\ TaskStep(i))

Spec == Init /\ [][Next]_vars

FairSpec == Spec /\ Fairness

------------------------------------------------------------------------------

Kinds == {"none", "file", "report", "exit"}
PCs   == {"idle", "asking", "running", "failed", "returned", "passed", "released"}

TypeOK ==
  /\ main \in {"walking", "adding", "waiting", "exited"}
  /\ added \in 0..N
  /\ cur \in Int
  /\ weight \in [Tasks -> Weights \union {0}]
  /\ kind \in [Tasks -> Kinds]
  /\ pc \in [Tasks -> PCs]
  /\ err \in [Tasks -> {"nil", "differs", "error"}]
  /\ writes \in [Tasks -> 0..MaxWrites]
  /\ state \in [Tasks -> BOOLEAN]
  /\ chan \in [0..N -> BOOLEAN]
  /\ log \in Seq(Entries)
  /\ exitCode \in 0..2
  /\ answer \in -1..2

Passed(i)   == pc[i] \in {"passed", "released"}
Reported(i) == err[i] # "nil" /\ (pc[i] = "returned" \/ Passed(i))
HasState(i) == state[i] /\ ~Passed(i)
InFlight(i) == pc[i] \in PCs \ {"idle", "asking", "released"}

\* gofmt.go:273, "Only one reporter at a time may have access to a
\* reporterState": two tasks never hold it together, and nobody holds it
\* while it waits in a channel for its next owner.
OneOwner ==
  /\ \A i, j \in Tasks : HasState(i) /\ HasState(j) => i = j
  /\ \A c \in 0..N, i \in Tasks : chan[c] => ~HasState(i)
  /\ \A c, d \in 0..N : chan[c] /\ chan[d] => c = d

\* gofmt.go:214-222: whatever the goroutines' interleaving, output is in the
\* order of the Add calls, and a task's error comes after its own output.
OutputInOrder ==
  \A a, b \in 1..Len(log) :
    a < b => \/ log[a].task < log[b].task
             \/ log[a].task = log[b].task /\ log[a].kind = "out"

\* gofmt.go:221 and 254: the status given to os.Exit is nonzero exactly when
\* some task before GetExitCode's failed, and by then each of them ran to the
\* end of its f and of its report.
ExitStatusFaithful ==
  answer # -1 =>
    \A x \in Tasks : kind[x] = "exit" =>
      /\ \A i \in 1..(x - 1) : Passed(i)
      /\ answer # 0 <=> \E i \in 1..(x - 1) : err[i] # "nil"

\* A unit of the semaphore for each that a task in flight should have.
Units == {x \in Tasks \X (1..MaxWeight) : InFlight(x[1]) /\ x[2] <= Clamp(weight[x[1]])}

Exclusive(i) == weight[i] < 0 \/ weight[i] > MaxWeight

\* gofmt.go:203, 226-227 and 244: what is acquired of the semaphore is what the
\* tasks in flight weigh, oversized weights clamped: none gives back more or
\* less than it took.  So they never weigh more than the capacity, and one
\* added as exclusive runs with no other that weighs anything.  It may run
\* with an empty file, though gofmt.go:203 and 210-212 say it runs alone.
WeightAccounted ==
  /\ cur = Cardinality(Units)
  /\ cur <= MaxWeight
  /\ \A i, j \in Tasks :
       i # j /\ InFlight(i) /\ InFlight(j) /\ Exclusive(i) => weight[j] = 0

\* gofmt.go:205-212, 227 and 254: no Add waits for ever for the weight it asked
\* for, and no reporter for its turn: the program exits.
EventuallyExits == <>(main = "exited")

\* Concurrency is invisible from outside: the sequencer implements the tasks
\* taking turns.
Serial == INSTANCE SerialReport WITH
  done   <- {i \in Tasks : Passed(i)},
  failed <- {i \in Tasks : Reported(i)}

SerialSpec == Serial!Spec

=============================================================================
