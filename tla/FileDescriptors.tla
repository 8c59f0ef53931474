--------------------------- MODULE FileDescriptors ---------------------------
(***************************************************************************)
(* fdSem (gofmt.go:102-110), the channel whose buffer bounds how many file *)
(* descriptors gofumpt has open, and everyone who sends to it: the walk of *)
(* the main goroutine (the cpu profile and the go.mod files shouldIgnore   *)
(* reads) and the tasks that format files (readFile, loadModule,           *)
(* backupFile, writeFile).  A task also waits for its turn on the          *)
(* reporter, to print with -l and when it ends; Sequencer shows that turns *)
(* go round in the order of Add, which is taken for granted here.          *)
(*                                                                         *)
(* The sequencer's weights only delay Add and are left out: fdSem has to   *)
(* cope with as many tasks at once as there are files.                     *)
(***************************************************************************)
EXTENDS Integers, FiniteSets

CONSTANTS
  N,         \* the number of files the walk finds
  Cap,       \* the capacity of fdSem, 200 in the code
  Depth,     \* bound on the go.mod files one call of loadModule reads
  Walks,     \* bound on the directories the walk looks up in loadModule
  Failures,  \* bound on the calls of os.Open in readFile that fail
  Profiles   \* the values -cpuprofile may take: a subset of BOOLEAN

ASSUME NAssumption        == N \in Nat \ {0}
ASSUME CapAssumption      == Cap \in Nat \ {0}
ASSUME DepthAssumption    == Depth \in Nat
ASSUME WalksAssumption    == Walks \in Nat
ASSUME FailuresAssumption == Failures \in Nat
ASSUME ProfilesAssumption == Profiles \subseteq BOOLEAN

Tasks == 1..N

VARIABLES
  slots,    \* how many values are in the buffer of fdSem
  open,     \* how many descriptors it has open, or is about to
  main,     \* where the main goroutine is
  profile,  \* "no", "wanted", or whether os.Create made the cpu profile
  looked,   \* how many directories the walk looked up so far
  added,    \* how many tasks were added
  pc,       \* where the goroutine of each task is
  reads,    \* how many go.mod files a task, or main (task 0), has still to read
  lost      \* the tasks whose os.Open failed in readFile

vars == <<slots, open, main, profile, looked, added, pc, reads, lost>>

------------------------------------------------------------------------------

Init ==
  /\ slots = 0
  /\ open = 0
  /\ main = "starting"
  /\ profile \in {IF p THEN "wanted" ELSE "no" : p \in Profiles}
  /\ looked = 0
  /\ added = 0
  /\ pc = [i \in Tasks |-> "idle"]
  /\ reads = [i \in 0..N |-> 0]
  /\ lost = {}

\* fdSem <- true and <-fdSem
Acquire == slots < Cap /\ slots' = slots + 1
Release == slots' = slots - 1

\* gofmtMain up to the walk, with the cpu profile created first if asked for.
\* When os.Create fails, its slot is kept and nothing is walked.
StartWalk ==
  /\ main = "starting"
  /\ profile = "no"
  /\ main' = "walking"
  /\ UNCHANGED <<slots, open, profile, looked, added, pc, reads, lost>>

CreateProfile ==
  /\ main = "starting"
  /\ profile = "wanted"
  /\ Acquire
  /\ \/ /\ profile' = "created"
        /\ open' = open + 1
        /\ main' = "walking"
     \/ /\ profile' = "failed"
        /\ main' = "waiting"
        /\ UNCHANGED open
  /\ UNCHANGED <<looked, added, pc, reads, lost>>

\* shouldIgnore looks a directory up, which reads any number of go.mod files.
LookUp ==
  /\ main = "walking"
  /\ looked < Walks
  /\ looked' = looked + 1
  /\ \E d \in 0..Depth : reads' = [reads EXCEPT ![0] = d]
  /\ main' = "looking"
  /\ UNCHANGED <<slots, open, profile, added, pc, lost>>

MainOpenMod ==
  /\ main = "looking"
  /\ reads[0] > 0
  /\ Acquire
  /\ open' = open + 1
  /\ main' = "modfile"
  /\ UNCHANGED <<profile, looked, added, pc, reads, lost>>

MainCloseMod ==
  /\ main = "modfile"
  /\ Release
  /\ open' = open - 1
  /\ reads' = [reads EXCEPT ![0] = @ - 1]
  /\ main' = "looking"
  /\ UNCHANGED <<profile, looked, added, pc, lost>>

LookedUp ==
  /\ main = "looking"
  /\ reads[0] = 0
  /\ main' = "walking"
  /\ UNCHANGED <<slots, open, profile, looked, added, pc, reads, lost>>

AddFile ==
  /\ main = "walking"
  /\ added < N
  /\ added' = added + 1
  /\ pc' = [pc EXCEPT ![added + 1] = "read"]
  /\ UNCHANGED <<slots, open, main, profile, looked, reads, lost>>

\* gofmtMain returns: its deferred functions run, then GetExitCode is called.
WalkDone ==
  /\ main = "walking"
  /\ main' = "waiting"
  /\ IF profile = "created"
     THEN Release /\ open' = open - 1
     ELSE UNCHANGED <<slots, open>>
  /\ UNCHANGED <<profile, looked, added, pc, reads, lost>>

\* GetExitCode's own task gets the reporterState after every other task.
Exit ==
  /\ main = "waiting"
  /\ \A i \in 1..added : pc[i] = "done"
  /\ main' = "exited"
  /\ UNCHANGED <<slots, open, profile, looked, added, pc, reads, lost>>

MainStep ==
  \/ StartWalk \/ CreateProfile \/ LookUp \/ MainOpenMod \/ MainCloseMod
  \/ LookedUp \/ AddFile \/ WalkDone \/ Exit

------------------------------------------------------------------------------

\* The tasks.

Turn(i) == \A j \in 1..(i - 1) : pc[j] = "done"

Goto(i, p) == pc' = [pc EXCEPT ![i] = p]

MainRests == UNCHANGED <<main, profile, looked, added>>

ReadFile(i) ==
  /\ pc[i] = "read"
  /\ Acquire
  /\ Goto(i, "opening")
  /\ UNCHANGED <<open, reads, lost>>

Open(i) ==
  /\ pc[i] = "opening"
  /\ open' = open + 1
  /\ Goto(i, "reading")
  /\ UNCHANGED <<slots, reads, lost>>

\* readFile returns before it defers the receive from fdSem.
OpenFails(i) ==
  /\ pc[i] = "opening"
  /\ Cardinality(lost) < Failures
  /\ lost' = lost \union {i}
  /\ Goto(i, "ending")
  /\ UNCHANGED <<slots, open, reads>>

\* The deferred function of readFile.  Reading or parsing fails, or the
\* module of the file is looked up.
CloseRead(i) ==
  /\ pc[i] = "reading"
  /\ open' = open - 1
  /\ Release
  /\ \/ Goto(i, "ending") /\ UNCHANGED reads
     \/ /\ Goto(i, "module")
        /\ \E d \in 0..Depth : reads' = [reads EXCEPT ![i] = d]
  /\ UNCHANGED lost

OpenMod(i) ==
  /\ pc[i] = "module"
  /\ reads[i] > 0
  /\ Acquire
  /\ open' = open + 1
  /\ Goto(i, "modfile")
  /\ UNCHANGED <<reads, lost>>

CloseMod(i) ==
  /\ pc[i] = "modfile"
  /\ Release
  /\ open' = open - 1
  /\ reads' = [reads EXCEPT ![i] = @ - 1]
  /\ Goto(i, "module")
  /\ UNCHANGED lost

\* The formatted text is the same, only to be printed, or to be written back.
Format(i) ==
  /\ pc[i] = "module"
  /\ reads[i] = 0
  /\ \E p \in {"ending", "listing", "saving"} : Goto(i, p)
  /\ UNCHANGED <<slots, open, reads, lost>>

\* The reporter blocks until it is this task's turn; -w may come after -l.
List(i) ==
  /\ pc[i] = "listing"
  /\ Turn(i)
  /\ \E p \in {"ending", "saving"} : Goto(i, p)
  /\ UNCHANGED <<slots, open, reads, lost>>

\* Mutant of OpenBackup: the backup is created without a slot.
OpenBackupFree(i) ==
  /\ pc[i] = "saving"
  /\ open' = open + 1
  /\ Goto(i, "backup")
  /\ UNCHANGED <<slots, reads, lost>>

OpenBackup(i) ==
  /\ pc[i] = "saving"
  /\ Acquire
  /\ open' = open + 1
  /\ Goto(i, "backup")
  /\ UNCHANGED <<reads, lost>>

CloseBackup(i) ==
  /\ pc[i] = "backup"
  /\ open' = open - 1
  /\ Release
  /\ \E p \in {"ending", "rewrite"} : Goto(i, p)
  /\ UNCHANGED <<reads, lost>>

OpenRewrite(i) ==
  /\ pc[i] = "rewrite"
  /\ Acquire
  /\ open' = open + 1
  /\ Goto(i, "rewriting")
  /\ UNCHANGED <<reads, lost>>

\* Mutant of CloseRewrite: writeFile returns without receiving from fdSem.
CloseRewriteKeeps(i) ==
  /\ pc[i] = "rewriting"
  /\ open' = open - 1
  /\ Goto(i, "ending")
  /\ UNCHANGED <<slots, reads, lost>>

CloseRewrite(i) ==
  /\ pc[i] = "rewriting"
  /\ open' = open - 1
  /\ Release
  /\ Goto(i, "ending")
  /\ UNCHANGED <<reads, lost>>

\* Report, if f failed, and the release of the next task.
End(i) ==
  /\ pc[i] = "ending"
  /\ Turn(i)
  /\ Goto(i, "done")
  /\ UNCHANGED <<slots, open, reads, lost>>

TaskStep(i) ==
  /\ main # "exited"
  /\ MainRests
  /\ \/ ReadFile(i) \/ Open(i) \/ OpenFails(i) \/ CloseRead(i)
     \/ OpenMod(i) \/ CloseMod(i) \/ Format(i) \/ List(i)
     \/ OpenBackup(i) \/ CloseBackup(i) \/ OpenRewrite(i) \/ CloseRewrite(i)
     \/ End(i)

Exited == main = "exited" /\ UNCHANGED vars

Next == MainStep \/ (\E i \in Tasks : TaskStep(i)) \/ Exited

\* Every goroutine that can run does.  A channel in Go serves its senders in
\* the order they came, so a goroutine that waits for a slot gets one if slots
\* keep becoming free: SF for the sends to fdSem.
Fairness ==
  /\ SF_vars(MainStep)
  /\ \A i \in Tasks : SF_vars(TaskStep(i))

Spec == Init /\ [][Next]_vars

FairSpec == Spec /\ Fairness

------------------------------------------------------------------------------

\* gofmt.go:102: fdSem guards the number of open descriptors.  What failed
\* opens took away from its capacity is not available any more.
DescriptorsBounded == open \in 0..(Cap - Cardinality(lost))

\* gofmt.go:254: GetExitCode waits for all tasks and returns.  Slots, turns on
\* the reporter and the walk never wait for each other in a circle, as long as
\* failed opens leave a slot besides that of the cpu profile.
ExitsEventually == <>(main = "exited")

=============================================================================
