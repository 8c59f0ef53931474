------------------------------- MODULE Modules -------------------------------
(***************************************************************************)
(* loadModule and its cache (gofmt.go:660-706): the module a directory is  *)
(* in, found by climbing to the closest directory with a go.mod file.  The *)
(* walk of the main goroutine and the tasks call it at the same time; they *)
(* share cachedModuleByDir, a sync.Map, without holding anything between   *)
(* looking a directory up and storing what they found.                     *)
(*                                                                         *)
(* A module is known by its directory (cachedModule.absDir).  os.ReadFile  *)
(* of a go.mod fails ("missing"), or gives a file that does not parse      *)
(* ("invalid") or does ("valid"); nobody changes it meanwhile.             *)
(***************************************************************************)
EXTENDS FileTree, Integers, Sequences

CONSTANTS
  Callers,  \* the goroutines that call loadModule
  Calls     \* bound on the calls of each

ASSUME CallsAssumption == Calls \in Nat

VARIABLES
  gomod,  \* what reading the go.mod of each directory gives
  cache,  \* cachedModuleByDir
  stack,  \* the directories of a caller's nested calls, the innermost first
  step,   \* where the innermost call is
  mod,    \* what it returns
  asked,  \* the directory of a caller's outermost call
  calls   \* how many outermost calls each caller began

vars == <<gomod, cache, stack, step, mod, asked, calls>>

------------------------------------------------------------------------------

Init ==
  /\ gomod \in [Dirs -> GoModStates]
  /\ cache = [d \in Dirs |-> Absent]
  /\ stack = [c \in Callers |-> <<>>]
  /\ step = [c \in Callers |-> "idle"]
  /\ mod = [c \in Callers |-> Nil]
  /\ asked = [c \in Callers |-> Root]
  /\ calls = [c \in Callers |-> 0]

Begin(c, d) ==
  /\ step[c] = "idle"
  /\ calls[c] < Calls
  /\ calls' = [calls EXCEPT ![c] = @ + 1]
  /\ asked' = [asked EXCEPT ![c] = d]
  /\ stack' = [stack EXCEPT ![c] = <<d>>]
  /\ step' = [step EXCEPT ![c] = "look up"]
  /\ UNCHANGED <<gomod, cache, mod>>

\* A call returns to the one that made it, which then stores the result too.
ReturnTo(c) ==
  /\ stack' = [stack EXCEPT ![c] = Tail(@)]
  /\ step' = [step EXCEPT ![c] = IF Len(stack[c]) = 1 THEN "idle" ELSE "store"]

LookUp(c) ==
  /\ step[c] = "look up"
  /\ LET d == Head(stack[c]) IN
       IF cache[d] # Absent
       THEN mod' = [mod EXCEPT ![c] = cache[d]] /\ ReturnTo(c)
       ELSE step' = [step EXCEPT ![c] = "read"] /\ UNCHANGED <<mod, stack>>
  /\ UNCHANGED <<gomod, cache, asked, calls>>

\* Mutant of Read: a directory is marked as outside of any module until its
\* parent's module is known.
ReadMarks(c) ==
  /\ step[c] = "read"
  /\ LET d == Head(stack[c]) IN
       IF gomod[d] = "missing" /\ Parent[d] # d
       THEN /\ cache' = [cache EXCEPT ![d] = Nil]
            /\ stack' = [stack EXCEPT ![c] = <<Parent[d]>> \o @]
            /\ step' = [step EXCEPT ![c] = "look up"]
            /\ UNCHANGED mod
       ELSE /\ mod' = [mod EXCEPT ![c] = IF gomod[d] = "valid" THEN d ELSE Nil]
            /\ step' = [step EXCEPT ![c] = "store"]
            /\ UNCHANGED <<stack, cache>>
  /\ UNCHANGED <<gomod, asked, calls>>

\* Read the go.mod of the directory, or go on with its parent.
Read(c) ==
  /\ step[c] = "read"
  /\ LET d == Head(stack[c]) IN
       IF gomod[d] = "missing" /\ Parent[d] # d
       THEN /\ stack' = [stack EXCEPT ![c] = <<Parent[d]>> \o @]
            /\ step' = [step EXCEPT ![c] = "look up"]
            /\ UNCHANGED mod
       ELSE /\ mod' = [mod EXCEPT ![c] = IF gomod[d] = "valid" THEN d ELSE Nil]
            /\ step' = [step EXCEPT ![c] = "store"]
            /\ UNCHANGED stack
  /\ UNCHANGED <<gomod, cache, asked, calls>>

\* cachedModuleByDir.Store, whoever stored the same directory meanwhile.
Store(c) ==
  /\ step[c] = "store"
  /\ cache' = [cache EXCEPT ![Head(stack[c])] = mod[c]]
  /\ ReturnTo(c)
  /\ UNCHANGED <<gomod, mod, asked, calls>>

CallerStep(c) ==
  \/ \E d \in Dirs : Begin(c, d)
  \/ LookUp(c)
  \/ Read(c)
  \/ Store(c)

Finished ==
  /\ \A c \in Callers : step[c] = "idle" /\ calls[c] = Calls
  /\ UNCHANGED vars

Next == (\E c \in Callers : CallerStep(c)) \/ Finished

Spec == Init /\ [][Next]_vars

------------------------------------------------------------------------------

\* gofmt.go:658-660: whichever entries the others stored on its way up, and in
\* whatever order they raced to, a call returns the module of the directory it
\* was given.
ReturnsEnclosing ==
  \A c \in Callers :
    step[c] = "idle" /\ calls[c] > 0 => mod[c] = Enclosing(gomod)[asked[c]]

=============================================================================
