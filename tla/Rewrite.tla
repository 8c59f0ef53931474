------------------------------- MODULE Rewrite -------------------------------
(***************************************************************************)
(* gofumpt -w on one file: processFile reads it (readFile), formats it and *)
(* writes it back in place (writeFile), with a backup of what it read next *)
(* to it (backupFile) until the new text is complete.  Several tasks work  *)
(* on the same file when the arguments name it more than once.             *)
(*                                                                         *)
(* A text is a sequence of cells.  "o" is a cell of the original, "f" one  *)
(* of the formatted text, at that same place; the two texts are as         *)
(* different as they can be.  "0" is a byte nobody wrote: what the kernel  *)
(* fills a hole with.  A write reaches the file in pieces of any size, so  *)
(* a second task may find a text of which part is new and part is old.     *)
(* That may be no Go source, or Go source like any other, and "g" is a     *)
(* cell of what formatting makes of it then.                               *)
(*                                                                         *)
(* Every call to the system may fail, a bounded number of times.  The      *)
(* process may be killed at any moment: what holds in every state holds    *)
(* then.                                                                   *)
(*                                                                         *)
(* fdSem (see FileDescriptors) only delays these steps and is left out.    *)
(***************************************************************************)
EXTENDS Integers, Sequences

CONSTANTS
  Tasks,      \* the tasks that may be given this file
  Lengths,    \* how long a text may be
  Scenarios   \* which tasks are given the file, how many calls to the system may
              \* fail, and how long a symbolic link to it may be ({}: no link)

ASSUME LengthsAssumption == Lengths \subseteq Nat \ {0}
ASSUME ScenariosAssumption ==
  Scenarios \subseteq [given : SUBSET Tasks, faults : Nat, links : SUBSET Nat]

VARIABLES
  orig,       \* the text in the file at the start
  formatted,  \* that text formatted, which formatting does not change again
  file,       \* the text in the file
  src,        \* what each task read of it
  res,        \* what formatting made of that
  bak,        \* the text in the backup of each task
  pc,         \* where each task is
  size,       \* info.Size() as the walk found it
  n,          \* how much of res the task wrote
  no,         \* how much of src it wrote back
  result,     \* what processFile returned
  warned,     \* whether restoreFail named the backup to the user
  given,      \* the tasks that were given this file
  links,      \* the sizes a link may have
  faults      \* how many more calls may fail

texts == <<orig, formatted, given, links>>
known == <<src, res>>
vars  == <<texts, known, file, bak, pc, size, n, no, result, warned, faults>>

\* Nothing read, or no backup.
NoText == <<"no text">>

IsLink == links # {}

Text(cell, len) == [i \in 1..len |-> cell]

------------------------------------------------------------------------------

\* Writing text[from+1..to] at its place, as Write and WriteAt do.
Overwrite(old, text, from, to) ==
  [i \in 1..(IF to > Len(old) THEN to ELSE Len(old)) |->
     CASE i \in (from + 1)..to -> text[i]
       [] i \in 1..Len(old) /\ i \notin (from + 1)..to -> old[i]
       [] OTHER -> "0"]

Truncate(old, len) == [i \in 1..len |-> IF i <= Len(old) THEN old[i] ELSE "0"]

Init ==
  /\ \E len \in Lengths : orig = Text("o", len)
  /\ \E len \in Lengths : formatted = Text("f", len)
  /\ file = orig
  /\ src = [t \in Tasks |-> NoText]
  /\ res = [t \in Tasks |-> NoText]
  /\ bak = [t \in Tasks |-> NoText]
  /\ pc = [t \in Tasks |-> "stat"]
  /\ size = [t \in Tasks |-> 0]
  /\ n = [t \in Tasks |-> 0]
  /\ no = [t \in Tasks |-> 0]
  /\ result = [t \in Tasks |-> "none"]
  /\ warned = [t \in Tasks |-> FALSE]
  /\ \E s \in Scenarios : given = s.given /\ faults = s.faults /\ links = s.links

Goto(t, p) == pc' = [pc EXCEPT ![t] = p]

Return(t, r) == Goto(t, "done") /\ result' = [result EXCEPT ![t] = r]

\* A call to the system fails.
Fault == faults > 0 /\ faults' = faults - 1

\* The walk gets the information of a link, not of the file behind it.
Stat(t) ==
  /\ pc[t] = "stat"
  /\ \E s \in IF IsLink THEN links ELSE {Len(file)} :
       size' = [size EXCEPT ![t] = s]
  /\ Goto(t, "read")
  /\ UNCHANGED <<texts, known, file, bak, n, no, result, warned, faults>>

\* Formatting makes another text of the one that was read.
Reformat(t, text) ==
  /\ res' = [res EXCEPT ![t] = text]
  /\ Goto(t, "create")
  /\ UNCHANGED result

\* What formatting makes of a text that is neither of the two: it may add or
\* take away just what is wrong with it.
Reformatted == {formatted} \union {Text("g", len) : len \in Lengths}

\* readFile checks the size it expects of a regular file.  Then the text is
\* compared with what formatting makes of it.  One that is neither of the two
\* texts may be no Go source, be formatted already, or be formatted and
\* written back in its turn.
Read(t) ==
  /\ pc[t] = "read"
  /\ IF ~IsLink /\ Len(file) # size[t]
     THEN Return(t, "error") /\ UNCHANGED known
     ELSE /\ src' = [src EXCEPT ![t] = file]
          /\ \/ file = formatted /\ Return(t, "nil") /\ UNCHANGED res
             \/ file = orig /\ file # formatted /\ Reformat(t, formatted)
             \/ /\ file \notin {orig, formatted}
                /\ \/ \E r \in {"error", "nil"} : Return(t, r) /\ UNCHANGED res
                   \/ \E text \in Reformatted : Reformat(t, text)
  /\ UNCHANGED <<texts, file, bak, size, n, no, warned, faults>>

ReadFails(t) ==
  /\ pc[t] = "read"
  /\ Fault
  /\ Return(t, "error")
  /\ UNCHANGED <<texts, known, file, bak, size, n, no, warned>>

------------------------------------------------------------------------------

\* backupFile.  The names of two backups are never the same (O_EXCL).
CreateBackup(t) ==
  /\ pc[t] = "create"
  /\ bak' = [bak EXCEPT ![t] = <<>>]
  /\ Goto(t, "backup")
  /\ UNCHANGED <<texts, known, file, size, n, no, result, warned, faults>>

WriteBackup(t) ==
  /\ pc[t] = "backup"
  /\ \E k \in (Len(bak[t]) + 1)..Len(src[t]) :
       bak' = [bak EXCEPT ![t] = SubSeq(src[t], 1, k)]
  /\ UNCHANGED <<texts, known, file, pc, size, n, no, result, warned, faults>>

\* Mutant of CloseBackup: it is not written to the end.
CloseBackupEarly(t) ==
  /\ pc[t] = "backup"
  /\ Goto(t, "open")
  /\ UNCHANGED <<texts, known, file, bak, size, n, no, result, warned, faults>>

CloseBackup(t) ==
  /\ pc[t] = "backup"
  /\ bak[t] = src[t]
  /\ Goto(t, "open")
  /\ UNCHANGED <<texts, known, file, bak, size, n, no, result, warned, faults>>

\* Mutant of BackupFails: the error is dropped.
BackupFailsQuietly(t) ==
  /\ pc[t] = "backup"
  /\ Fault
  /\ Goto(t, "open")
  /\ UNCHANGED <<texts, known, file, bak, size, n, no, result, warned>>

\* Creating, writing or closing it fails; writeFile leaves behind what there is.
BackupFails(t) ==
  /\ pc[t] \in {"create", "backup"}
  /\ Fault
  /\ Return(t, "error")
  /\ UNCHANGED <<texts, known, file, bak, size, n, no, warned>>

------------------------------------------------------------------------------

\* os.OpenFile without O_TRUNC.
Open(t) ==
  /\ pc[t] = "open"
  /\ \/ Goto(t, "write") /\ UNCHANGED faults
     \/ Goto(t, "failed") /\ Fault
  /\ UNCHANGED <<texts, known, file, bak, size, n, no, result, warned>>

\* fout.Write(formatted)
Write(t) ==
  /\ pc[t] = "write"
  /\ \E k \in (n[t] + 1)..Len(res[t]) :
       /\ file' = Overwrite(file, res[t], n[t], k)
       /\ n' = [n EXCEPT ![t] = k]
  /\ UNCHANGED <<texts, known, bak, pc, size, no, result, warned, faults>>

WriteFails(t) ==
  /\ pc[t] = "write"
  /\ n[t] < Len(res[t])
  /\ Fault
  /\ Goto(t, IF n[t] = 0 THEN "failed" ELSE "restore")
  /\ UNCHANGED <<texts, known, file, bak, size, n, no, result, warned>>

\* Mutant of Written: the file is never truncated.
WrittenOver(t) ==
  /\ pc[t] = "write"
  /\ n[t] = Len(res[t])
  /\ Goto(t, "close")
  /\ UNCHANGED <<texts, known, file, bak, size, n, no, result, warned, faults>>

\* Truncated only when the file is known to be longer.
Written(t) ==
  /\ pc[t] = "write"
  /\ n[t] = Len(res[t])
  /\ IF n[t] < size[t]
     THEN \/ /\ file' = Truncate(file, n[t])
             /\ Goto(t, "close")
             /\ UNCHANGED faults
          \/ /\ Fault
             /\ Goto(t, IF n[t] = 0 THEN "failed" ELSE "restore")
             /\ UNCHANGED file
     ELSE Goto(t, "close") /\ UNCHANGED <<file, faults>>
  /\ UNCHANGED <<texts, known, bak, size, n, no, result, warned>>

Close(t) ==
  /\ pc[t] = "close"
  /\ \/ Goto(t, "succeeded") /\ UNCHANGED <<result, warned, faults>>
     \/ /\ Fault
        /\ Return(t, "error")
        /\ warned' = [warned EXCEPT ![t] = TRUE]
  /\ UNCHANGED <<texts, known, file, bak, size, n, no>>

\* os.Remove(bakname), whose error is ignored.
Remove(t) ==
  /\ pc[t] \in {"failed", "succeeded"}
  /\ \/ bak' = [bak EXCEPT ![t] = NoText] /\ UNCHANGED faults
     \/ Fault /\ UNCHANGED bak
  /\ Return(t, IF pc[t] = "succeeded" THEN "nil" ELSE "error")
  /\ UNCHANGED <<texts, known, file, size, n, no, warned>>

------------------------------------------------------------------------------

\* fout.WriteAt(orig, 0)
Restore(t) ==
  /\ pc[t] = "restore"
  /\ \E k \in (no[t] + 1)..Len(src[t]) :
       /\ file' = Overwrite(file, src[t], no[t], k)
       /\ no' = [no EXCEPT ![t] = k]
  /\ UNCHANGED <<texts, known, bak, pc, size, n, result, warned, faults>>

\* Mutant of Restored: what was written beyond the original stays.
RestoredOver(t) ==
  /\ pc[t] = "restore"
  /\ no[t] = Len(src[t])
  /\ Goto(t, "restored")
  /\ UNCHANGED <<texts, known, file, bak, size, n, no, result, warned, faults>>

\* Truncated when the original is shorter than what was written of the new.
Restored(t) ==
  /\ pc[t] = "restore"
  /\ no[t] = Len(src[t])
  /\ IF no[t] < n[t]
     THEN file' = Truncate(file, no[t])
     ELSE UNCHANGED file
  /\ Goto(t, "restored")
  /\ UNCHANGED <<texts, known, bak, size, n, no, result, warned, faults>>

CloseRestored(t) ==
  /\ pc[t] = "restored"
  /\ Goto(t, "failed")
  /\ UNCHANGED <<texts, known, file, bak, size, n, no, result, warned, faults>>

\* Mutant of RestoreFails: the backup named to the user is removed.
RestoreFailsRemoves(t) ==
  /\ \/ pc[t] = "restore" /\ (no[t] < Len(src[t]) \/ no[t] < n[t])
     \/ pc[t] = "restored"
  /\ Fault
  /\ Goto(t, "failed")
  /\ warned' = [warned EXCEPT ![t] = TRUE]
  /\ UNCHANGED <<texts, known, file, bak, size, n, no, result>>

\* Writing back, truncating or closing fails: restoreFail names the backup.
RestoreFails(t) ==
  /\ \/ pc[t] = "restore" /\ (no[t] < Len(src[t]) \/ no[t] < n[t])
     \/ pc[t] = "restored"
  /\ Fault
  /\ Return(t, "error")
  /\ warned' = [warned EXCEPT ![t] = TRUE]
  /\ UNCHANGED <<texts, known, file, bak, size, n, no>>

------------------------------------------------------------------------------

Step(t) ==
  \/ Stat(t) \/ Read(t) \/ ReadFails(t)
  \/ CreateBackup(t) \/ WriteBackup(t) \/ CloseBackup(t) \/ BackupFails(t)
  \/ Open(t) \/ Write(t) \/ WriteFails(t) \/ Written(t) \/ Close(t) \/ Remove(t)
  \/ Restore(t) \/ Restored(t) \/ CloseRestored(t) \/ RestoreFails(t)

Quiescent == \A t \in given : pc[t] = "done"

Done == Quiescent /\ UNCHANGED vars

Next == (\E t \in given : Step(t)) \/ Done

Spec == Init /\ [][Next]_vars

------------------------------------------------------------------------------

\* No task took what another was in the middle of writing for a text to be
\* rewritten as something else, and none that is not alone has written the old
\* text back.  One task that has the file for itself is never disturbed.
Undisturbed ==
  /\ \A t \in given : res[t] \in {NoText, formatted}
  /\ \A t, u \in given : no[t] > 0 => t = u

\* gofmt.go:752: the size of a link says that nothing has to be cut off, though
\* the old text is longer than the new.
TailStays ==
  /\ IsLink
  /\ Len(formatted) < Len(orig)
  /\ \E t \in given : src[t] = orig /\ size[t] <= Len(formatted)

\* gofmt.go:729, 736-738, 797: at no moment, a crash or a failed call
\* included, is the user without a complete copy of one of the two texts: but
\* where a link's size hides a tail or several tasks get into each other's way.
NothingLost ==
  Undisturbed /\ ~TailStays =>
    \/ file \in {orig, formatted}
    \/ \E t \in Tasks : bak[t] = orig

\* Some task succeeded, and none that failed had written anything.
Succeeded ==
  /\ Quiescent
  /\ \E t \in given : result[t] = "nil"
  /\ \A t \in given : result[t] = "nil" \/ n[t] = 0

\* What gofmt.go:727 says of writeFile, with no condition: see RewriteLink.cfg
\* and RewriteTwice.cfg.
AlwaysUpdated == Succeeded => file = formatted

\* gofmt.go:727, 752 and 797: when writeFile reports success, the file is the
\* formatted text, to the last byte: for a link too, but where its size hides
\* the tail, and for several tasks that do not get into each other's way.
Updated == Undisturbed /\ ~TailStays => AlwaysUpdated

\* gofmt.go:736-738, 756-790: when it fails without naming a backup, the file
\* is what it was, for a link too; several tasks that fail must not get into
\* each other's way.
FailureKeepsOriginal ==
  Undisturbed /\ Quiescent /\ (\A t \in given : result[t] = "error" /\ ~warned[t])
    => file = orig

\* gofmt.go:747-749: the backup restoreFail names is there, and is the whole of
\* what that task read: the original, unless the task read the file while
\* another was writing.
WarningIsTrue ==
  \A t \in Tasks :
    warned[t] => /\ bak[t] = src[t]
                 /\ src[t] \in {orig, formatted} => bak[t] = orig

=============================================================================
