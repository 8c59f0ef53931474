----------------------------- MODULE RewriteProofs -----------------------------
(***************************************************************************)
(* What writeFile promises (Rewrite), for texts of any length and any      *)
(* number of calls that fail: a backup that is named to the user is the    *)
(* whole of what its task read, whatever other tasks do to the file; and a *)
(* task that has a file for itself loses nothing, reports success only if  *)
(* the file is the new text (but where the size of a link hides a tail),   *)
(* and failure without a backup only if it is the old one.                 *)
(***************************************************************************)
EXTENDS Rewrite, SequenceTheorems, TLAPS

Domains ==
  /\ DOMAIN bak = Tasks /\ DOMAIN pc = Tasks /\ DOMAIN size = Tasks /\ DOMAIN n = Tasks
  /\ DOMAIN no = Tasks /\ DOMAIN result = Tasks /\ DOMAIN warned = Tasks
  /\ DOMAIN src = Tasks /\ DOMAIN res = Tasks
  /\ given \subseteq Tasks

LEMMA DomainsInit == Init => Domains
BY ScenariosAssumption DEF Init, Domains

LEMMA DomainsNext == Domains /\ [Next]_vars => Domains'
<1> SUFFICES ASSUME Domains, [Next]_vars  PROVE Domains'
  OBVIOUS
<1>1. ASSUME NEW t \in given, Step(t)  PROVE Domains'
  BY <1>1 DEF Domains, Step, texts, known, Goto, Return, Stat, Reformat, Read, ReadFails, CreateBackup, WriteBackup,
     CloseBackup, BackupFails, Open, Write, WriteFails, Written, Close, Remove, Restore, Restored,
     CloseRestored, RestoreFails
<1>2. ASSUME UNCHANGED vars  PROVE Domains'
  BY <1>2 DEF vars, texts, known, Domains
<1> QED  BY <1>1, <1>2 DEF Next, Done

------------------------------------------------------------------------------
(* Backups *)

\* From when it is closed until it is removed, a backup is all that was read;
\* and who writes did not read the formatted text.
BackedUp ==
  \A t \in Tasks :
    /\ pc[t] \in {"create", "backup", "open", "write", "close", "restore", "restored"} =>
         src[t] # formatted
    /\ pc[t] \in {"open", "write", "close", "restore", "restored"} => bak[t] = src[t]
    /\ warned[t] => pc[t] = "done" /\ bak[t] = src[t] /\ src[t] # formatted

LEMMA BackedUpNext == Domains /\ BackedUp /\ [Next]_vars => BackedUp'
<1> SUFFICES ASSUME Domains, BackedUp, [Next]_vars  PROVE BackedUp'
  OBVIOUS
<1>1. ASSUME NEW t \in given, Step(t)  PROVE BackedUp'
  <2>1. orig' = orig /\ formatted' = formatted /\ t \in Tasks
    BY <1>1 DEF Domains, Step, texts, known, Stat, Reformat, Read, ReadFails, CreateBackup, WriteBackup,
       CloseBackup, BackupFails, Open, Write, WriteFails, Written, Close, Remove, Restore, Restored,
       CloseRestored, RestoreFails
  <2>2. ASSUME NEW u \in Tasks \ {t}
        PROVE  /\ pc'[u] = pc[u] /\ bak'[u] = bak[u] /\ warned'[u] = warned[u]
               /\ src'[u] = src[u]
    BY <1>1, <2>1 DEF Domains, Step, texts, known, Goto, Return, Stat, Reformat, Read, ReadFails, CreateBackup, WriteBackup,
       CloseBackup, BackupFails, Open, Write, WriteFails, Written, Close, Remove, Restore, Restored,
       CloseRestored, RestoreFails
  <2>3. /\ pc[t] \in {"create", "backup", "open", "write", "close", "restore", "restored"} =>
             src[t] # formatted
        /\ pc[t] \in {"open", "write", "close", "restore", "restored"} => bak[t] = src[t]
        /\ warned[t] => pc[t] = "done" /\ bak[t] = src[t] /\ src[t] # formatted
    BY <2>1 DEF BackedUp
  <2>4. SUFFICES
          /\ pc'[t] \in {"create", "backup", "open", "write", "close", "restore", "restored"} =>
               src'[t] # formatted
          /\ pc'[t] \in {"open", "write", "close", "restore", "restored"} => bak'[t] = src'[t]
          /\ warned'[t] => pc'[t] = "done" /\ bak'[t] = src'[t] /\ src'[t] # formatted
    BY <2>1, <2>2 DEF BackedUp
  <2>5. CASE Stat(t)
    BY <2>1, <2>3, <2>5 DEF Domains, known, Goto, Return, Stat
  <2>6. CASE Read(t)
    <3>1. bak' = bak /\ warned' = warned /\ pc[t] = "read"
      BY <2>6 DEF Read
    <3>2. \/ pc'[t] = "done"
          \/ pc'[t] = "create" /\ src'[t] # formatted
      <4>1. CASE \E r : Return(t, r)
        BY <2>1, <4>1 DEF Domains, Goto, Return
      <4>2. CASE src' = [src EXCEPT ![t] = file] /\ file # formatted /\ \E text : Reformat(t, text)
        BY <2>1, <4>2 DEF Domains, Goto, Reformat
      <4> QED  BY <2>6, <4>1, <4>2 DEF Read
    <3>3. ~warned[t]
      BY <2>3, <3>1
    <3> QED  BY <2>1, <2>3, <3>1, <3>2, <3>3 DEF Domains
  <2>7. CASE ReadFails(t)
    BY <2>1, <2>3, <2>7 DEF Domains, known, Goto, Return, ReadFails
  <2>8. CASE CreateBackup(t)
    BY <2>1, <2>3, <2>8 DEF Domains, known, Goto, Return, CreateBackup
  <2>9. CASE WriteBackup(t)
    BY <2>1, <2>3, <2>9 DEF Domains, known, Goto, Return, WriteBackup
  <2>10. CASE CloseBackup(t)
    BY <2>1, <2>3, <2>10 DEF Domains, known, Goto, Return, CloseBackup
  <2>11. CASE BackupFails(t)
    BY <2>1, <2>3, <2>11 DEF Domains, known, Goto, Return, BackupFails
  <2>12. CASE Open(t)
    BY <2>1, <2>3, <2>12 DEF Domains, known, Goto, Return, Open
  <2>13. CASE Write(t)
    BY <2>1, <2>3, <2>13 DEF Domains, known, Goto, Return, Write
  <2>14. CASE WriteFails(t)
    BY <2>1, <2>3, <2>14 DEF Domains, known, Goto, Return, WriteFails
  <2>15. CASE Written(t)
    BY <2>1, <2>3, <2>15 DEF Domains, known, Goto, Return, Written
  <2>16. CASE Close(t)
    BY <2>1, <2>3, <2>16 DEF Domains, known, Goto, Return, Close
  <2>17. CASE Remove(t)
    BY <2>1, <2>3, <2>17 DEF Domains, known, Goto, Return, Remove
  <2>18. CASE Restore(t)
    BY <2>1, <2>3, <2>18 DEF Domains, known, Goto, Return, Restore
  <2>19. CASE Restored(t)
    BY <2>1, <2>3, <2>19 DEF Domains, known, Goto, Return, Restored
  <2>20. CASE CloseRestored(t)
    BY <2>1, <2>3, <2>20 DEF Domains, known, Goto, Return, CloseRestored
  <2>21. CASE RestoreFails(t)
    BY <2>1, <2>3, <2>21 DEF Domains, known, Goto, Return, RestoreFails
  <2> QED
    BY <1>1, <2>5, <2>6, <2>7, <2>8, <2>9, <2>10, <2>11, <2>12, <2>13,
       <2>14, <2>15, <2>16, <2>17, <2>18, <2>19, <2>20, <2>21 DEF Step
<1>2. ASSUME UNCHANGED vars  PROVE BackedUp'
  BY <1>2 DEF vars, texts, known, BackedUp
<1> QED  BY <1>1, <1>2 DEF Next, Done

\* gofmt.go:747-749: the backup that restoreFail names is there, and is what that
\* task read, to the last byte, whatever else was done to the file, whatever other
\* tasks read of it half written, and whatever failed; it is the original unless
\* the task read what another was in the middle of writing.
THEOREM WarningsAreTrue == Spec => []WarningIsTrue
<1>1. Init => BackedUp
  BY DEF Init, BackedUp
<1>2. BackedUp => WarningIsTrue
  BY DEF BackedUp, WarningIsTrue
<1> QED  BY <1>1, <1>2, DomainsInit, DomainsNext, BackedUpNext, PTL DEF Spec

------------------------------------------------------------------------------
(* Texts *)

LEMMA TextIs ==
  ASSUME NEW cell, NEW len \in Nat
  PROVE  /\ Len(Text(cell, len)) = len
         /\ Text(cell, len) \in Seq({cell})
         /\ DOMAIN Text(cell, len) = 1..len
         /\ \A i \in 1..len : Text(cell, len)[i] = cell
<1>1. Text(cell, len) \in Seq({cell})
  BY DEF Text
<1>2. DOMAIN Text(cell, len) = 1..len
  BY DEF Text
<1>3. Len(Text(cell, len)) \in Nat /\ 1..Len(Text(cell, len)) = 1..len
  BY <1>1, <1>2, LenProperties
<1> QED  BY <1>1, <1>2, <1>3 DEF Text

\* The file after w cells of the new text were written, and r of the old one
\* were written back; l is the length of the old one.
Longest(a, b) == IF a > b THEN a ELSE b
Torn(l, w, r) == [i \in 1..Longest(l, w) |-> IF i > r /\ i <= w THEN "f" ELSE "o"]

LEMMA TornIs ==
  ASSUME NEW l \in Nat, NEW w \in Nat, NEW r \in Nat
  PROVE  /\ Len(Torn(l, w, r)) = Longest(l, w)
         /\ DOMAIN Torn(l, w, r) = 1..Longest(l, w)
         /\ Longest(l, w) \in Nat
<1>1. Longest(l, w) \in Nat
  BY DEF Longest
<1>2. Torn(l, w, r) \in Seq({"f", "o"})
  BY <1>1 DEF Torn
<1>3. DOMAIN Torn(l, w, r) = 1..Longest(l, w)
  BY DEF Torn
<1>4. Len(Torn(l, w, r)) \in Nat /\ 1..Len(Torn(l, w, r)) = 1..Longest(l, w)
  BY <1>2, <1>3, LenProperties
<1> QED  BY <1>1, <1>3, <1>4

LEMMA NothingTorn ==
  ASSUME NEW l \in Nat, NEW w \in Nat
  PROVE  /\ Torn(l, 0, 0) = Text("o", l)
         /\ w <= l => Torn(l, w, l) = Text("o", l)
BY DEF Torn, Text, Longest

\* A piece of the new text is written.
LEMMA TornFurther ==
  ASSUME NEW l \in Nat, NEW m \in Nat, NEW w \in Nat, NEW k \in (w + 1)..m
  PROVE  Overwrite(Torn(l, w, 0), Text("f", m), w, k) = Torn(l, k, 0)
<1>1. k \in Nat /\ k > w /\ k <= m
  OBVIOUS
<1>2. Len(Torn(l, w, 0)) = Longest(l, w)
  BY TornIs
<1>3. (IF k > Longest(l, w) THEN k ELSE Longest(l, w)) = Longest(l, k)
  BY <1>1 DEF Longest
<1>4. ASSUME NEW i \in 1..Longest(l, k)
      PROVE  (CASE i \in (w + 1)..k -> Text("f", m)[i]
                [] i \in 1..Longest(l, w) /\ i \notin (w + 1)..k -> Torn(l, w, 0)[i]
                [] OTHER -> "0") = Torn(l, k, 0)[i]
  <2>1. i \in Nat /\ i >= 1
    BY <1>1 DEF Longest
  <2>2. Torn(l, k, 0)[i] = IF i <= k THEN "f" ELSE "o"
    BY <2>1, <1>1 DEF Torn
  <2>3. CASE i \in (w + 1)..k
    <3>1. Text("f", m)[i] = "f"
      BY <1>1, <2>1, <2>3 DEF Text
    <3> QED  BY <1>1, <2>1, <2>2, <2>3, <3>1
  <2>4. CASE i \notin (w + 1)..k
    <3>1. i \in 1..Longest(l, w) /\ (i <= w <=> i <= k)
      BY <1>1, <2>1, <2>4 DEF Longest
    <3>2. Torn(l, w, 0)[i] = IF i <= w THEN "f" ELSE "o"
      BY <2>1, <3>1 DEF Torn
    <3> QED  BY <2>2, <2>4, <3>1, <3>2
  <2> QED  BY <2>3, <2>4
<1> QED  BY <1>2, <1>3, <1>4 DEF Overwrite, Torn

\* A piece of the old text is written back.
LEMMA TornBack ==
  ASSUME NEW l \in Nat, NEW w \in Nat, NEW r \in Nat, NEW k \in (r + 1)..l
  PROVE  Overwrite(Torn(l, w, r), Text("o", l), r, k) = Torn(l, w, k)
<1>1. k \in Nat /\ k > r /\ k <= l
  OBVIOUS
<1>2. Len(Torn(l, w, r)) = Longest(l, w)
  BY TornIs
<1>3. (IF k > Longest(l, w) THEN k ELSE Longest(l, w)) = Longest(l, w)
  BY <1>1 DEF Longest
<1>4. ASSUME NEW i \in 1..Longest(l, w)
      PROVE  (CASE i \in (r + 1)..k -> Text("o", l)[i]
                [] i \in 1..Longest(l, w) /\ i \notin (r + 1)..k -> Torn(l, w, r)[i]
                [] OTHER -> "0") = Torn(l, w, k)[i]
  <2>1. i \in Nat /\ i >= 1
    BY DEF Longest
  <2>2. Torn(l, w, k)[i] = IF i > k /\ i <= w THEN "f" ELSE "o"
    BY DEF Torn
  <2>3. CASE i \in (r + 1)..k
    <3>1. Text("o", l)[i] = "o"
      BY <1>1, <2>1, <2>3 DEF Text
    <3> QED  BY <1>1, <2>1, <2>2, <2>3, <3>1
  <2>4. CASE i \notin (r + 1)..k
    <3>1. i > r <=> i > k
      BY <1>1, <2>1, <2>4
    <3>2. Torn(l, w, r)[i] = IF i > r /\ i <= w THEN "f" ELSE "o"
      BY DEF Torn
    <3> QED  BY <2>2, <2>4, <3>1, <3>2
  <2> QED  BY <2>3, <2>4
<1> QED  BY <1>2, <1>3, <1>4 DEF Overwrite, Torn

\* All was written, or written back, and the rest is cut off.
LEMMA TornCut ==
  ASSUME NEW l \in Nat, NEW w \in Nat
  PROVE  /\ Truncate(Torn(l, w, 0), w) = Text("f", w)
         /\ w >= l => Torn(l, w, 0) = Text("f", w)
         /\ w > l => Truncate(Torn(l, w, l), l) = Text("o", l)
<1>1. \A r \in Nat : Len(Torn(l, w, r)) = Longest(l, w)
  BY TornIs
<1>2. Truncate(Torn(l, w, 0), w) = Text("f", w)
  <2>1. Len(Torn(l, w, 0)) = Longest(l, w)
    BY <1>1
  <2>2. ASSUME NEW i \in 1..w
        PROVE  (IF i <= Len(Torn(l, w, 0)) THEN Torn(l, w, 0)[i] ELSE "0") = "f"
    BY <2>1, <2>2 DEF Torn, Longest
  <2> QED  BY <2>2 DEF Truncate, Text
<1>3. ASSUME w >= l  PROVE Torn(l, w, 0) = Text("f", w)
  BY <1>3 DEF Torn, Text, Longest
<1>4. ASSUME w > l  PROVE Truncate(Torn(l, w, l), l) = Text("o", l)
  BY <1>1, <1>4 DEF Truncate, Torn, Text, Longest
<1> QED  BY <1>2, <1>3, <1>4

------------------------------------------------------------------------------
(* A task that has the file for itself *)

\* The size of a link hides the tail of the old text from a task.
Hidden(t) == IsLink /\ Len(formatted) < Len(orig) /\ src[t] = orig /\ size[t] <= Len(formatted)

\* What the file is at each place of the task.
Whole(t) ==
  /\ n[t] \in 0..Len(formatted) /\ no[t] \in 0..Len(orig) /\ size[t] \in Nat
  /\ pc[t] # "stat" /\ ~IsLink => size[t] = Len(orig)
  /\ res[t] \in {NoText, formatted}
  /\ pc[t] \notin {"stat", "read", "done"} => src[t] = orig /\ res[t] = formatted
  /\ pc[t] \in {"stat", "read", "create", "backup", "open"} => file = orig /\ n[t] = 0 /\ no[t] = 0
  /\ pc[t] = "write" => file = Torn(Len(orig), n[t], 0) /\ no[t] = 0
  /\ pc[t] = "restore" => file = Torn(Len(orig), n[t], no[t])
  /\ pc[t] \in {"close", "succeeded"} => file = formatted \/ Hidden(t)
  /\ pc[t] \in {"failed", "restored"} => file = orig
  /\ pc[t] = "done" => \/ result[t] = "nil" /\ (file = formatted \/ Hidden(t))
                       \/ result[t] = "error" /\ (warned[t] \/ file = orig)
  /\ warned[t] => src[t] = orig
  /\ pc[t] \in {"stat", "read", "create", "backup", "open", "write", "restore", "close",
                "succeeded", "failed", "restored", "done"}

TextsTyped ==
  /\ Len(orig) \in Nat \ {0} /\ orig = Text("o", Len(orig))
  /\ Len(formatted) \in Nat \ {0} /\ formatted = Text("f", Len(formatted))

Alone ==
  /\ TextsTyped
  /\ \A a, b \in given : a = b
  /\ links \subseteq Nat
  /\ given = {} => file = orig
  /\ \A t \in Tasks \ given : ~warned[t]
  /\ \A t \in given : Whole(t)

Solo == \A s \in Scenarios : \A a, b \in s.given : a = b

LEMMA AloneInit == Solo /\ Init => Alone
<1> SUFFICES ASSUME Solo, Init  PROVE Alone
  OBVIOUS
<1>1. PICK l \in Lengths : orig = Text("o", l)
  BY DEF Init
<1>2. PICK m \in Lengths : formatted = Text("f", m)
  BY DEF Init
<1>3. l \in Nat \ {0} /\ m \in Nat \ {0}
  BY LengthsAssumption
<1>4. Len(orig) = l /\ Len(formatted) = m
  BY <1>1, <1>2, <1>3, TextIs
<1>5. TextsTyped
  BY <1>1, <1>2, <1>3, <1>4 DEF TextsTyped
<1>6. \A a, b \in given : a = b
  BY DEF Init, Solo
<1>7. ASSUME NEW t \in given  PROVE Whole(t)
  <2>1. t \in Tasks
    BY DomainsInit DEF Domains
  <2>2. /\ n[t] = 0 /\ no[t] = 0 /\ pc[t] = "stat" /\ file = orig /\ size[t] = 0
        /\ res[t] = NoText /\ ~warned[t]
    BY <2>1 DEF Init
  <2> QED  BY <1>3, <1>4, <2>2 DEF Whole
<1>8. links \subseteq Nat
  BY ScenariosAssumption DEF Init
<1> QED  BY <1>5, <1>6, <1>7, <1>8 DEF Alone, Init

LEMMA AloneNext == Solo /\ Domains /\ BackedUp /\ Alone /\ [Next]_vars => Alone'
<1> SUFFICES ASSUME Solo, Domains, BackedUp, Alone, [Next]_vars  PROVE Alone'
  OBVIOUS
<1>1. ASSUME NEW t \in given, Step(t)  PROVE Alone'
  <2>1. /\ orig' = orig /\ formatted' = formatted /\ given' = given /\ links' = links
        /\ t \in Tasks
    BY <1>1 DEF Domains, Step, texts, known, Stat, Reformat, Read, ReadFails, CreateBackup, WriteBackup,
       CloseBackup, BackupFails, Open, Write, WriteFails, Written, Close, Remove, Restore, Restored,
       CloseRestored, RestoreFails
  <2>2. TextsTyped /\ TextsTyped'
    BY <2>1 DEF Alone, TextsTyped, Text
  <2>3. Whole(t)
    BY DEF Alone
  <2>others. \A u \in Tasks \ {t} : warned'[u] = warned[u]
    BY <1>1, <2>1 DEF Domains, Step, Return, Stat, Reformat, Read, ReadFails, CreateBackup, WriteBackup,
       CloseBackup, BackupFails, Open, Write, WriteFails, Written, Close, Remove, Restore, Restored,
       CloseRestored, RestoreFails
  <2>4. SUFFICES Whole(t)'
    BY <2>1, <2>2, <2>others DEF Alone
  <2> DEFINE l == Len(orig)
  <2> DEFINE m == Len(formatted)
  <2>5. l \in Nat /\ m \in Nat /\ l > 0 /\ m > 0
    BY <2>2 DEF TextsTyped
  <2>6. n[t] \in Nat /\ no[t] \in Nat /\ n[t] <= m /\ no[t] <= l
    <3>1. n[t] \in 0..m /\ no[t] \in 0..l
      BY <2>3 DEF Whole
    <3> QED  BY <2>5, <3>1
  <2>7. orig = Text("o", l) /\ formatted = Text("f", m)
    BY <2>2 DEF TextsTyped
  <2> HIDE DEF l, m
  <2> DEFINE H == IsLink /\ m < l /\ src[t] = orig /\ size[t] <= m
  <2>hidden. Hidden(t) <=> H
    BY DEF Hidden, l, m
  <2>stays. IsLink' <=> IsLink
    BY <2>1 DEF IsLink
  <2>kept. ASSUME src' = src, size' = size  PROVE H' <=> H
    BY <2>1, <2>stays, <2>kept DEF l, m
  <2> HIDE DEF H
  <2>primed. Hidden(t)' <=> H'
    BY <2>1, <2>stays DEF Hidden, H, l, m
  <2>after. SUFFICES
          /\ n'[t] \in 0..m /\ no'[t] \in 0..l /\ size'[t] \in Nat
          /\ pc'[t] # "stat" /\ ~IsLink => size'[t] = l
          /\ res'[t] \in {NoText, formatted}
          /\ pc'[t] \notin {"stat", "read", "done"} => src'[t] = orig /\ res'[t] = formatted
          /\ pc'[t] \in {"stat", "read", "create", "backup", "open"} => file' = orig /\ n'[t] = 0 /\ no'[t] = 0
          /\ pc'[t] = "write" => file' = Torn(l, n'[t], 0) /\ no'[t] = 0
          /\ pc'[t] = "restore" => file' = Torn(l, n'[t], no'[t])
          /\ pc'[t] \in {"close", "succeeded"} => file' = formatted \/ H'
          /\ pc'[t] \in {"failed", "restored"} => file' = orig
          /\ pc'[t] = "done" => \/ result'[t] = "nil" /\ (file' = formatted \/ H')
                                \/ result'[t] = "error" /\ (warned'[t] \/ file' = orig)
          /\ warned'[t] => src'[t] = orig
          /\ pc'[t] \in {"stat", "read", "create", "backup", "open", "write", "restore", "close",
                "succeeded", "failed", "restored", "done"}
    <3>1. Len(orig)' = l /\ Len(formatted)' = m /\ NoText' = NoText
      BY <2>1 DEF l, m, NoText
    <3>2. Torn(Len(orig), n[t], 0)' = Torn(l, n'[t], 0)
      BY <3>1 DEF Torn
    <3>3. Torn(Len(orig), n[t], no[t])' = Torn(l, n'[t], no'[t])
      BY <3>1 DEF Torn
    <3> QED  BY <2>1, <2>stays, <2>primed, <3>1, <3>2, <3>3, SMTT(30) DEF Whole
  <2>before. /\ n[t] \in 0..m /\ no[t] \in 0..l /\ size[t] \in Nat
             /\ pc[t] # "stat" /\ ~IsLink => size[t] = l
             /\ res[t] \in {NoText, formatted}
             /\ pc[t] \notin {"stat", "read", "done"} => src[t] = orig /\ res[t] = formatted
             /\ pc[t] \in {"stat", "read", "create", "backup", "open"} => file = orig /\ n[t] = 0 /\ no[t] = 0
             /\ pc[t] = "write" => file = Torn(l, n[t], 0) /\ no[t] = 0
             /\ pc[t] = "restore" => file = Torn(l, n[t], no[t])
             /\ pc[t] \in {"close", "succeeded"} => file = formatted \/ H
             /\ pc[t] \in {"failed", "restored"} => file = orig
             /\ warned[t] => src[t] = orig
    BY <2>3, <2>hidden DEF Whole, l, m
  <2>silent. pc[t] # "done" => ~warned[t]
    BY <2>1 DEF BackedUp
  <2>8. CASE Stat(t)
    <3>1. pc[t] = "stat" /\ pc'[t] = "read" /\ file = orig
      BY <2>1, <2>before, <2>8 DEF Stat, Domains, Goto
    <3>2. n' = n /\ no' = no /\ file' = file /\ src' = src /\ res' = res /\ warned' = warned
      BY <2>8 DEF Stat, known
    <3>3. size'[t] \in Nat /\ (~IsLink => size'[t] = l)
      <4>1. PICK s \in IF IsLink THEN links ELSE {Len(file)} : size' = [size EXCEPT ![t] = s]
        BY <2>8 DEF Stat
      <4>2. size'[t] = s
        BY <2>1, <4>1 DEF Domains
      <4>3. links \subseteq Nat
        BY DEF Alone
      <4>4. Len(file) = l
        BY <3>1 DEF l
      <4> QED  BY <2>5, <4>1, <4>2, <4>3, <4>4
    <3> QED  BY <2>before, <2>silent, <3>1, <3>2, <3>3
  <2>9. CASE Read(t)
    <3>1. /\ pc[t] = "read" /\ n' = n /\ no' = no /\ file' = file /\ size' = size /\ warned' = warned
          /\ file = orig /\ n[t] = 0 /\ no[t] = 0
      BY <2>9, <2>before DEF Read
    <3>2. \/ pc'[t] = "done" /\ result'[t] = "error" /\ res' = res
          \/ pc'[t] = "done" /\ result'[t] = "nil" /\ file = formatted /\ res' = res
          \/ pc'[t] = "create" /\ src'[t] = orig /\ res'[t] = formatted
      <4>1. CASE Return(t, "error") /\ UNCHANGED res
        BY <2>1, <4>1 DEF Domains, Goto, Return
      <4>2. CASE Return(t, "nil") /\ file = formatted /\ UNCHANGED res
        BY <2>1, <4>2 DEF Domains, Goto, Return
      <4>3. CASE src' = [src EXCEPT ![t] = file] /\ Reformat(t, formatted)
        BY <2>1, <3>1, <4>3 DEF Domains, Goto, Reformat
      <4> QED  BY <2>9, <3>1, <4>1, <4>2, <4>3 DEF Read, known
    <3>3. size'[t] \in Nat /\ (~IsLink => size'[t] = l)
      BY <2>before, <3>1
    <3>4. file' = orig /\ n'[t] = 0 /\ no'[t] = 0 /\ ~warned'[t]
      BY <2>silent, <3>1
    <3> QED  BY <2>before, <3>1, <3>2, <3>3, <3>4
  <2>10. CASE ReadFails(t)
    BY <2>1, <2>before, <2>silent, <2>kept, <2>10 DEF ReadFails, known, Domains, Goto, Return
  <2>11. CASE CreateBackup(t)
    BY <2>1, <2>before, <2>silent, <2>kept, <2>11 DEF CreateBackup, known, Domains, Goto
  <2>12. CASE WriteBackup(t)
    BY <2>1, <2>before, <2>silent, <2>kept, <2>12 DEF WriteBackup, known
  <2>13. CASE CloseBackup(t)
    BY <2>1, <2>before, <2>silent, <2>kept, <2>13 DEF CloseBackup, known, Domains, Goto
  <2>14. CASE BackupFails(t)
    BY <2>1, <2>before, <2>silent, <2>kept, <2>14 DEF BackupFails, known, Domains, Goto, Return
  <2>15. CASE Open(t)
    <3>1. /\ pc[t] = "open" /\ n' = n /\ no' = no /\ file' = file /\ size' = size /\ src' = src /\ res' = res
          /\ pc'[t] \in {"write", "failed"}
      BY <2>1, <2>15 DEF Open, known, Domains, Goto
    <3>2. n[t] = 0 /\ no[t] = 0 /\ file = orig
      BY <2>before, <3>1
    <3>3. file = Torn(l, 0, 0)
      BY <2>5, <2>7, <3>2, NothingTorn
    <3> QED  BY <2>before, <2>silent, <2>kept, <3>1, <3>2, <3>3
  <2>16. CASE Write(t)
    <3>1. pc[t] = "write" /\ pc' = pc /\ no' = no /\ size' = size /\ src' = src /\ res' = res
      BY <2>16 DEF Write, known
    <3>2. PICK k \in (n[t] + 1)..m :
            file' = Overwrite(file, formatted, n[t], k) /\ n' = [n EXCEPT ![t] = k]
      BY <2>before, <2>16 DEF Write, known, m
    <3>3. n'[t] = k /\ k \in 0..m
      BY <2>1, <2>5, <2>6, <3>2 DEF Domains
    <3>4. file' = Overwrite(Torn(l, n[t], 0), Text("f", m), n[t], k)
      BY <2>before, <2>7, <3>1, <3>2
    <3>5. file' = Torn(l, k, 0)
      BY <2>5, <2>6, <3>2, <3>4, TornFurther
    <3> QED  BY <2>before, <2>silent, <2>kept, <3>1, <3>3, <3>5
  <2>17. CASE WriteFails(t)
    <3>1. /\ pc[t] = "write" /\ no' = no /\ size' = size /\ src' = src /\ res' = res /\ n' = n /\ file' = file
          /\ pc' = [pc EXCEPT ![t] = IF n[t] = 0 THEN "failed" ELSE "restore"]
      BY <2>17 DEF WriteFails, known, Goto
    <3>2. file = Torn(l, n[t], 0) /\ no[t] = 0
      BY <2>before, <3>1
    <3>3. n[t] = 0 => file = orig
      BY <2>5, <2>7, <3>2, NothingTorn
    <3>4. \/ pc'[t] = "failed" /\ n[t] = 0
          \/ pc'[t] = "restore"
      BY <2>1, <3>1 DEF Domains
    <3> QED  BY <2>before, <2>silent, <2>kept, <3>1, <3>2, <3>3, <3>4
  <2>18. CASE Written(t)
    <3>1. /\ pc[t] = "write" /\ no' = no /\ size' = size /\ n' = n /\ n[t] = m
          /\ src' = src /\ res' = res /\ warned' = warned
      BY <2>before, <2>18 DEF Written, m, known
    <3>2. file = Torn(l, n[t], 0) /\ no[t] = 0 /\ src[t] = orig
      BY <2>before, <3>1
    <3>3. \/ file' = Truncate(file, n[t]) /\ pc'[t] = "close"
          \/ file' = file /\ pc'[t] = "restore"
          \/ ~(n[t] < size[t]) /\ file' = file /\ pc'[t] = "close"
      <4>1. DOMAIN pc = Tasks
        BY DEF Domains
      <4>2. CASE n[t] < size[t]
        <5>1. \/ file' = Truncate(file, n[t]) /\ Goto(t, "close")
              \/ file' = file /\ Goto(t, IF n[t] = 0 THEN "failed" ELSE "restore")
          BY <2>18, <4>2 DEF Written
        <5>2. n[t] # 0
          BY <2>5, <3>1
        <5> QED  BY <2>1, <4>1, <5>1, <5>2 DEF Goto
      <4>3. CASE ~(n[t] < size[t])
        <5>1. file' = file /\ Goto(t, "close")
          BY <2>18, <4>3 DEF Written
        <5> QED  BY <2>1, <4>1, <4>3, <5>1 DEF Goto
      <4> QED  BY <4>2, <4>3
    <3>4. Truncate(file, n[t]) = formatted
      BY <2>5, <2>7, <3>1, <3>2, TornCut
    <3>5. ASSUME ~(n[t] < size[t])  PROVE file = formatted \/ H
      <4>1. CASE ~(n[t] < l)
        BY <2>5, <2>7, <3>1, <3>2, <4>1, TornCut
      <4>2. CASE n[t] < l
        <5>1. m < l /\ size[t] <= m
          BY <2>5, <2>before, <3>1, <3>5, <4>2
        <5>2. IsLink
          BY <2>5, <2>before, <3>1, <5>1
        <5> QED  BY <3>2, <5>1, <5>2 DEF H
      <4> QED  BY <4>1, <4>2
    <3>6. \/ pc'[t] = "close" /\ (file' = formatted \/ H)
          \/ file' = file /\ pc'[t] = "restore"
      BY <3>3, <3>4, <3>5
    <3>7. H' <=> H
      BY <2>kept, <3>1
    <3> QED  BY <2>before, <2>silent, <3>1, <3>2, <3>6, <3>7
  <2>19. CASE Close(t)
    <3>1. pc[t] = "close" /\ no' = no /\ size' = size /\ src' = src /\ res' = res /\ n' = n /\ file' = file
      BY <2>19 DEF Close, known
    <3>2. \/ pc'[t] = "succeeded"
          \/ pc'[t] = "done" /\ result'[t] = "error" /\ warned'[t]
      BY <2>1, <2>19 DEF Close, known, Domains, Goto, Return
    <3> QED  BY <2>before, <2>silent, <2>kept, <3>1, <3>2
  <2>20. CASE Remove(t)
    <3>1. /\ pc[t] \in {"failed", "succeeded"}
          /\ no' = no /\ size' = size /\ src' = src /\ res' = res /\ n' = n /\ file' = file /\ pc'[t] = "done"
          /\ result' = [result EXCEPT ![t] = IF pc[t] = "succeeded" THEN "nil" ELSE "error"]
      BY <2>1, <2>20 DEF Remove, known, Domains, Goto, Return
    <3>2. \/ pc[t] = "succeeded" /\ result'[t] = "nil"
          \/ pc[t] = "failed" /\ result'[t] = "error"
      BY <2>1, <3>1 DEF Domains
    <3> QED  BY <2>before, <2>silent, <2>kept, <3>1, <3>2
  <2>21. CASE Restore(t)
    <3>1. pc[t] = "restore" /\ pc' = pc /\ n' = n /\ size' = size /\ src' = src /\ res' = res
      BY <2>21 DEF Restore, known
    <3>2. PICK k \in (no[t] + 1)..l :
            file' = Overwrite(file, orig, no[t], k) /\ no' = [no EXCEPT ![t] = k]
      BY <2>before, <2>21 DEF Restore, known, l
    <3>3. no'[t] = k /\ k \in 0..l
      BY <2>1, <2>5, <2>6, <3>2 DEF Domains
    <3>4. file' = Overwrite(Torn(l, n[t], no[t]), Text("o", l), no[t], k)
      BY <2>before, <2>7, <3>1, <3>2
    <3>5. file' = Torn(l, n[t], k)
      BY <2>5, <2>6, <3>2, <3>4, TornBack
    <3> QED  BY <2>before, <2>silent, <2>kept, <3>1, <3>3, <3>5
  <2>22. CASE Restored(t)
    <3>1. /\ pc[t] = "restore" /\ pc'[t] = "restored" /\ n' = n /\ no' = no /\ size' = size /\ src' = src /\ res' = res
          /\ no[t] = l
          /\ file' = IF no[t] < n[t] THEN Truncate(file, no[t]) ELSE file
      BY <2>1, <2>before, <2>22 DEF Restored, known, Domains, Goto, l
    <3>2. file = Torn(l, n[t], l) /\ src[t] = orig
      BY <2>before, <3>1
    <3>3. l < n[t] => Truncate(file, l) = orig
      BY <2>5, <2>6, <2>7, <3>2, TornCut
    <3>4. ~(l < n[t]) => file = orig
      BY <2>5, <2>6, <2>7, <3>2, NothingTorn
    <3>5. file' = orig
      BY <3>1, <3>3, <3>4
    <3> QED  BY <2>before, <2>silent, <2>kept, <3>1, <3>2, <3>5
  <2>23. CASE CloseRestored(t)
    BY <2>1, <2>before, <2>silent, <2>kept, <2>23 DEF CloseRestored, known, Domains, Goto
  <2>24. CASE RestoreFails(t)
    <3>1. /\ pc[t] \in {"restore", "restored"} /\ n' = n /\ no' = no /\ size' = size /\ src' = src /\ res' = res
          /\ file' = file /\ pc'[t] = "done" /\ result'[t] = "error" /\ warned'[t]
      BY <2>1, <2>24 DEF RestoreFails, known, Domains, Goto, Return
    <3> QED  BY <2>before, <2>silent, <2>kept, <3>1
  <2> QED
    BY <1>1, <2>8, <2>9, <2>10, <2>11, <2>12, <2>13, <2>14, <2>15, <2>16, <2>17,
       <2>18, <2>19, <2>20, <2>21, <2>22, <2>23, <2>24 DEF Step
<1>2. ASSUME UNCHANGED vars  PROVE Alone'
  <2>1. /\ orig' = orig /\ formatted' = formatted /\ given' = given /\ file' = file /\ pc' = pc
        /\ size' = size /\ n' = n /\ no' = no /\ result' = result /\ warned' = warned
        /\ src' = src /\ res' = res /\ links' = links
    BY <1>2 DEF vars, texts, known
  <2>2. TextsTyped'
    BY <2>1 DEF Alone, TextsTyped, Text
  <2>3. ASSUME NEW t \in given  PROVE Whole(t)'
    <3>1. Whole(t)
      BY DEF Alone
    <3> QED  BY <2>1, <3>1 DEF Whole, Torn, Hidden, IsLink, NoText
  <2> QED  BY <2>1, <2>2, <2>3 DEF Alone
<1> QED  BY <1>1, <1>2 DEF Next, Done

LEMMA AloneAlways == ASSUME Solo PROVE Spec => [](Domains /\ BackedUp /\ Alone)
<1>1. Init => Domains /\ BackedUp /\ Alone
  BY DomainsInit, AloneInit DEF Init, BackedUp
<1>2. Domains /\ BackedUp /\ Alone /\ [Next]_vars => (Domains /\ BackedUp /\ Alone)'
  BY DomainsNext, BackedUpNext, AloneNext
<1> QED  BY <1>1, <1>2, PTL DEF Spec

\* gofmt.go:729, 736-738, 797: at every moment the file is one of the two texts,
\* whole, or its backup is the old one, but where the size of a link hides a tail:
\* one task is never disturbed, so that is the only exception NothingLost makes.
THEOREM LosesNothing == ASSUME Solo PROVE Spec => [](Undisturbed /\ NothingLost)
<1>1. Domains /\ BackedUp /\ Alone => Undisturbed
  BY DEF Alone, Whole, Undisturbed
<1>2. Domains /\ BackedUp /\ Alone => NothingLost
  <2> SUFFICES ASSUME Domains, BackedUp, Alone, ~TailStays, file \notin {orig, formatted}
               PROVE  \E t \in Tasks : bak[t] = orig
    BY DEF NothingLost
  <2>1. PICK t \in given : Whole(t)
    BY DEF Alone
  <2>2. t \in Tasks
    BY DEF Domains
  <2>3. ~Hidden(t)
    BY DEF TailStays, Hidden
  <2>4. (pc[t] \in {"write", "restore"} \/ warned[t]) /\ src[t] = orig
    BY <2>1, <2>3 DEF Whole
  <2> QED  BY <2>2, <2>4 DEF BackedUp
<1> QED  BY <1>1, <1>2, AloneAlways, PTL

\* gofmt.go:727, 752, 797: when writeFile reports success, the file is the
\* formatted text, to the last byte: always if it was given by its own name, and
\* if by a link, unless the size of the link hides a tail.
THEOREM SuccessUpdates ==
  ASSUME Solo PROVE Spec => [](Updated /\ (IsLink \/ AlwaysUpdated))
<1>1. Alone => Updated
  BY DEF Alone, Whole, Updated, AlwaysUpdated, Succeeded, Quiescent, Hidden, TailStays
<1>2. Alone => IsLink \/ AlwaysUpdated
  BY DEF Alone, Whole, AlwaysUpdated, Succeeded, Quiescent, Hidden
<1> QED  BY <1>1, <1>2, AloneAlways, PTL

\* gofmt.go:736-738, 756-790: when it fails without naming a backup, the file is
\* what it was, be it given by its own name or by a link.
THEOREM FailureKeeps == ASSUME Solo PROVE Spec => []FailureKeepsOriginal
<1>1. Alone => FailureKeepsOriginal
  BY DEF Alone, Whole, FailureKeepsOriginal, Quiescent
<1> QED  BY <1>1, AloneAlways, PTL

================================================================================
