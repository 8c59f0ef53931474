------------------------- MODULE FileDescriptorsProofs -------------------------
(***************************************************************************)
(* fdSem bounds the open descriptors (FileDescriptors), for any number of  *)
(* tasks, any capacity and any number of failing calls: every slot is held *)
(* for a descriptor, for one about to be opened, or lost to a failed open. *)
(***************************************************************************)
EXTENDS FileDescriptors, FiniteSetTheorems, TLAPS

------------------------------------------------------------------------------
(* Counting *)

\* The sets of tasks that hold a descriptor, and that are about to.
Opened  == {"reading", "modfile", "backup", "rewriting"}
Holds(p) == IF p \in Opened THEN 1 ELSE 0
Opens(p) == IF p = "opening" THEN 1 ELSE 0
Holding == {i \in Tasks : pc[i] \in Opened}
Opening == {i \in Tasks : pc[i] = "opening"}

LEMMA TasksFinite == IsFiniteSet(Tasks) /\ N \in Nat
<1>1. N \in Nat /\ 1 \in Int /\ N \in Int
  BY NAssumption
<1> QED  BY <1>1, FS_Interval DEF Tasks

LEMMA Counted ==
  ASSUME NEW S \in SUBSET Tasks
  PROVE  IsFiniteSet(S) /\ Cardinality(S) \in Nat
BY TasksFinite, FS_Subset, FS_CardinalityType

LEMMA CountedStep ==
  ASSUME NEW S \in SUBSET Tasks, NEW i \in Tasks
  PROVE  /\ Cardinality(S \union {i}) = IF i \in S THEN Cardinality(S) ELSE Cardinality(S) + 1
         /\ Cardinality(S \ {i}) = IF i \in S THEN Cardinality(S) - 1 ELSE Cardinality(S)
BY Counted, FS_AddElement, FS_RemoveElement

\* What a task's step does to the counts.
LEMMA GotoCounts ==
  ASSUME DOMAIN pc = Tasks, NEW i \in Tasks, NEW p, Goto(i, p)
  PROVE  /\ Cardinality(Holding)' = Cardinality(Holding) - Holds(pc[i]) + Holds(p)
         /\ Cardinality(Opening)' = Cardinality(Opening) - Opens(pc[i]) + Opens(p)
         /\ Cardinality(Holding) \in Nat /\ Cardinality(Opening) \in Nat
<1>1. /\ Holding \in SUBSET Tasks /\ Holding \ {i} \in SUBSET Tasks
      /\ Opening \in SUBSET Tasks /\ Opening \ {i} \in SUBSET Tasks
  BY DEF Holding, Opening
<1>2. Cardinality(Holding) \in Nat /\ Cardinality(Opening) \in Nat
  BY <1>1, Counted
<1>3. pc'[i] = p /\ \A j \in Tasks \ {i} : pc'[j] = pc[j]
  BY DEF Goto
<1>4. Cardinality(Holding)' = Cardinality(Holding \ {i}) + Holds(p)
  <2>1. CASE p \in Opened
    <3>1. Holding' = (Holding \ {i}) \union {i}
      BY <1>3, <2>1 DEF Holding, Opened
    <3> QED  BY <1>1, <2>1, <3>1, CountedStep DEF Holds, Opens
  <2>2. CASE p \notin Opened
    <3>1. Holding' = Holding \ {i}
      BY <1>3, <2>2 DEF Holding, Opened
    <3>2. Cardinality(Holding \ {i}) \in Nat
      BY <1>1, Counted
    <3> QED  BY <2>2, <3>1, <3>2 DEF Holds, Opens
  <2> QED  BY <2>1, <2>2
<1>5. Cardinality(Opening)' = Cardinality(Opening \ {i}) + Opens(p)
  <2>1. CASE p = "opening"
    <3>1. Opening' = (Opening \ {i}) \union {i}
      BY <1>3, <2>1 DEF Opening
    <3> QED  BY <1>1, <2>1, <3>1, CountedStep DEF Holds, Opens
  <2>2. CASE p # "opening"
    <3>1. Opening' = Opening \ {i}
      BY <1>3, <2>2 DEF Opening
    <3>2. Cardinality(Opening \ {i}) \in Nat
      BY <1>1, Counted
    <3> QED  BY <2>2, <3>1, <3>2 DEF Holds, Opens
  <2> QED  BY <2>1, <2>2
<1>6. Cardinality(Holding \ {i}) = Cardinality(Holding) - Holds(pc[i])
  <2>1. i \in Holding <=> pc[i] \in Opened
    BY DEF Holding
  <2>2. Cardinality(Holding \ {i}) = IF i \in Holding THEN Cardinality(Holding) - 1 ELSE Cardinality(Holding)
    BY <1>1, CountedStep
  <2> QED  BY <1>2, <2>1, <2>2 DEF Holds
<1>7. Cardinality(Opening \ {i}) = Cardinality(Opening) - Opens(pc[i])
  <2>1. i \in Opening <=> pc[i] = "opening"
    BY DEF Opening
  <2>2. Cardinality(Opening \ {i}) = IF i \in Opening THEN Cardinality(Opening) - 1 ELSE Cardinality(Opening)
    BY <1>1, CountedStep
  <2> QED  BY <1>2, <2>1, <2>2 DEF Opens
<1> QED  BY <1>2, <1>4, <1>5, <1>6, <1>7

------------------------------------------------------------------------------
(* The inductive invariant *)

\* Where the parts are that the counts depend on.
Placed ==
  /\ slots \in Nat /\ slots <= Cap
  /\ open \in Int
  /\ added \in 0..N
  /\ DOMAIN pc = Tasks
  /\ \A i \in Tasks : i > added => pc[i] = "idle"
  /\ lost \in SUBSET Tasks
  /\ \A i \in lost : pc[i] \in {"ending", "done"}

Failed == IF profile = "failed" THEN 1 ELSE 0

\* What main has open: a go.mod file and the cpu profile.
MainOpen ==
  (IF main = "modfile" THEN 1 ELSE 0)
  + (IF profile = "created" /\ main \in {"walking", "looking", "modfile"} THEN 1 ELSE 0)

\* Every descriptor and every slot is somebody's.
Balanced ==
  /\ open = Cardinality(Holding) + MainOpen
  /\ slots = open + Cardinality(Opening) + Cardinality(lost) + Failed

IInv == Placed /\ Balanced

LEMMA InvInit == Init => IInv
<1> SUFFICES ASSUME Init  PROVE IInv
  OBVIOUS
<1>1. Holding = {} /\ Opening = {} /\ lost = {}
  BY DEF Init, Holding, Opening, Opened
<1>2. Cardinality({}) = 0
  BY FS_EmptySet
<1>3. Failed = 0 /\ MainOpen = 0
  BY DEF Init, Failed, MainOpen
<1>4. Balanced
  BY <1>1, <1>2, <1>3 DEF Init, Balanced
<1>5. N \in Nat /\ Cap \in Nat
  BY NAssumption, CapAssumption
<1>6. Placed
  BY <1>5 DEF Init, Placed, Tasks
<1> QED  BY <1>4, <1>6 DEF IInv

\* Main's steps change no task, but for the one that AddFile starts.
LEMMA MainInv ==
  ASSUME IInv, MainStep
  PROVE  IInv'
<1>1. Cardinality(Holding) \in Nat /\ Cardinality(Opening) \in Nat /\ Cardinality(lost) \in Nat
  BY Counted DEF Holding, Opening, IInv, Placed
<1>2. slots \in Nat /\ slots <= Cap /\ open \in Int /\ Cap \in Nat /\ N \in Nat
  BY NAssumption, CapAssumption DEF IInv, Placed
<1>3. ASSUME AddFile  PROVE IInv'
  <2> DEFINE i == added + 1
  <2>1. i \in Tasks /\ i > added /\ added \in Nat
    BY <1>2, <1>3 DEF AddFile, IInv, Placed, Tasks
  <2>2. pc[i] = "idle" /\ Goto(i, "read")
    BY <1>3, <2>1 DEF AddFile, IInv, Placed, Goto
  <2>3. added' \in 0..N /\ \A j \in Tasks : j > added' => j # i /\ j > added
    BY <1>2, <1>3, <2>1 DEF AddFile, Tasks
  <2>4. i \notin lost
    BY <2>2 DEF IInv, Placed
  <2> HIDE DEF i
  <2>5. DOMAIN pc = Tasks
    BY DEF IInv, Placed
  <2>6. Cardinality(Holding)' = Cardinality(Holding) /\ Cardinality(Opening)' = Cardinality(Opening)
    BY <1>1, <2>1, <2>2, <2>5, GotoCounts DEF Holds, Opens, Opened
  <2>7. pc'[i] = "read" /\ \A j \in Tasks \ {i} : pc'[j] = pc[j]
    BY <2>1, <2>2, <2>5 DEF Goto
  <2>8. Placed'
    BY <1>3, <2>2, <2>3, <2>4, <2>7 DEF AddFile, IInv, Placed, Goto
  <2>9. Balanced'
    BY <1>3, <2>6 DEF AddFile, IInv, Balanced, MainOpen, Failed
  <2> QED  BY <2>8, <2>9 DEF IInv
<1>4. ASSUME pc' = pc, lost' = lost, added' = added,
             slots' \in Nat, slots' <= Cap, open' \in Int,
             open' - open = MainOpen' - MainOpen,
             slots' - slots = open' - open + Failed' - Failed
      PROVE  IInv'
  <2>1. Holding' = Holding /\ Opening' = Opening
    BY <1>4 DEF Holding, Opening
  <2>2. Placed'
    BY <1>4 DEF IInv, Placed
  <2>3. MainOpen \in Nat /\ MainOpen' \in Nat
    BY DEF MainOpen, Failed
  <2>4. Balanced'
    <3>1. open' = Cardinality(Holding) + MainOpen'
      <4>1. open = Cardinality(Holding) + MainOpen
        BY DEF IInv, Balanced
      <4> QED  BY <1>1, <1>2, <1>4, <2>3, <4>1
    <3>2. Failed \in Nat /\ Failed' \in Nat
      BY DEF Failed
    <3>3. slots' = open' + Cardinality(Opening) + Cardinality(lost) + Failed'
      BY <1>1, <1>2, <1>4, <3>2 DEF IInv, Balanced
    <3> QED  BY <1>4, <2>1, <3>1, <3>3 DEF Balanced
  <2> QED  BY <2>2, <2>4 DEF IInv
<1>5. CASE StartWalk
  BY <1>2, <1>4, <1>5 DEF StartWalk, MainOpen, Failed
<1>6. CASE CreateProfile
  BY <1>2, <1>4, <1>6 DEF CreateProfile, Acquire, MainOpen, Failed
<1>7. CASE LookUp
  BY <1>2, <1>4, <1>7 DEF LookUp, MainOpen, Failed
<1>8. CASE MainOpenMod
  BY <1>2, <1>4, <1>8 DEF MainOpenMod, Acquire, MainOpen, Failed
<1>9. CASE MainCloseMod
  <2>1. slots >= 1
    BY <1>1, <1>2, <1>9 DEF MainCloseMod, IInv, Balanced, MainOpen, Failed
  <2> QED  BY <1>2, <1>4, <1>9, <2>1 DEF MainCloseMod, Release, MainOpen, Failed
<1>10. CASE LookedUp
  BY <1>2, <1>4, <1>10 DEF LookedUp, MainOpen, Failed
<1>11. CASE WalkDone
  <2>1. profile = "created" => slots >= 1
    BY <1>1, <1>2, <1>11 DEF WalkDone, IInv, Balanced, MainOpen, Failed
  <2> QED  BY <1>2, <1>4, <1>11, <2>1 DEF WalkDone, Release, MainOpen, Failed
<1>12. CASE Exit
  BY <1>2, <1>4, <1>12 DEF Exit, MainOpen, Failed
<1> QED  BY <1>3, <1>5, <1>6, <1>7, <1>8, <1>9, <1>10, <1>11, <1>12 DEF MainStep

NewlyLost == IF lost' = lost THEN 0 ELSE 1

\* A task's step, by what it does to the counts.
LEMMA TaskInv ==
  ASSUME IInv, NEW i \in Tasks, TaskStep(i)
  PROVE  IInv'
<1>1. Cardinality(Holding) \in Nat /\ Cardinality(Opening) \in Nat /\ Cardinality(lost) \in Nat
  BY Counted DEF Holding, Opening, IInv, Placed
<1>2. slots \in Nat /\ slots <= Cap /\ open \in Int /\ Cap \in Nat /\ DOMAIN pc = Tasks
  BY CapAssumption DEF IInv, Placed
<1>3. main' = main /\ profile' = profile /\ added' = added /\ MainOpen' = MainOpen /\ MainOpen \in Nat
  BY DEF TaskStep, MainRests, MainOpen
<1>4. Failed \in Nat /\ Failed' = Failed
  BY <1>3 DEF Failed
<1>5. ASSUME NEW p, Goto(i, p), pc[i] # "idle",
             i \in lost => p \in {"ending", "done"},
             \/ lost' = lost
             \/ lost' = lost \union {i} /\ i \notin lost /\ p = "ending",
             slots' \in Nat, slots' <= Cap, open' \in Int,
             open' - open = Holds(p) - Holds(pc[i]),
             slots' - slots = open' - open + Opens(p) - Opens(pc[i])
                              + NewlyLost
      PROVE  IInv'
  <2>1. /\ Cardinality(Holding)' = Cardinality(Holding) - Holds(pc[i]) + Holds(p)
        /\ Cardinality(Opening)' = Cardinality(Opening) - Opens(pc[i]) + Opens(p)
    BY <1>2, <1>5, GotoCounts
  <2>2. Cardinality(lost)' = Cardinality(lost) + NewlyLost
    <3>1. CASE lost' = lost
      BY <1>1, <3>1 DEF NewlyLost
    <3>2. CASE lost' = lost \union {i} /\ i \notin lost
      <4>1. lost \in SUBSET Tasks /\ lost' # lost
        BY <3>2 DEF IInv, Placed
      <4>2. Cardinality(lost \union {i}) = Cardinality(lost) + 1
        BY <3>2, <4>1, CountedStep
      <4> QED  BY <3>2, <4>1, <4>2 DEF NewlyLost
    <3> QED  BY <1>5, <3>1, <3>2
  <2>3. pc'[i] = p /\ DOMAIN pc' = Tasks /\ \A j \in Tasks \ {i} : pc'[j] = pc[j]
    BY <1>2, <1>5 DEF Goto
  <2>4. Placed'
    BY <1>3, <1>5, <2>3 DEF IInv, Placed
  <2>5. Balanced'
    <3> DEFINE h == Holds(pc[i])
               h2 == Holds(p)
               o == Opens(pc[i])
               o2 == Opens(p)
               l == NewlyLost
    <3>1. h \in Nat /\ h2 \in Nat /\ o \in Nat /\ o2 \in Nat /\ l \in Nat
      BY DEF Holds, Opens, NewlyLost
    <3>2. /\ open' - open = h2 - h
          /\ slots' - slots = open' - open + o2 - o + l
          /\ Cardinality(Holding)' = Cardinality(Holding) - h + h2
          /\ Cardinality(Opening)' = Cardinality(Opening) - o + o2
          /\ Cardinality(lost)' = Cardinality(lost) + l
      BY <1>5, <2>1, <2>2
    <3> HIDE DEF h, h2, o, o2, l
    <3>3. open' = Cardinality(Holding)' + MainOpen'
      <4>1. open = Cardinality(Holding) + MainOpen
        BY DEF IInv, Balanced
      <4>2. open' \in Int
        BY <1>5
      <4> QED  BY <1>1, <1>2, <1>3, <3>1, <3>2, <4>1, <4>2
    <3>4. slots' = open' + Cardinality(Opening)' + Cardinality(lost)' + Failed
      <4>1. slots = open + Cardinality(Opening) + Cardinality(lost) + Failed
        BY DEF IInv, Balanced
      <4>2. open' \in Int /\ slots' \in Nat
        BY <1>5
      <4> QED  BY <1>1, <1>2, <1>4, <3>1, <3>2, <4>1, <4>2
    <3> QED  BY <1>4, <3>3, <3>4 DEF Balanced
  <2> QED  BY <2>4, <2>5 DEF IInv
\* Who holds a descriptor or opens one has a slot, and has lost none.
<1>6. pc[i] \in Opened \union {"opening"} => slots >= 1 /\ i \notin lost
  <2>1. ASSUME pc[i] \in Opened  PROVE Cardinality(Holding) >= 1
    <3>1. i \in Holding /\ Holding \in SUBSET Tasks
      BY <2>1 DEF Holding
    <3>2. Cardinality(Holding \ {i}) = Cardinality(Holding) - 1
      BY <3>1, CountedStep
    <3>3. Cardinality(Holding \ {i}) \in Nat
      BY <3>1, Counted
    <3> QED  BY <1>1, <3>2, <3>3
  <2>2. ASSUME pc[i] = "opening"  PROVE Cardinality(Opening) >= 1
    <3>1. i \in Opening /\ Opening \in SUBSET Tasks
      BY <2>2 DEF Opening
    <3>2. Cardinality(Opening \ {i}) = Cardinality(Opening) - 1
      BY <3>1, CountedStep
    <3>3. Cardinality(Opening \ {i}) \in Nat
      BY <3>1, Counted
    <3> QED  BY <1>1, <3>2, <3>3
  <2>3. Cardinality(Holding) + Cardinality(Opening) <= slots
    BY <1>1, <1>2, <1>3, <1>4 DEF IInv, Balanced
  <2>4. pc[i] \in Opened \union {"opening"} => i \notin lost
    BY DEF IInv, Placed, Opened
  <2> QED  BY <1>1, <1>2, <2>1, <2>2, <2>3, <2>4
<1>7. pc[i] # "ending" /\ pc[i] # "done" => i \notin lost
  BY DEF IInv, Placed
<1>8. CASE ReadFile(i)
  BY <1>2, <1>5, <1>7, <1>8 DEF ReadFile, Acquire, Holds, Opens, NewlyLost, Opened
<1>9. CASE Open(i)
  BY <1>2, <1>5, <1>7, <1>9 DEF Open, Holds, Opens, NewlyLost, Opened
<1>10. CASE OpenFails(i)
  <2>1. lost' = lost \union {i} /\ i \notin lost /\ lost' # lost
    BY <1>7, <1>10 DEF OpenFails
  <2> QED  BY <1>2, <1>5, <1>10, <2>1 DEF OpenFails, Holds, Opens, NewlyLost, Opened
<1>11. CASE CloseRead(i)
  <2>1. PICK p \in {"ending", "module"} : Goto(i, p)
    BY <1>11 DEF CloseRead
  <2> QED  BY <1>2, <1>5, <1>6, <1>7, <1>11, <2>1 DEF CloseRead, Release, Holds, Opens, NewlyLost, Opened
<1>12. CASE OpenMod(i)
  BY <1>2, <1>5, <1>7, <1>12 DEF OpenMod, Acquire, Holds, Opens, NewlyLost, Opened
<1>13. CASE CloseMod(i)
  BY <1>2, <1>5, <1>6, <1>7, <1>13 DEF CloseMod, Release, Holds, Opens, NewlyLost, Opened
<1>14. CASE Format(i)
  <2>1. PICK p \in {"ending", "listing", "saving"} : Goto(i, p)
    BY <1>14 DEF Format
  <2> QED  BY <1>2, <1>5, <1>7, <1>14, <2>1 DEF Format, Holds, Opens, NewlyLost, Opened
<1>15. CASE List(i)
  <2>1. PICK p \in {"ending", "saving"} : Goto(i, p)
    BY <1>15 DEF List
  <2> QED  BY <1>2, <1>5, <1>7, <1>15, <2>1 DEF List, Holds, Opens, NewlyLost, Opened
<1>16. CASE OpenBackup(i)
  BY <1>2, <1>5, <1>7, <1>16 DEF OpenBackup, Acquire, Holds, Opens, NewlyLost, Opened
<1>17. CASE CloseBackup(i)
  <2>1. PICK p \in {"ending", "rewrite"} : Goto(i, p)
    BY <1>17 DEF CloseBackup
  <2> QED  BY <1>2, <1>5, <1>6, <1>7, <1>17, <2>1 DEF CloseBackup, Release, Holds, Opens, NewlyLost, Opened
<1>18. CASE OpenRewrite(i)
  BY <1>2, <1>5, <1>7, <1>18 DEF OpenRewrite, Acquire, Holds, Opens, NewlyLost, Opened
<1>19. CASE CloseRewrite(i)
  BY <1>2, <1>5, <1>6, <1>7, <1>19 DEF CloseRewrite, Release, Holds, Opens, NewlyLost, Opened
<1>20. CASE End(i)
  BY <1>2, <1>5, <1>20 DEF End, Holds, Opens, NewlyLost, Opened
<1> QED
  BY <1>8, <1>9, <1>10, <1>11, <1>12, <1>13, <1>14, <1>15, <1>16, <1>17, <1>18, <1>19, <1>20 DEF TaskStep

LEMMA InvNext == IInv /\ [Next]_vars => IInv'
<1> SUFFICES ASSUME IInv, [Next]_vars  PROVE IInv'
  OBVIOUS
<1>1. ASSUME UNCHANGED vars  PROVE IInv'
  BY <1>1 DEF vars, IInv, Placed, Balanced, MainOpen, Failed, Holding, Opening
<1> QED  BY <1>1, MainInv, TaskInv DEF Next, Exited

\* gofmt.go:102-110: at no time are more descriptors open than fdSem has places,
\* less those that failed opens took away for good.
THEOREM DescriptorsAreBounded == Spec => []DescriptorsBounded
<1>1. IInv => DescriptorsBounded
  <2> SUFFICES ASSUME IInv  PROVE DescriptorsBounded
    OBVIOUS
  <2>1. Cardinality(Holding) \in Nat /\ Cardinality(Opening) \in Nat /\ Cardinality(lost) \in Nat
    BY Counted DEF Holding, Opening, IInv, Placed
  <2>2. MainOpen \in Nat /\ Failed \in Nat
    BY DEF MainOpen, Failed
  <2>3. slots \in Nat /\ slots <= Cap /\ open \in Int /\ Cap \in Nat
    BY CapAssumption DEF IInv, Placed
  <2> QED  BY <2>1, <2>2, <2>3 DEF IInv, Balanced, DescriptorsBounded
<1> QED  BY InvInit, InvNext, <1>1, PTL DEF Spec

================================================================================
