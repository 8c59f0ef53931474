--------------------------- MODULE SequencerProofs ---------------------------
(***************************************************************************)
(* Proofs about the sequencer, for any number of tasks, any capacity and   *)
(* any set of weights: who owns the reporterState, in which order output   *)
(* comes out, what the exit status says, that the sequencer implements     *)
(* tasks taking turns (SerialReport), and what runs beside an exclusive    *)
(* task.  None of them needs fairness.                                     *)
(***************************************************************************)
EXTENDS Sequencer, FiniteSetTheorems, TLAPS

\* The reporterState travels down the chain: whoever took it knows that all
\* the earlier tasks passed it on, and channel c is full exactly when it was
\* filled and the task after it has not received yet.
Chain ==
  /\ \A i \in Tasks : state[i] => \A j \in 1..(i - 1) : Passed(j)
  /\ \A i \in Tasks : Passed(i) => state[i]
  /\ \A c \in 0..N : chan[c] <=> /\ c = 0 \/ Passed(c)
                                 /\ c < N => ~state[c + 1]

\* The life of one task, as far as the other invariants need it.
Life ==
  /\ \A i \in Tasks : i > added => pc[i] = "idle" /\ ~state[i]
  /\ \A i \in Tasks : pc[i] \in {"idle", "asking", "running"} => err[i] = "nil"
  /\ \A i \in Tasks : pc[i] = "failed" => err[i] # "nil"
  /\ \A i \in Tasks : kind[i] = "exit" => i = added /\ err[i] = "nil"
  /\ main = "walking" => answer = -1 /\ \A i \in Tasks : kind[i] # "exit"
  /\ main = "adding" => answer = -1 /\ added \in Tasks /\ pc[added] = "asking"
  /\ \A i \in Tasks : kind[i] = "exit" /\ pc[i] = "running" => answer = -1

\* Only tasks that took the reporterState have printed, and only tasks that
\* reported have printed an error.
Printed ==
  \A a \in 1..Len(log) :
    /\ state[log[a].task]
    /\ log[a].kind = "err" => Reported(log[a].task)

\* The exit code is set by the first report and never cleared.
Counted == exitCode # 0 <=> \E i \in Tasks : Reported(i)

IInv ==
  /\ TypeOK
  /\ Chain
  /\ Life
  /\ Printed
  /\ Counted
  /\ OutputInOrder
  /\ ExitStatusFaithful

------------------------------------------------------------------------------

LEMMA ClampInt == \A w \in Int : Clamp(w) \in Int
  BY MaxWeightAssumption DEF Clamp

LEMMA InitIInv == Init => IInv
  <1> SUFFICES ASSUME Init PROVE IInv
    OBVIOUS
  <1> USE NAssumption DEF Init, Tasks
  <1>1. TypeOK
    BY MaxWritesAssumption DEF TypeOK, Kinds, PCs
  <1>2. Chain
    <2>1. \A c \in 0..N : chan[c] <=> c = 0
      OBVIOUS
    <2>2. \A i \in Tasks : ~Passed(i) /\ ~state[i]
      BY DEF Passed
    <2>3. \A c \in 0..N : c = 0 \/ c \in Tasks
      OBVIOUS
    <2>4. \A c \in 0..N : c < N => c + 1 \in Tasks
      OBVIOUS
    <2> QED
      BY <2>1, <2>2, <2>3, <2>4, Zenon DEF Chain
  <1>3. Life
    BY DEF Life
  <1>4. Printed /\ OutputInOrder
    BY DEF Printed, OutputInOrder
  <1>5. Counted /\ ExitStatusFaithful
    BY DEF Counted, Reported, ExitStatusFaithful
  <1> QED
    BY <1>1, <1>2, <1>3, <1>4, <1>5 DEF IInv

LEMMA WeightInt ==
  ASSUME TypeOK, NEW i \in Tasks
  PROVE  weight[i] \in Int /\ Clamp(weight[i]) \in Int
  <1>1. 0 \in Int
    OBVIOUS
  <1>2. \A w \in Weights \union {0} : w \in Int
    BY <1>1, WeightsAssumption, Zenon
  <1>3. weight[i] \in Weights \union {0}
    BY DEF TypeOK
  <1> QED
    BY <1>2, <1>3, ClampInt, Zenon

LEMMA AppendEntry ==
  ASSUME log \in Seq(Entries), NEW i \in Tasks, NEW k \in {"out", "err"}
  PROVE  Append(log, [task |-> i, kind |-> k]) \in Seq(Entries)
  <1>1. [task |-> i, kind |-> k] \in Entries
    BY DEF Entries
  <1> QED
    BY <1>1

LEMMA AddType ==
  ASSUME TypeOK, NEW w \in Weights \union {0}, NEW k \in Kinds, Add(w, k)
  PROVE  TypeOK'
  <1>2. added + 1 \in Tasks /\ added' \in 0..N
    BY NAssumption DEF Add, TypeOK, Tasks
  <1>3. weight' \in [Tasks -> Weights \union {0}] /\ kind' \in [Tasks -> Kinds]
    BY <1>2 DEF Add, TypeOK
  <1>4. pc' \in [Tasks -> PCs]
    BY <1>2 DEF Add, TypeOK, PCs
  <1> QED
    BY <1>2, <1>3, <1>4 DEF Add, TypeOK, reportVars

LEMMA AcquireType == TypeOK /\ Life /\ Acquire => TypeOK'
  <1> SUFFICES ASSUME TypeOK, Life, Acquire PROVE TypeOK'
    OBVIOUS
  <1>1. added \in Tasks
    BY DEF Acquire, Life
  <1>2. Clamp(weight[added]) \in Int
    BY <1>1, WeightInt
  <1>3. cur' \in Int /\ pc' \in [Tasks -> PCs]
    <2>1. cur' = cur + Clamp(weight[added]) /\ cur \in Int
      BY DEF Acquire, TypeOK
    <2>2. pc' = [pc EXCEPT ![added] = "running"] /\ pc \in [Tasks -> PCs]
      BY DEF Acquire, TypeOK
    <2>3. cur' \in Int
      BY <1>2, <2>1
    <2>4. pc' \in [Tasks -> PCs]
      BY <2>2 DEF PCs
    <2> QED
      BY <2>3, <2>4
  <1>4. main' \in {"walking", "adding", "waiting", "exited"}
    BY DEF Acquire
  <1> QED
    BY <1>3, <1>4 DEF Acquire, TypeOK, reportVars

LEMMA TypeStep == TypeOK /\ Life /\ [Next]_vars => TypeOK'
  <1> SUFFICES ASSUME TypeOK, Life, [Next]_vars PROVE TypeOK'
    OBVIOUS
  <1> USE NAssumption, MaxWritesAssumption, WeightsAssumption
      DEF TypeOK, Tasks, Kinds, PCs, taskVars, reportVars
  <1>1. ASSUME NEW w \in Weights, AddFile(w) PROVE TypeOK'
    BY <1>1, AddType DEF AddFile
  <1>2. CASE AddReport
    BY <1>2, AddType DEF AddReport
  <1>3. CASE GetExitCode
    BY <1>3, AddType DEF GetExitCode
  <1>4. CASE Exit
    BY <1>4 DEF Exit
  <1>5. ASSUME NEW i \in Tasks, GetState(i) PROVE TypeOK'
    BY <1>5 DEF GetState
  <1>6. ASSUME NEW i \in Tasks, Write(i) PROVE TypeOK'
    <2>1. log' \in Seq(Entries)
      BY <1>6, AppendEntry DEF Write
    <2>2. writes' \in [Tasks -> 0..MaxWrites]
      BY <1>6 DEF Write
    <2> QED
      BY <1>6, <2>1, <2>2 DEF Write
  <1>7. ASSUME NEW i \in Tasks, ExitCode(i) PROVE TypeOK'
    BY <1>7 DEF ExitCode
  <1>8. ASSUME NEW i \in Tasks, NEW e \in {"nil", "differs", "error"},
               Return(i, e)
        PROVE  TypeOK'
    BY <1>8 DEF Return
  <1>9. ASSUME NEW i \in Tasks, Report(i) PROVE TypeOK'
    <2>1. exitCode' \in 0..2
      BY <1>9 DEF Report
    <2>2. log' = log \/ log' = Append(log, [task |-> i, kind |-> "err"])
      BY <1>9 DEF Report
    <2>3. log' \in Seq(Entries)
      <3>1. log \in Seq(Entries) /\ i \in Tasks /\ "err" \in {"out", "err"}
        OBVIOUS
      <3>2. Append(log, [task |-> i, kind |-> "err"]) \in Seq(Entries)
        BY ONLY <3>1, AppendEntry
      <3> QED  BY <2>2, <3>1, <3>2
    <2>4. pc' \in [Tasks -> PCs]
      BY <1>9 DEF Report
    <2> QED
      BY <1>9, <2>1, <2>3, <2>4 DEF Report
  <1>10. ASSUME NEW i \in Tasks, Pass(i) PROVE TypeOK'
    BY <1>10 DEF Pass
  <1>11. ASSUME NEW i \in Tasks, Release(i) PROVE TypeOK'
    <2>1. Clamp(weight[i]) \in Int
      BY WeightInt
    <2> QED
      BY <1>11, <2>1 DEF Release
  <1>12. CASE UNCHANGED vars
    BY <1>12 DEF vars
  <1>13. CASE Acquire
    BY <1>13, AcquireType
  <1> QED
    BY <1>1, <1>2, <1>3, <1>4, <1>5, <1>6, <1>7, <1>8, <1>9, <1>10, <1>11,
       <1>12, <1>13 DEF Next, MainStep, TaskStep, Exited

------------------------------------------------------------------------------

\* Every step that is not Pass leaves the set of passed tasks alone.
LEMMA AddChain ==
  ASSUME TypeOK, Chain, Life, NEW w \in Int, NEW k \in Kinds, Add(w, k)
  PROVE  Chain'
  <1>1. added + 1 \in Tasks /\ pc[added + 1] = "idle"
    BY NAssumption DEF TypeOK, Life, Add, Tasks
  <1>2. \A i \in Tasks : Passed(i)' <=> Passed(i)
    BY <1>1 DEF Add, Passed, TypeOK
  <1>3. UNCHANGED <<state, chan>>
    BY DEF Add
  <1> QED
    BY <1>2, <1>3, NAssumption DEF Chain, Tasks

\* Acquiring is invisible to everything but the semaphore.
LEMMA AcquireHidden ==
  ASSUME TypeOK, Life, Acquire
  PROVE  /\ UNCHANGED <<err, state, chan, log, exitCode, answer>>
         /\ \A i \in Tasks : (Passed(i)' <=> Passed(i)) /\ (Reported(i)' <=> Reported(i))
  <1>1. pc' = [pc EXCEPT ![added] = "running"] /\ pc[added] = "asking"
    BY DEF Acquire, Life
  <1>2. UNCHANGED <<err, state, chan, log, exitCode, answer>>
    BY DEF Acquire, reportVars
  <1> QED
    BY <1>1, <1>2 DEF Passed, Reported, TypeOK

LEMMA ChainStep == TypeOK /\ Chain /\ Life /\ [Next]_vars => Chain'
  <1> SUFFICES ASSUME TypeOK, Chain, Life, [Next]_vars PROVE Chain'
    OBVIOUS
  <1>1. ASSUME NEW w \in Weights, AddFile(w) PROVE Chain'
    BY <1>1, AddChain, WeightsAssumption DEF AddFile, Kinds
  <1>2. CASE AddReport
    BY <1>2, AddChain DEF AddReport, Kinds
  <1>3. CASE GetExitCode
    BY <1>3, AddChain DEF GetExitCode, Kinds
  <1>4. ASSUME UNCHANGED <<state, chan>>, \A i \in Tasks : Passed(i)' <=> Passed(i)
        PROVE  Chain'
    BY <1>4, NAssumption DEF Chain, Tasks
  <1>5. CASE Exit \/ UNCHANGED vars
    BY <1>5, <1>4 DEF Exit, vars, taskVars, Passed
  <1>6. ASSUME NEW i \in Tasks, GetState(i) PROVE Chain'
    <2>1. UNCHANGED pc /\ ~Passed(i) /\ i - 1 \in 0..N
      BY <1>6, NAssumption DEF GetState, Passed, Tasks
    <2>2. \A j \in Tasks : Passed(j)' <=> Passed(j)
      BY <2>1 DEF Passed
    <2>3. /\ state' = [state EXCEPT ![i] = TRUE]
          /\ chan' = [chan EXCEPT ![i - 1] = FALSE]
          /\ chan[i - 1] /\ ~state[i]
      BY <1>6 DEF GetState
    <2>4. \A j \in 1..(i - 1) : Passed(j)
      <3>1. i - 1 = 0 \/ Passed(i - 1)
        BY <2>1, <2>3, Zenon DEF Chain
      <3>2. CASE i - 1 = 0
        BY <3>2, NAssumption DEF Tasks
      <3>3. CASE i - 1 \in Tasks /\ Passed(i - 1)
        <4>1. \A j \in 1..(i - 1 - 1) : Passed(j)
          BY <3>3, Zenon DEF Chain
        <4>2. \A j \in 1..(i - 1) : j = i - 1 \/ j \in 1..(i - 1 - 1)
          BY NAssumption DEF Tasks
        <4> QED
          BY <3>3, <4>1, <4>2, Zenon
      <3>4. i - 1 = 0 \/ i - 1 \in Tasks
        BY NAssumption DEF Tasks
      <3> QED
        BY <3>1, <3>2, <3>3, <3>4, Zenon
    <2>5. \A j \in Tasks : state'[j] => \A k \in 1..(j - 1) : Passed(k)'
      BY <2>2, <2>3, <2>4, NAssumption DEF Chain, TypeOK, Tasks
    <2>6. \A j \in Tasks : Passed(j)' => state'[j]
      BY <2>2, <2>3 DEF Chain, TypeOK
    <2>7. \A c \in 0..N : chan'[c] <=> /\ c = 0 \/ Passed(c)'
                                       /\ c < N => ~state'[c + 1]
      BY <2>1, <2>2, <2>3, NAssumption DEF Chain, TypeOK, Tasks
    <2> QED
      BY <2>5, <2>6, <2>7 DEF Chain
  <1>7. ASSUME NEW i \in Tasks, Write(i) PROVE Chain'
    BY <1>7, <1>4 DEF Write, Passed
  <1>8. ASSUME NEW i \in Tasks, ExitCode(i) PROVE Chain'
    BY <1>8, <1>4 DEF ExitCode, Passed, TypeOK
  <1>9. ASSUME NEW i \in Tasks, NEW e \in {"nil", "differs", "error"},
               Return(i, e)
        PROVE  Chain'
    BY <1>9, <1>4 DEF Return, Passed, TypeOK
  <1>10. ASSUME NEW i \in Tasks, Report(i) PROVE Chain'
    BY <1>10, <1>4 DEF Report, Passed, TypeOK
  <1>11. ASSUME NEW i \in Tasks, Pass(i) PROVE Chain'
    <2>1. /\ chan' = [chan EXCEPT ![i] = TRUE]
          /\ UNCHANGED state
          /\ state[i] /\ ~Passed(i) /\ ~chan[i]
      BY <1>11 DEF Pass, Passed
    <2>2. \A j \in Tasks : Passed(j)' <=> Passed(j) \/ j = i
      BY <1>11 DEF Pass, Passed, TypeOK
    <2>3. i < N => ~state[i + 1]
      <3> SUFFICES ASSUME i < N, state[i + 1] PROVE FALSE
        BY <2>1
      <3>1. i + 1 \in Tasks /\ i \in 1..(i + 1 - 1)
        BY NAssumption DEF Tasks
      <3> QED
        BY <3>1, <2>1 DEF Chain
    <2>4. \A j \in Tasks : state'[j] => \A k \in 1..(j - 1) : Passed(k)'
      BY <2>1, <2>2, NAssumption DEF Chain, Tasks
    <2>5. \A j \in Tasks : Passed(j)' => state'[j]
      BY <2>1, <2>2 DEF Chain
    <2>6. \A c \in 0..N : chan'[c] <=> /\ c = 0 \/ Passed(c)'
                                       /\ c < N => ~state'[c + 1]
      BY <2>1, <2>2, <2>3, NAssumption DEF Chain, TypeOK, Tasks
    <2> QED
      BY <2>4, <2>5, <2>6 DEF Chain
  <1>12. ASSUME NEW i \in Tasks, Release(i) PROVE Chain'
    BY <1>12, <1>4 DEF Release, Passed, TypeOK
  <1>13. CASE Acquire
    BY <1>13, <1>4, AcquireHidden
  <1> QED
    BY <1>1, <1>2, <1>3, <1>5, <1>6, <1>7, <1>8, <1>9, <1>10, <1>11, <1>12, <1>13
    DEF Next, MainStep, TaskStep, Exited

------------------------------------------------------------------------------

LEMMA LifeStep == TypeOK /\ Life /\ [Next]_vars => Life'
  <1> SUFFICES ASSUME TypeOK, Life, [Next]_vars PROVE Life'
    OBVIOUS
  <1>1. ASSUME NEW w, NEW k, Add(w, k) PROVE Life'
    <2>1. /\ added \in Nat /\ added' = added + 1 /\ added' \in Tasks
          /\ \A i \in Tasks : i > added' => i > added /\ i # added'
          /\ \A i \in Tasks : i = added' => i > added
      BY <1>1, NAssumption DEF Add, TypeOK, Tasks
    <2>2. /\ UNCHANGED <<err, state, answer>> /\ main = "walking" /\ main' = "adding"
          /\ pc' = [pc EXCEPT ![added'] = "asking"]
          /\ kind' = [kind EXCEPT ![added'] = k]
      BY <1>1, <2>1 DEF Add, reportVars
    <2>3. \A i \in Tasks : i # added' => pc'[i] = pc[i] /\ kind'[i] = kind[i]
      BY <2>1, <2>2 DEF TypeOK
    <2>4. pc'[added'] = "asking"
      BY <2>1, <2>2 DEF TypeOK
    <2>5. answer = -1 /\ \A i \in Tasks : kind[i] # "exit"
      BY <2>2, Zenon DEF Life
    <2>6. pc[added'] = "idle" /\ err[added'] = "nil" /\ ~state[added']
      BY <2>1 DEF Life
    <2> QED
      BY <2>1, <2>2, <2>3, <2>4, <2>5, <2>6 DEF Life
  <1>2. CASE Acquire
    <2>1. /\ added \in Tasks /\ pc[added] = "asking" /\ answer = -1
          /\ UNCHANGED <<added, kind, err, state, answer>>
          /\ pc' = [pc EXCEPT ![added] = "running"]
          /\ main' = IF kind[added] = "exit" THEN "waiting" ELSE "walking"
      BY <1>2 DEF Acquire, Life, reportVars
    <2>2. \A i \in Tasks : pc'[i] = IF i = added THEN "running" ELSE pc[i]
      BY <2>1 DEF TypeOK
    <2>3. main' = "walking" => \A i \in Tasks : kind[i] # "exit"
      BY <2>1 DEF Life
    <2> QED
      BY <2>1, <2>2, <2>3 DEF Life, Tasks
  <1>3. CASE Exit \/ UNCHANGED vars
    BY <1>3 DEF Exit, vars, taskVars, reportVars, Life
  <1>4. ASSUME NEW i \in Tasks, GetState(i) PROVE Life'
    BY <1>4 DEF GetState, Life, TypeOK, Tasks, reportVars
  <1>5. ASSUME NEW i \in Tasks, Write(i) PROVE Life'
    BY <1>5 DEF Write, Life, TypeOK
  <1>6. ASSUME NEW i \in Tasks, ExitCode(i) PROVE Life'
    BY <1>6 DEF ExitCode, Life, TypeOK, Tasks
  <1>7. ASSUME NEW i \in Tasks, NEW e \in {"nil", "differs", "error"},
               Return(i, e)
        PROVE  Life'
    BY <1>7 DEF Return, Results, Life, TypeOK, Tasks, reportVars
  <1>8. ASSUME NEW i \in Tasks, Report(i) PROVE Life'
    BY <1>8 DEF Report, Life, TypeOK
  <1>9. ASSUME NEW i \in Tasks, Pass(i) \/ Release(i) PROVE Life'
    BY <1>9 DEF Pass, Release, Life, TypeOK, reportVars
  <1> QED
    BY <1>1, <1>2, <1>3, <1>4, <1>5, <1>6, <1>7, <1>8, <1>9
    DEF Next, MainStep, TaskStep, Exited, AddFile, AddReport, GetExitCode

\* What a task that holds the reporterState knows of the others.
LEMMA Owner ==
  ASSUME TypeOK, Chain, NEW i \in Tasks, state[i], ~Passed(i),
         NEW j \in Tasks, state[j], j # i
  PROVE  j < i /\ Passed(j)
  <1>1. i < j => i \in 1..(j - 1)
    BY DEF Tasks
  <1>2. j < i => j \in 1..(i - 1)
    BY DEF Tasks
  <1>3. i < j \/ j < i
    BY DEF Tasks
  <1> QED
    BY <1>1, <1>2, <1>3, Zenon DEF Chain

LEMMA OneOwnerFromChain == TypeOK /\ Chain => OneOwner
  <1> SUFFICES ASSUME TypeOK, Chain PROVE OneOwner
    OBVIOUS
  <1>1. ASSUME NEW i \in Tasks, NEW j \in Tasks, HasState(i), HasState(j)
        PROVE  i = j
    BY <1>1, Owner DEF HasState
  <1>2. ASSUME NEW c \in 0..N, chan[c], NEW i \in Tasks, state[i]
        PROVE  i <= c /\ Passed(i)
    <2>1. c = 0 \/ (c \in Tasks /\ Passed(c) /\ state[c])
      <3>1. c = 0 \/ c \in Tasks
        BY NAssumption DEF Tasks
      <3> QED
        BY <1>2, <3>1, Zenon DEF Chain
    <2>2. c < N => c + 1 \in Tasks /\ ~state[c + 1]
      <3>1. c < N => c + 1 \in Tasks
        BY NAssumption DEF Tasks
      <3> QED
        BY <1>2, <3>1, Zenon DEF Chain
    <2>3. \A j \in 1..(i - 1) : Passed(j) /\ state[j]
      <3>1. \A j \in 1..(i - 1) : j \in Tasks
        BY NAssumption DEF Tasks
      <3> QED
        BY <1>2, <3>1, Zenon DEF Chain
    <2>4. i <= c
      <3> SUFFICES ASSUME c < i PROVE FALSE
        BY NAssumption DEF Tasks
      <3>1. c < N /\ (c + 1 = i \/ c + 1 \in 1..(i - 1))
        BY NAssumption DEF Tasks
      <3> QED
        BY <1>2, <2>2, <2>3, <3>1, Zenon
    <2>5. c \in Tasks
      BY <2>4, NAssumption DEF Tasks
    <2>6. \A j \in 1..(c - 1) : Passed(j)
      <3>1. state[c]
        BY <2>1, <2>4, NAssumption DEF Tasks
      <3> QED
        BY <2>5, <3>1, Zenon DEF Chain
    <2>7. i = c \/ i \in 1..(c - 1)
      BY <2>4, NAssumption DEF Tasks
    <2> QED
      BY <2>1, <2>4, <2>5, <2>6, <2>7, NAssumption DEF Tasks
  <1>3. ASSUME NEW c \in 0..N, chan[c], NEW d \in 0..N, chan[d], c < d
        PROVE  FALSE
    <2>1. d \in Tasks /\ state[d]
      BY <1>3 DEF Chain, Tasks
    <2> QED
      BY <1>2, <1>3, <2>1
  <1>4. \A c, d \in 0..N : chan[c] /\ chan[d] => c = d
    BY <1>3
  <1> QED
    BY <1>1, <1>2, <1>4 DEF OneOwner, HasState

------------------------------------------------------------------------------

\* What any step does to the facts the remaining invariants are about: a task
\* keeps the reporterState's mark, a passed task keeps its error, and only
\* Report changes who reported and the exit code.
Monotone ==
  /\ \A i \in Tasks : state[i] => state'[i]
  /\ \A i \in Tasks : Passed(i) => Passed(i)' /\ err'[i] = err[i]

SameReports ==
  /\ UNCHANGED exitCode
  /\ \A i \in Tasks : Reported(i)' <=> Reported(i)

LEMMA MonotoneStep == TypeOK /\ Life /\ [Next]_vars => Monotone
  <1> SUFFICES ASSUME TypeOK, Life, [Next]_vars PROVE Monotone
    OBVIOUS
  <1> USE DEF Monotone, Passed, TypeOK
  <1>1. ASSUME NEW w, NEW k, Add(w, k) PROVE Monotone
    <2>1. added + 1 \in Tasks /\ pc[added + 1] = "idle"
      BY <1>1, NAssumption DEF Life, Add, Tasks
    <2> QED
      BY <1>1, <2>1 DEF Add
  <1>2. CASE Exit \/ UNCHANGED vars
    BY <1>2 DEF Exit, vars, taskVars
  <1>3. ASSUME NEW i \in Tasks, GetState(i) PROVE Monotone
    BY <1>3 DEF GetState
  <1>4. ASSUME NEW i \in Tasks, Write(i) \/ ExitCode(i) \/ Report(i)
        PROVE  Monotone
    BY <1>4 DEF Write, ExitCode, Report
  <1>5. ASSUME NEW i \in Tasks, NEW e \in {"nil", "differs", "error"},
               Return(i, e)
        PROVE  Monotone
    BY <1>5 DEF Return
  <1>6. ASSUME NEW i \in Tasks, Pass(i) \/ Release(i) PROVE Monotone
    BY <1>6 DEF Pass, Release
  <1>7. CASE Acquire
    BY <1>7, AcquireHidden
  <1> QED
    BY <1>1, <1>2, <1>3, <1>4, <1>5, <1>6, <1>7
    DEF Next, MainStep, TaskStep, Exited, AddFile, AddReport, GetExitCode

LEMMA ReportsStep ==
  TypeOK /\ Life /\ [Next]_vars => SameReports \/ \E i \in Tasks : Report(i)
  <1> SUFFICES ASSUME TypeOK, Life, [Next]_vars
               PROVE  SameReports \/ \E i \in Tasks : Report(i)
    OBVIOUS
  <1> USE DEF SameReports, Reported, Passed, TypeOK
  <1>1. ASSUME NEW w, NEW k, Add(w, k) PROVE SameReports
    <2>1. added + 1 \in Tasks /\ pc[added + 1] = "idle"
      BY <1>1, NAssumption DEF Life, Add, Tasks
    <2> QED
      BY <1>1, <2>1 DEF Add, reportVars
  <1>2. CASE Exit \/ UNCHANGED vars
    BY <1>2 DEF Exit, vars, taskVars, reportVars
  <1>3. ASSUME NEW i \in Tasks, GetState(i) \/ Write(i) PROVE SameReports
    BY <1>3 DEF GetState, Write, reportVars
  <1>4. ASSUME NEW i \in Tasks, ExitCode(i) PROVE SameReports
    BY <1>4 DEF ExitCode, Life
  <1>5. ASSUME NEW i \in Tasks, NEW e \in {"nil", "differs", "error"},
               Return(i, e)
        PROVE  SameReports
    BY <1>5 DEF Return, Life, reportVars
  <1>6. ASSUME NEW i \in Tasks, Pass(i) \/ Release(i) PROVE SameReports
    BY <1>6 DEF Pass, Release, reportVars
  <1>7. CASE Acquire
    BY <1>7, AcquireHidden
  <1> QED
    BY <1>1, <1>2, <1>3, <1>4, <1>5, <1>6, <1>7
    DEF Next, MainStep, TaskStep, Exited, AddFile, AddReport, GetExitCode

LEMMA ReportReports ==
  ASSUME TypeOK, Life, NEW i \in Tasks, Report(i)
  PROVE  /\ ~Reported(i) /\ exitCode' # 0
         /\ \A j \in Tasks : Reported(j)' <=> Reported(j) \/ j = i
  BY DEF Report, Reported, Passed, Life, TypeOK

LEMMA CountedStep == TypeOK /\ Life /\ Counted /\ [Next]_vars => Counted'
  <1> SUFFICES ASSUME TypeOK, Life, Counted, [Next]_vars PROVE Counted'
    OBVIOUS
  <1>1. CASE SameReports
    BY <1>1 DEF SameReports, Counted
  <1>2. ASSUME NEW i \in Tasks, Report(i) PROVE Counted'
    BY <1>2, ReportReports DEF Counted
  <1> QED
    BY <1>1, <1>2, ReportsStep

------------------------------------------------------------------------------

LEMMA LogEntry ==
  ASSUME log \in Seq(Entries), NEW a \in 1..Len(log)
  PROVE  log[a].task \in Tasks /\ log[a].kind \in {"out", "err"}
  <1>1. log[a] \in Entries
    OBVIOUS
  <1>2. \A e \in Entries : e.task \in Tasks /\ e.kind \in {"out", "err"}
    BY DEF Entries
  <1> QED
    BY <1>1, <1>2, Zenon

\* The log grows only at its end, by the task that holds the reporterState.
LEMMA LogStep ==
  ASSUME TypeOK, [Next]_vars
  PROVE  \/ UNCHANGED log
         \/ \E i \in Tasks :
              /\ state[i] /\ pc[i] \in {"running", "failed"}
              /\ \/ log' = Append(log, [task |-> i, kind |-> "out"])
                 \/ Report(i) /\ log' = Append(log, [task |-> i, kind |-> "err"])
  BY DEF Next, MainStep, TaskStep, Exited, AddFile, AddReport, GetExitCode, Add,
         Acquire, Exit, GetState, Write, ExitCode, Return, Report, Pass, Release, vars,
         reportVars

LEMMA PrintedStep ==
  TypeOK /\ Life /\ Printed /\ [Next]_vars => Printed'
  <1> SUFFICES ASSUME TypeOK, Life, Printed, [Next]_vars PROVE Printed'
    OBVIOUS
  <1>1. \A j \in Tasks : (state[j] => state'[j]) /\ (Reported(j) => Reported(j)')
    BY MonotoneStep, ReportsStep, ReportReports DEF Monotone, SameReports
  <1>2. log \in Seq(Entries)
    BY DEF TypeOK
  <1>3. \A a \in 1..Len(log), j \in Tasks :
          log[a].task = j => state'[j] /\ (log[a].kind = "err" => Reported(j)')
    BY <1>1, Zenon DEF Printed
  <1>4. CASE UNCHANGED log
    <2>1. ASSUME NEW a \in 1..Len(log)
          PROVE  (state[log[a].task] /\ (log[a].kind = "err" => Reported(log[a].task)))'
      BY <1>2, <1>3, <1>4, LogEntry, Zenon DEF Reported, Passed
    <2> QED
      BY <1>4, <2>1 DEF Printed
  <1>5. ASSUME NEW i \in Tasks, state[i], NEW k \in {"out", "err"},
               log' = Append(log, [task |-> i, kind |-> k]),
               k = "err" => Report(i)
        PROVE  Printed'
    <2>1. state'[i] /\ (k = "err" => Reported(i)')
      BY <1>1, <1>5, ReportReports
    <2>2. /\ Len(log') = Len(log) + 1
          /\ \A a \in 1..Len(log) : log'[a] = log[a]
          /\ log'[Len(log) + 1].task = i /\ log'[Len(log) + 1].kind = k
      BY <1>2, <1>5
    <2>3. \A a \in 1..(Len(log) + 1) : a = Len(log) + 1 \/ a \in 1..Len(log)
      BY <1>2
    <2>4. ASSUME NEW a \in 1..Len(log')
          PROVE  \E j \in Tasks : /\ log'[a].task = j
                                  /\ state'[j]
                                  /\ log'[a].kind = "err" => Reported(j)'
      <3>1. CASE a \in 1..Len(log)
        BY <3>1, <1>2, <1>3, <2>2, LogEntry, Zenon
      <3>2. CASE a = Len(log) + 1
        BY <3>2, <2>1, <2>2, Zenon
      <3> QED
        BY <2>2, <2>3, <3>1, <3>2, Zenon
    <2>5. ASSUME NEW a \in 1..Len(log')
          PROVE  (state[log[a].task] /\ (log[a].kind = "err" => Reported(log[a].task)))'
      BY <2>4, Zenon DEF Reported, Passed
    <2> QED
      BY <2>5 DEF Printed
  <1> QED
    BY <1>4, <1>5, LogStep

LEMMA OrderStep ==
  TypeOK /\ Chain /\ Printed /\ OutputInOrder /\ [Next]_vars => OutputInOrder'
  <1> SUFFICES ASSUME TypeOK, Chain, Printed, OutputInOrder, [Next]_vars
               PROVE  OutputInOrder'
    OBVIOUS
  <1>1. CASE UNCHANGED log
    BY <1>1 DEF OutputInOrder
  <1>2. ASSUME NEW i \in Tasks, state[i], pc[i] \in {"running", "failed"},
               NEW k \in {"out", "err"},
               log' = Append(log, [task |-> i, kind |-> k])
        PROVE  OutputInOrder'
    <2>1. log \in Seq(Entries)
      BY DEF TypeOK
    <2>2. ~Passed(i) /\ ~Reported(i)
      BY <1>2 DEF Passed, Reported
    <2>3. ASSUME NEW a \in 1..Len(log)
          PROVE  \/ log[a].task < i
                 \/ log[a].task = i /\ log[a].kind = "out"
      <3>1. log[a].task \in Tasks /\ log[a].kind \in {"out", "err"}
        BY <2>1, <2>3, LogEntry
      <3>2. state[log[a].task] /\ (log[a].kind = "err" => Reported(log[a].task))
        BY <2>3 DEF Printed
      <3>3. CASE log[a].task = i
        BY <2>2, <3>1, <3>2, <3>3
      <3>4. CASE log[a].task # i
        BY <1>2, <2>2, <3>1, <3>2, <3>4, Owner
      <3> QED
        BY <3>3, <3>4
    <2>4. /\ Len(log') = Len(log) + 1
          /\ \A a \in 1..Len(log) : log'[a] = log[a]
          /\ log'[Len(log) + 1].task = i
      BY <1>2, <2>1
    <2>5. ASSUME NEW a \in 1..Len(log'), NEW b \in 1..Len(log'), a < b
          PROVE  \/ log'[a].task < log'[b].task
                 \/ log'[a].task = log'[b].task /\ log'[a].kind = "out"
      <3>1. Len(log) \in Nat /\ a \in 1..Len(log)
        BY <2>1, <2>4, <2>5
      <3>2. CASE b \in 1..Len(log)
        BY <2>4, <2>5, <3>1, <3>2, Zenon DEF OutputInOrder
      <3>3. CASE b = Len(log) + 1
        BY <2>3, <2>4, <3>1, <3>3, Zenon
      <3> QED
        BY <2>4, <2>5, <3>1, <3>2, <3>3
    <2> QED
      BY <2>5 DEF OutputInOrder
  <1> QED
    BY <1>1, <1>2, LogStep

------------------------------------------------------------------------------

\* GetExitCode's task reads the exit code when it holds the reporterState, so
\* every earlier task has passed it on and the code tells whether one reported.
LEMMA AnswerFaithful ==
  ASSUME TypeOK, Chain, Life, Counted, NEW x \in Tasks, ExitCode(x)
  PROVE  ExitStatusFaithful'
  <1>1. /\ kind[x] = "exit" /\ pc[x] = "running" /\ state[x]
        /\ answer' = exitCode /\ UNCHANGED <<kind, err, added>>
        /\ pc' = [pc EXCEPT ![x] = "returned"]
    BY DEF ExitCode
  <1>2. x = added /\ \A y \in Tasks : kind[y] = "exit" => y = x
    BY <1>1, Zenon DEF Life
  <1>3. \A j \in 1..(x - 1) : Passed(j)
    BY <1>1, Zenon DEF Chain
  <1>4. \A j \in 1..(x - 1) : j \in Tasks /\ j # x
    BY NAssumption DEF Tasks
  <1>5. \A j \in 1..(x - 1) : Passed(j)'
    BY <1>1, <1>3, <1>4 DEF Passed, TypeOK
  <1>6. ASSUME NEW j \in Tasks, Reported(j) PROVE j \in 1..(x - 1)
    <2>1. j # x
      BY <1>1, <1>6 DEF Reported, Passed
    <2>2. ~(j > x)
      BY <1>2, <1>6 DEF Life, Reported, Passed
    <2> QED
      BY <2>1, <2>2, NAssumption DEF Tasks
  <1>7. \A j \in 1..(x - 1) : err[j] # "nil" <=> Reported(j)
    BY <1>3, Zenon DEF Reported
  <1>8. exitCode # 0 <=> \E j \in 1..(x - 1) : err[j] # "nil"
    BY <1>4, <1>6, <1>7, Zenon DEF Counted, Reported
  <1> QED
    BY <1>1, <1>2, <1>5, <1>8, Zenon DEF ExitStatusFaithful

LEMMA FaithfulStep ==
  TypeOK /\ Chain /\ Life /\ Counted /\ ExitStatusFaithful /\ [Next]_vars
    => ExitStatusFaithful'
  <1> SUFFICES ASSUME TypeOK, Chain, Life, Counted, ExitStatusFaithful,
                      [Next]_vars
               PROVE  ExitStatusFaithful'
    OBVIOUS
  <1>1. \/ UNCHANGED answer /\ (UNCHANGED kind \/ main = "walking")
        \/ \E x \in Tasks : ExitCode(x)
    BY DEF Next, MainStep, TaskStep, Exited, AddFile, AddReport, GetExitCode, Add,
           Acquire, Exit, GetState, Write, Return, Report, Pass, Release, vars, taskVars,
           reportVars
  <1>2. CASE UNCHANGED answer /\ main = "walking"
    BY <1>2 DEF Life, ExitStatusFaithful
  <1>3. CASE UNCHANGED <<answer, kind>>
    <2>1. \A x \in Tasks : \A j \in 1..(x - 1) : j \in Tasks
      BY NAssumption DEF Tasks
    <2>2. \A j \in Tasks : Passed(j) => Passed(j)' /\ err'[j] = err[j]
      BY MonotoneStep DEF Monotone
    <2>3. ASSUME answer # -1, NEW x \in Tasks, kind[x] = "exit"
          PROVE  /\ \A j \in 1..(x - 1) : Passed(j)'
                 /\ answer # 0 <=> \E j \in 1..(x - 1) : err'[j] # "nil"
      <3>1. /\ \A j \in 1..(x - 1) : Passed(j)
            /\ answer # 0 <=> \E j \in 1..(x - 1) : err[j] # "nil"
        BY <2>3, Zenon DEF ExitStatusFaithful
      <3>2. \A j \in 1..(x - 1) : Passed(j)' /\ err'[j] = err[j]
        BY <3>1, <2>1, <2>2, Zenon
      <3> QED
        BY <3>1, <3>2, Zenon
    <2> QED
      BY <1>3, <2>3, Zenon DEF ExitStatusFaithful
  <1> QED
    BY <1>1, <1>2, <1>3, AnswerFaithful, Zenon

LEMMA IInvStep == IInv /\ [Next]_vars => IInv'
  <1> SUFFICES ASSUME IInv, [Next]_vars PROVE IInv'
    OBVIOUS
  <1> USE DEF IInv
  <1>1. TypeOK'
    BY TypeStep
  <1>2. Chain'
    BY ChainStep
  <1>3. Life'
    BY LifeStep
  <1>4. Printed'
    BY PrintedStep
  <1>5. Counted'
    BY CountedStep
  <1>6. OutputInOrder'
    BY OrderStep
  <1>7. ExitStatusFaithful'
    BY FaithfulStep
  <1> QED
    BY <1>1, <1>2, <1>3, <1>4, <1>5, <1>6, <1>7

LEMMA Invariant == Spec => []IInv
  BY InitIInv, IInvStep, PTL DEF Spec

------------------------------------------------------------------------------

\* The variables keep their types, whatever the number of tasks and weights.
THEOREM TypeCorrect == Spec => []TypeOK
  <1>1. IInv => TypeOK
    BY DEF IInv
  <1> QED
    BY <1>1, Invariant, PTL

\* gofmt.go:273: the reporterState never has two owners, wherever the tasks of
\* a run are interleaved.
THEOREM ReporterOwned == Spec => []OneOwner
  <1>1. IInv => OneOwner
    BY OneOwnerFromChain DEF IInv
  <1> QED
    BY <1>1, Invariant, PTL

\* gofmt.go:214-222: stdout and stderr come out in the order of the Add calls.
THEOREM OutputOrdered == Spec => []OutputInOrder
  <1>1. IInv => OutputInOrder
    BY DEF IInv
  <1> QED
    BY <1>1, Invariant, PTL

\* gofmt.go:254: the status handed to os.Exit is nonzero exactly when a task
\* failed, and every task before GetExitCode's is over by then.
THEOREM StatusFaithful == Spec => []ExitStatusFaithful
  <1>1. IInv => ExitStatusFaithful
    BY DEF IInv
  <1> QED
    BY <1>1, Invariant, PTL

------------------------------------------------------------------------------

LEMMA SerialInit == Init => Serial!Init
  <1> SUFFICES ASSUME Init PROVE Serial!Init
    OBVIOUS
  <1>1. \A i \in Tasks : ~Passed(i) /\ ~Reported(i)
    BY DEF Init, Passed, Reported
  <1> QED
    BY <1>1 DEF Init, Serial!Init

\* A task that has the reporterState and did not pass it on has the turn.
LEMMA StateIsTurn ==
  ASSUME Chain, NEW i \in Tasks, state[i], ~Passed(i)
  PROVE  i \in Serial!Tasks /\ Serial!Turn(i)
  <1>1. \A j \in 1..(i - 1) : j \in Tasks /\ Passed(j)
    <2>1. \A j \in 1..(i - 1) : j \in Tasks
      BY NAssumption DEF Tasks
    <2> QED
      BY <2>1, Zenon DEF Chain
  <1> QED
    BY <1>1 DEF Serial!Tasks, Serial!Turn, Tasks

\* Adding, receiving the reporterState, returning and releasing are invisible.
LEMMA SerialStutter ==
  ASSUME UNCHANGED <<log, exitCode, answer>>,
         \A i \in Tasks : (Passed(i)' <=> Passed(i)) /\ (Reported(i)' <=> Reported(i))
  PROVE  UNCHANGED Serial!vars
  BY DEF Serial!vars

LEMMA SerialStep == IInv /\ [Next]_vars => [Serial!Next]_Serial!vars
  <1> SUFFICES ASSUME IInv, [Next]_vars PROVE [Serial!Next]_Serial!vars
    OBVIOUS
  <1> USE DEF IInv, TypeOK
  <1>1. ASSUME NEW w, NEW k, Add(w, k) PROVE UNCHANGED Serial!vars
    <2>1. added + 1 \in Tasks /\ pc[added + 1] = "idle"
      BY <1>1, NAssumption DEF Life, Add, Tasks
    <2>2. \A i \in Tasks : (Passed(i)' <=> Passed(i)) /\ (Reported(i)' <=> Reported(i))
      BY <1>1, <2>1 DEF Add, Passed, Reported
    <2> QED
      BY <1>1, <2>2, SerialStutter DEF Add, reportVars
  <1>2. CASE Exit \/ UNCHANGED vars
    BY <1>2, SerialStutter DEF Exit, vars, taskVars, reportVars, Passed, Reported
  <1>3. ASSUME NEW i \in Tasks, GetState(i) PROVE UNCHANGED Serial!vars
    BY <1>3, SerialStutter DEF GetState, reportVars, Passed, Reported
  <1>4. ASSUME NEW i \in Tasks, Write(i) PROVE Serial!Output(i)
    <2>1. ~Passed(i) /\ ~Reported(i) /\ state[i]
      BY <1>4 DEF Write, Passed, Reported
    <2>2. \A j \in Tasks : (Passed(j)' <=> Passed(j)) /\ (Reported(j)' <=> Reported(j))
      BY <1>4 DEF Write, Passed, Reported
    <2> QED
      BY <1>4, <2>1, <2>2, StateIsTurn DEF Write, Serial!Output
  <1>5. ASSUME NEW i \in Tasks, ExitCode(i) PROVE Serial!ReadStatus(i)
    <2>1. ~Passed(i) /\ state[i] /\ answer = -1 /\ err[i] = "nil"
      BY <1>5 DEF ExitCode, Passed, Life
    <2>2. \A j \in Tasks : (Passed(j)' <=> Passed(j)) /\ (Reported(j)' <=> Reported(j))
      BY <1>5, <2>1 DEF ExitCode, Passed, Reported
    <2> QED
      BY <1>5, <2>1, <2>2, StateIsTurn DEF ExitCode, Serial!ReadStatus
  <1>6. ASSUME NEW i \in Tasks, NEW e \in {"nil", "differs", "error"},
               Return(i, e)
        PROVE  UNCHANGED Serial!vars
    <2>1. \A j \in Tasks : (Passed(j)' <=> Passed(j)) /\ (Reported(j)' <=> Reported(j))
      BY <1>6 DEF Return, Passed, Reported, Life
    <2> QED
      BY <1>6, <2>1, SerialStutter DEF Return, reportVars
  <1>7. ASSUME NEW i \in Tasks, Report(i)
        PROVE  Serial!FailDiffers(i) \/ Serial!FailError(i)
    <2>1. ~Passed(i) /\ ~Reported(i) /\ state[i]
      BY <1>7 DEF Report, Passed, Reported
    <2>2. \A j \in Tasks : (Passed(j)' <=> Passed(j))
      BY <1>7 DEF Report, Passed
    <2>3. \A j \in Tasks : Reported(j)' <=> Reported(j) \/ j = i
      BY <1>7, ReportReports
    <2>4. {j \in Tasks : Reported(j)}' = {j \in Tasks : Reported(j)} \union {i}
      BY <2>3
    <2>5. {j \in Tasks : Passed(j)}' = {j \in Tasks : Passed(j)}
      BY <2>2
    <2> QED
      BY <1>7, <2>1, <2>4, <2>5, StateIsTurn
      DEF Report, Serial!FailDiffers, Serial!FailError
  <1>8. ASSUME NEW i \in Tasks, Pass(i) PROVE Serial!GiveUp(i)
    <2>1. ~Passed(i) /\ state[i]
      BY <1>8 DEF Pass, Passed
    <2>2. \A j \in Tasks : (Passed(j)' <=> Passed(j) \/ j = i) /\ (Reported(j)' <=> Reported(j))
      BY <1>8 DEF Pass, Passed, Reported
    <2>3. {j \in Tasks : Passed(j)}' = {j \in Tasks : Passed(j)} \union {i}
      BY <2>2
    <2>4. {j \in Tasks : Reported(j)}' = {j \in Tasks : Reported(j)}
      BY <2>2
    <2> QED
      BY <1>8, <2>1, <2>3, <2>4, StateIsTurn DEF Pass, reportVars, Serial!GiveUp
  <1>9. ASSUME NEW i \in Tasks, Release(i) PROVE UNCHANGED Serial!vars
    <2>1. \A j \in Tasks : (Passed(j)' <=> Passed(j)) /\ (Reported(j)' <=> Reported(j))
      BY <1>9 DEF Release, Passed, Reported
    <2> QED
      BY <1>9, <2>1, SerialStutter DEF Release, reportVars
  <1>10. CASE Acquire
    BY <1>10, AcquireHidden, SerialStutter
  <1> QED
    BY <1>1, <1>2, <1>3, <1>4, <1>5, <1>6, <1>7, <1>8, <1>9, <1>10
    DEF Next, MainStep, TaskStep, Exited, AddFile, AddReport, GetExitCode,
        Serial!Next, Serial!Tasks, Tasks

\* Concurrency is invisible from outside: what the sequencer prints and the
\* status it exits with are those of tasks taking turns in Add order.
THEOREM ImplementsSerialReport == Spec => SerialSpec
  BY SerialInit, SerialStep, Invariant, PTL DEF Spec, SerialSpec, Serial!Spec

------------------------------------------------------------------------------
(* What the semaphore admits: what is acquired is what the tasks in flight  *)
(* weigh, clamped, and never more than the capacity, so that a task added as *)
(* exclusive has none beside it that weighs anything.                        *)

Accounted == cur = Cardinality(Units) /\ cur <= MaxWeight

\* The units of one task.
Share(k, v) == {k} \X (1..v)

LEMMA ShareCount ==
  ASSUME NEW k, NEW v \in Nat
  PROVE  IsFiniteSet(Share(k, v)) /\ Cardinality(Share(k, v)) = v
  <1>1. IsFiniteSet({k}) /\ Cardinality({k}) = 1
    BY FS_Singleton
  <1>2. IsFiniteSet(1..v) /\ Cardinality(1..v) = v
    BY FS_Interval
  <1> DEFINE one == {k}
             interval == 1..v
  <1>3. IsFiniteSet(one) /\ IsFiniteSet(interval) /\ Cardinality(one) = 1 /\ Cardinality(interval) = v
    BY <1>1, <1>2
  <1>4. Share(k, v) = one \X interval
    BY DEF Share
  <1> HIDE DEF one, interval
  <1>5. /\ IsFiniteSet(one \X interval)
        /\ Cardinality(one \X interval) = Cardinality(one) * Cardinality(interval)
    BY <1>3, FS_Product, Zenon
  <1>6. 1 * v = v
    OBVIOUS
  <1> QED
    BY <1>3, <1>4, <1>5, <1>6

LEMMA ClampFits ==
  ASSUME NEW w \in Int
  PROVE  /\ Clamp(w) \in 0..MaxWeight
         /\ w < 0 \/ w > MaxWeight => Clamp(w) = MaxWeight
         /\ Clamp(w) = 0 => w = 0
  BY MaxWeightAssumption DEF Clamp

LEMMA UnitsFinite == IsFiniteSet(Units)
  <1>1. IsFiniteSet(Tasks) /\ IsFiniteSet(1..MaxWeight)
    BY NAssumption, MaxWeightAssumption, FS_Interval DEF Tasks
  <1>2. IsFiniteSet(Tasks \X (1..MaxWeight))
    BY <1>1, FS_Product
  <1>3. Units \in SUBSET (Tasks \X (1..MaxWeight))
    BY DEF Units
  <1> QED
    BY <1>2, <1>3, FS_Subset

\* A task in flight has the units of its clamped weight, and no other has any.
LEMMA UnitsAre ==
  ASSUME TypeOK, NEW k \in Tasks
  PROVE  /\ InFlight(k) => Share(k, Clamp(weight[k])) \subseteq Units
         /\ \A u : <<k, u>> \in Units => InFlight(k) /\ u \in 1..Clamp(weight[k])
  <1>1. Clamp(weight[k]) \in 0..MaxWeight
    BY WeightInt, ClampFits
  <1>2. ASSUME InFlight(k), NEW u \in 1..Clamp(weight[k])  PROVE <<k, u>> \in Units
    BY <1>1, <1>2, MaxWeightAssumption DEF Units
  <1>3. ASSUME NEW u, <<k, u>> \in Units  PROVE InFlight(k) /\ u \in 1..Clamp(weight[k])
    BY <1>1, <1>3, MaxWeightAssumption DEF Units
  <1> QED
    BY <1>2, <1>3 DEF Share

LEMMA AccountedInit == Init => Accounted
  <1> SUFFICES ASSUME Init  PROVE Accounted
    OBVIOUS
  <1>1. Units = {}
    BY DEF Init, Units, InFlight
  <1> QED
    BY <1>1, FS_EmptySet, MaxWeightAssumption DEF Init, Accounted

LEMMA AccountedStep == TypeOK /\ Life /\ Accounted /\ [Next]_vars => Accounted'
  <1> SUFFICES ASSUME TypeOK, Life, Accounted, [Next]_vars  PROVE Accounted'
    OBVIOUS
  <1>1. IsFiniteSet(Units) /\ cur \in Int
    BY UnitsFinite DEF TypeOK
  <1>2. CASE Acquire
    <2>1. added \in Tasks /\ pc[added] = "asking"
      BY <1>2 DEF Acquire, Life
    <2> DEFINE v == Clamp(weight[added])
    <2>2. v \in 0..MaxWeight /\ v \in Nat
      BY <2>1, WeightInt, ClampFits, MaxWeightAssumption
    <2>3. ~InFlight(added)
      BY <2>1 DEF InFlight
    <2>4. Units' = Units \union Share(added, v)
      <3>1. weight' = weight
        BY <1>2 DEF Acquire
      <3>2. \A i \in Tasks : InFlight(i)' <=> InFlight(i) \/ i = added
        BY <1>2, <2>1 DEF Acquire, InFlight, PCs, TypeOK
      <3>3. ASSUME NEW i \in Tasks, NEW u \in 1..MaxWeight
            PROVE  InFlight(i)' /\ u <= Clamp(weight[i])
                     <=> \/ InFlight(i) /\ u <= Clamp(weight[i])
                         \/ i = added /\ u \in 1..v
        <4>1. u \in Nat /\ (u \in 1..v <=> u <= v)
          BY <2>2, MaxWeightAssumption
        <4> QED  BY <3>2, <4>1
      <3>4. ASSUME NEW x \in Tasks \X (1..MaxWeight)
            PROVE  x \in Share(added, v) <=> x[1] = added /\ x[2] \in 1..v
        BY DEF Share
      <3>5. Share(added, v) \subseteq Tasks \X (1..MaxWeight)
        BY <2>1, <2>2, MaxWeightAssumption DEF Share
      <3>6. Units' = {x \in Tasks \X (1..MaxWeight) : InFlight(x[1])' /\ x[2] <= Clamp(weight[x[1]])}
        BY <3>1 DEF Units, Clamp
      <3>7. ASSUME NEW x \in Tasks \X (1..MaxWeight)
            PROVE  x \in Units' <=> x \in Units \/ x \in Share(added, v)
        <4>1. x[1] \in Tasks /\ x[2] \in 1..MaxWeight
          OBVIOUS
        <4> HIDE DEF v
        <4> QED  BY <3>3, <3>4, <3>6, <4>1 DEF Units
      <3>8. Units \subseteq Tasks \X (1..MaxWeight) /\ Units' \subseteq Tasks \X (1..MaxWeight)
        BY <3>6 DEF Units
      <3> HIDE DEF v
      <3> QED  BY <3>5, <3>7, <3>8
    <2>5. Units \intersect Share(added, v) = {}
      BY <2>1, <2>3, UnitsAre DEF Share
    <2>6. IsFiniteSet(Share(added, v)) /\ Cardinality(Share(added, v)) = v
      BY <2>2, ShareCount
    <2>7. Cardinality(Units') = Cardinality(Units) + v
      <3>1. Cardinality(Units \union Share(added, v))
              = Cardinality(Units) + Cardinality(Share(added, v)) - Cardinality({})
        BY <1>1, <2>5, <2>6, FS_Union
      <3> QED
        BY <1>1, <2>2, <2>4, <2>6, <3>1, FS_EmptySet, FS_CardinalityType
    <2>8. cur' = cur + v /\ cur' <= MaxWeight
      BY <1>2 DEF Acquire
    <2> QED
      BY <2>7, <2>8 DEF Accounted
  <1>3. ASSUME NEW k \in Tasks, Release(k)  PROVE Accounted'
    <2> DEFINE v == Clamp(weight[k])
    <2>1. pc[k] = "passed" /\ weight' = weight /\ cur' = cur - v
      BY <1>3 DEF Release
    <2>2. v \in 0..MaxWeight /\ v \in Nat
      BY WeightInt, ClampFits, MaxWeightAssumption
    <2>3. Units' = Units \ Share(k, v)
      <3>2. \A i \in Tasks : InFlight(i)' <=> InFlight(i) /\ i # k
        BY <1>3 DEF Release, InFlight, PCs, TypeOK
      <3>4. ASSUME NEW x \in Tasks \X (1..MaxWeight)
            PROVE  x \in Share(k, v) <=> x[1] = k /\ x[2] \in 1..v
        BY DEF Share
      <3>5. ASSUME NEW u \in 1..MaxWeight  PROVE u \in 1..v <=> u <= v
        BY <2>2, MaxWeightAssumption
      <3>6. Units' = {x \in Tasks \X (1..MaxWeight) : InFlight(x[1])' /\ x[2] <= Clamp(weight[x[1]])}
        BY <2>1 DEF Units, Clamp
      <3>7. ASSUME NEW x \in Tasks \X (1..MaxWeight)
            PROVE  x \in Units' <=> x \in Units /\ x \notin Share(k, v)
        <4>1. x[1] \in Tasks /\ x[2] \in 1..MaxWeight
          OBVIOUS
        <4> QED  BY <3>2, <3>4, <3>5, <3>6, <4>1 DEF Units
      <3>8. Units \subseteq Tasks \X (1..MaxWeight) /\ Units' \subseteq Tasks \X (1..MaxWeight)
        BY <3>6 DEF Units
      <3> HIDE DEF v
      <3> QED  BY <3>7, <3>8
    <2>4. Units \intersect Share(k, v) = Share(k, v)
      <3>1. InFlight(k)
        BY <2>1 DEF InFlight, PCs
      <3> QED  BY <3>1, UnitsAre
    <2>5. Cardinality(Units') = Cardinality(Units) - v
      <3>1. Cardinality(Units \ Share(k, v)) = Cardinality(Units) - Cardinality(Share(k, v))
        BY <1>1, <2>4, FS_Difference
      <3> QED  BY <2>2, <2>3, <3>1, ShareCount
    <2>6. cur' <= MaxWeight
      BY <1>1, <2>1, <2>2, MaxWeightAssumption DEF Accounted
    <2> QED
      BY <2>1, <2>5, <2>6 DEF Accounted
  <1>4. ASSUME cur' = cur, \A i \in Tasks : /\ InFlight(i)' <=> InFlight(i)
                                            /\ InFlight(i) => weight'[i] = weight[i]
        PROVE  Accounted'
    <2>1. Units' = Units
      BY <1>4 DEF Units, Clamp
    <2> QED
      BY <1>4, <2>1 DEF Accounted
  <1>5. ASSUME NEW w, NEW k, Add(w, k)  PROVE Accounted'
    <2>1. added + 1 \in Tasks /\ pc[added + 1] = "idle"
      BY <1>5, NAssumption DEF Add, Life, TypeOK, Tasks
    <2> QED
      BY <1>4, <1>5, <2>1 DEF Add, TypeOK, InFlight, PCs
  <1>6. ASSUME NEW i \in Tasks,
               \/ GetState(i) \/ Write(i) \/ ExitCode(i) \/ Report(i) \/ Pass(i)
               \/ \E e \in {"nil", "differs", "error"} : Return(i, e)
        PROVE  Accounted'
    <2>1. cur' = cur /\ weight' = weight
      BY <1>6 DEF GetState, Write, ExitCode, Report, Pass, Return
    <2>2. \A j \in Tasks : InFlight(j)' <=> InFlight(j)
      BY <1>6 DEF GetState, Write, ExitCode, Report, Pass, Return, TypeOK, InFlight, PCs
    <2> QED
      BY <1>4, <2>1, <2>2
  <1>7. CASE Exit \/ UNCHANGED vars
    BY <1>4, <1>7 DEF Exit, vars, taskVars, InFlight
  <1> QED
    BY <1>2, <1>3, <1>5, <1>6, <1>7
    DEF Next, MainStep, TaskStep, Exited, AddFile, AddReport, GetExitCode

\* gofmt.go:203, 226-227 and 244: what is acquired is exactly what the tasks in
\* flight took, for any weights: none is given back twice, in part or never; so
\* a task added as exclusive runs with no other that weighs anything.
THEOREM WeightIsAccounted == Spec => []WeightAccounted
  <1>1. TypeOK /\ Accounted => WeightAccounted
    <2> SUFFICES ASSUME TypeOK, Accounted, NEW i \in Tasks, NEW j \in Tasks, i # j,
                        InFlight(i), InFlight(j), Exclusive(i), weight[j] # 0
                 PROVE  FALSE
      BY DEF WeightAccounted, Accounted
    <2>1. weight[i] \in Int /\ weight[j] \in Int
      BY WeightInt
    <2>2. Clamp(weight[i]) = MaxWeight /\ Clamp(weight[j]) \in 1..MaxWeight
      BY <2>1, ClampFits, MaxWeightAssumption DEF Exclusive
    <2>3. Share(i, MaxWeight) \union {<<j, 1>>} \in SUBSET Units
      <3>1. Share(i, MaxWeight) \subseteq Units
        BY <2>2, UnitsAre
      <3>2. <<j, 1>> \in Share(j, Clamp(weight[j]))
        BY <2>2, MaxWeightAssumption DEF Share
      <3> QED  BY <3>1, <3>2, UnitsAre
    <2>4. <<j, 1>> \notin Share(i, MaxWeight)
      BY DEF Share
    <2>5. IsFiniteSet(Share(i, MaxWeight)) /\ Cardinality(Share(i, MaxWeight)) = MaxWeight
      BY MaxWeightAssumption, ShareCount
    <2>6. Cardinality(Share(i, MaxWeight) \union {<<j, 1>>}) = MaxWeight + 1
      BY <2>4, <2>5, FS_AddElement
    <2>7. MaxWeight + 1 <= Cardinality(Units)
      BY <2>3, <2>6, UnitsFinite, FS_Subset
    <2> QED
      BY <2>7, MaxWeightAssumption DEF Accounted, TypeOK
  <1>2. IInv => TypeOK /\ Life
    BY DEF IInv
  <1> QED  BY <1>1, <1>2, AccountedInit, AccountedStep, Invariant, PTL DEF Spec

=============================================================================
