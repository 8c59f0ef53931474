----------------------------- MODULE ModulesProofs -----------------------------
(***************************************************************************)
(* loadModule returns the enclosing module (Modules), for any tree of      *)
(* directories, any go.mod files in it, and any number of goroutines that  *)
(* race on the cache.                                                      *)
(***************************************************************************)
EXTENDS Modules, SequenceTheorems, TLAPS

------------------------------------------------------------------------------
(* The directories above one *)

Closed(S) == \A d \in S : Parent[d] \in S

LEMMA AboveClosed ==
  \A d \in Dirs : d \in Above[d] /\ Above[d] \subseteq Dirs /\ Closed(Above[d])
BY ParentAssumption DEF Above, Closed

LEMMA AboveLeast ==
  ASSUME NEW d \in Dirs, NEW S \in SUBSET Dirs, d \in S, Closed(S)
  PROVE  Above[d] \subseteq S
BY DEF Above, Closed

LEMMA AboveStep ==
  ASSUME NEW d \in Dirs
  PROVE  Above[d] = {d} \union Above[Parent[d]]
<1>1. Parent[d] \in Dirs
  BY ParentAssumption
<1>2. Above[d] \subseteq {d} \union Above[Parent[d]]
  <2> DEFINE S == {d} \union Above[Parent[d]]
  <2>1. S \in SUBSET Dirs /\ d \in S /\ Closed(S)
    BY <1>1, AboveClosed DEF Closed
  <2> QED  BY <2>1, AboveLeast
<1>3. Above[Parent[d]] \subseteq Above[d]
  <2>1. Above[d] \in SUBSET Dirs /\ Closed(Above[d]) /\ d \in Above[d]
    BY AboveClosed
  <2>2. Parent[d] \in Above[d]
    BY <2>1 DEF Closed
  <2> QED  BY <1>1, <2>1, <2>2, AboveLeast
<1> QED  BY <1>2, <1>3, AboveClosed

LEMMA AboveRoot == Above[Root] = {Root}
<1>1. {Root} \in SUBSET Dirs /\ Closed({Root})
  BY RootAssumption, ParentAssumption DEF Closed
<1> QED  BY <1>1, AboveLeast, AboveClosed, RootAssumption

\* Two directories above each other are the same.
LEMMA AboveAntisymmetric ==
  ASSUME NEW d \in Dirs, NEW a \in Above[d], d \in Above[a]
  PROVE  a = d
<1> SUFFICES ASSUME a # d  PROVE FALSE
  OBVIOUS
<1> DEFINE S == {x \in Dirs : a \in Above[x] /\ d \in Above[x]}
<1>1. a \in Dirs /\ d \in S
  BY AboveClosed
<1>2. ASSUME NEW x \in S  PROVE Parent[x] \in S
  <2>1. x \in Dirs /\ Parent[x] \in Dirs /\ a \in Above[x] /\ d \in Above[x]
    BY <1>2, ParentAssumption
  <2>2. Above[x] = {x} \union Above[Parent[x]]
    BY <2>1, AboveStep
  <2>3. a \in Above[Parent[x]] \/ d \in Above[Parent[x]]
    BY <2>1, <2>2
  <2>4. ASSUME NEW b \in Dirs, NEW e \in Above[b], b \in Above[Parent[x]]
        PROVE  e \in Above[Parent[x]]
    BY <2>1, <2>4, AboveClosed, AboveLeast
  <2>5. a \in Above[Parent[x]] /\ d \in Above[Parent[x]]
    BY <1>1, <2>3, <2>4
  <2> QED  BY <2>1, <2>5
<1>3. Root \in S
  BY <1>1, <1>2, ClimbAssumption
<1> QED  BY <1>3, AboveRoot

\* filepath.Dir gives back the root, and no other directory.
LEMMA OwnParent == \A d \in Dirs : Parent[d] = d <=> d = Root
<1>1. ASSUME NEW d \in Dirs, Parent[d] = d  PROVE d = Root
  <2>1. {d} # {} /\ \A x \in {d} : Parent[x] \in {d}
    BY <1>1
  <2> QED  BY <2>1, ClimbAssumption
<1> QED  BY <1>1, ParentAssumption

------------------------------------------------------------------------------
(* The enclosing module *)

\* A go.mod file that can be read settles it; without one, a directory is where
\* its parent is.
LEMMA ClosestIs ==
  ASSUME NEW g, NEW d \in Dirs
  PROVE  /\ g[d] # "missing" => Closest(g, d) = {d}
         /\ g[d] = "missing" => Closest(g, d) = IF d = Root THEN {} ELSE Closest(g, Parent[d])
<1>1. ASSUME g[d] # "missing"  PROVE Closest(g, d) = {d}
  BY <1>1, AboveClosed, AboveAntisymmetric DEF Closest
<1>2. ASSUME g[d] = "missing", d = Root  PROVE Closest(g, d) = {}
  BY <1>2, AboveRoot DEF Closest
<1>3. ASSUME g[d] = "missing", d # Root  PROVE Closest(g, d) = Closest(g, Parent[d])
  BY <1>3, AboveStep DEF Closest
<1> QED  BY <1>1, <1>2, <1>3

LEMMA EnclosingIs ==
  ASSUME NEW g \in [Dirs -> GoModStates], NEW d \in Dirs
  PROVE  /\ g[d] = "valid" => Enclosing(g)[d] = d
         /\ g[d] = "invalid" => Enclosing(g)[d] = Nil
         /\ g[d] = "missing" /\ d = Root => Enclosing(g)[d] = Nil
         /\ g[d] = "missing" /\ d # Root => Enclosing(g)[d] = Enclosing(g)[Parent[d]]
<1>1. Parent[d] \in Dirs
  BY ParentAssumption
<1>2. ASSUME g[d] = "valid"  PROVE Enclosing(g)[d] = d
  <2>1. Closest(g, d) = {d}
    BY <1>2, ClosestIs
  <2> QED  BY <1>2, <2>1 DEF Enclosing
<1>3. ASSUME g[d] = "invalid"  PROVE Enclosing(g)[d] = Nil
  <2>1. Closest(g, d) = {d}
    BY <1>3, ClosestIs
  <2> QED  BY <1>3, <2>1 DEF Enclosing
<1>4. ASSUME g[d] = "missing", d = Root  PROVE Enclosing(g)[d] = Nil
  <2>1. Closest(g, d) = {}
    BY <1>4, ClosestIs
  <2> QED  BY <2>1 DEF Enclosing
<1>5. ASSUME g[d] = "missing", d # Root  PROVE Enclosing(g)[d] = Enclosing(g)[Parent[d]]
  <2>1. Closest(g, d) = Closest(g, Parent[d])
    BY <1>5, ClosestIs
  <2> QED  BY <1>1, <2>1 DEF Enclosing
<1> QED  BY <1>2, <1>3, <1>4, <1>5

------------------------------------------------------------------------------
(* The inductive invariant *)

Typed ==
  /\ gomod \in [Dirs -> GoModStates]
  /\ DOMAIN cache = Dirs
  /\ stack \in [Callers -> Seq(Dirs)]
  /\ step \in [Callers -> {"idle", "look up", "read", "store"}]
  /\ DOMAIN mod = Callers
  /\ asked \in [Callers -> Dirs]
  /\ calls \in [Callers -> Nat]

\* Every entry of the cache is right at any time.
CacheRight ==
  \A d \in Dirs : cache[d] # Absent => cache[d] = Enclosing(gomod)[d]

\* All directories of a caller's nested calls are in one module, which is what
\* it found if it found any.
StackRight(c) ==
  /\ step[c] # "idle" => Len(stack[c]) > 0
  /\ \A k \in DOMAIN stack[c] : Enclosing(gomod)[stack[c][k]] = Enclosing(gomod)[asked[c]]
  /\ step[c] = "store" \/ (step[c] = "idle" /\ calls[c] > 0) => mod[c] = Enclosing(gomod)[asked[c]]

IInv == Typed /\ CacheRight /\ \A c \in Callers : StackRight(c)

LEMMA InvInit == Init => IInv
BY RootAssumption DEF Init, IInv, Typed, CacheRight, StackRight

\* A step changes nothing of the other callers, and no go.mod file.
LEMMA Others ==
  ASSUME IInv, NEW c \in Callers, CallerStep(c)
  PROVE  /\ gomod' = gomod
         /\ \A o \in Callers \ {c} : StackRight(o)'
<1>1. gomod' = gomod
  BY DEF CallerStep, Begin, LookUp, Read, Store
<1>2. ASSUME NEW o \in Callers \ {c}
      PROVE  stack'[o] = stack[o] /\ step'[o] = step[o] /\ mod'[o] = mod[o]
             /\ asked'[o] = asked[o] /\ calls'[o] = calls[o]
  BY DEF IInv, Typed, CallerStep, Begin, LookUp, Read, Store, ReturnTo
<1> QED  BY <1>1, <1>2 DEF IInv, StackRight

\* A call that has found what it returns, to the one that made it.
LEMMA Returned ==
  ASSUME IInv, NEW c \in Callers, step[c] # "idle", ReturnTo(c),
         gomod' = gomod, asked' = asked, calls' = calls,
         mod'[c] = Enclosing(gomod)[asked[c]]
  PROVE  stack' \in [Callers -> Seq(Dirs)] /\ StackRight(c)'
<1>1. stack[c] \in Seq(Dirs) /\ Len(stack[c]) > 0
  BY DEF IInv, Typed, StackRight
<1>2. stack' = [stack EXCEPT ![c] = Tail(stack[c])] /\ stack'[c] = Tail(stack[c])
  BY DEF ReturnTo, IInv, Typed
<1>3. step'[c] = IF Len(stack[c]) = 1 THEN "idle" ELSE "store"
  BY DEF ReturnTo, IInv, Typed
<1>4. /\ Tail(stack[c]) \in Seq(Dirs)
      /\ Len(Tail(stack[c])) = Len(stack[c]) - 1
      /\ \A k \in DOMAIN Tail(stack[c]) : k + 1 \in DOMAIN stack[c] /\ Tail(stack[c])[k] = stack[c][k + 1]
  BY <1>1
<1>5. Len(stack[c]) # 1 => Len(Tail(stack[c])) > 0
  <2> DEFINE n == Len(stack[c])
  <2>1. n \in Nat /\ n > 0
    BY <1>1, LenProperties
  <2>2. Len(Tail(stack[c])) = n - 1
    BY <1>4
  <2> HIDE DEF n
  <2>3. n # 1 => n - 1 > 0
    BY <2>1
  <2> QED  BY <2>2, <2>3 DEF n
<1>6. stack' \in [Callers -> Seq(Dirs)]
  BY <1>2, <1>4 DEF IInv, Typed
<1>7. \A k \in DOMAIN stack'[c] : Enclosing(gomod)[stack'[c][k]] = Enclosing(gomod)[asked[c]]
  BY <1>2, <1>4 DEF IInv, StackRight
<1> QED  BY <1>2, <1>3, <1>5, <1>6, <1>7 DEF StackRight

LEMMA BeginStep ==
  ASSUME IInv, NEW c \in Callers, NEW d \in Dirs, Begin(c, d)
  PROVE  Typed' /\ CacheRight' /\ StackRight(c)'
<1>1. <<d>> \in Seq(Dirs) /\ Len(<<d>>) > 0 /\ DOMAIN <<d>> = {1} /\ <<d>>[1] = d
  OBVIOUS
<1>2. Typed'
  <2>1. calls[c] + 1 \in Nat
    <3>1. calls[c] \in Nat
      BY DEF IInv, Typed
    <3> QED  BY <3>1
  <2>2. calls' \in [Callers -> Nat] /\ stack' \in [Callers -> Seq(Dirs)]
    <3>1. calls \in [Callers -> Nat] /\ stack \in [Callers -> Seq(Dirs)]
      BY DEF IInv, Typed
    <3>2. calls' = [calls EXCEPT ![c] = calls[c] + 1] /\ stack' = [stack EXCEPT ![c] = <<d>>]
      BY DEF Begin
    <3> QED  BY <1>1, <2>1, <3>1, <3>2
  <2> QED  BY <2>2 DEF Begin, IInv, Typed
<1>3. stack'[c] = <<d>> /\ asked'[c] = d /\ step'[c] = "look up" /\ gomod' = gomod
  BY DEF Begin, IInv, Typed
<1> QED  BY <1>1, <1>2, <1>3 DEF Begin, IInv, CacheRight, StackRight

\* What is in front of a stack.
LEMMA InnermostCall ==
  ASSUME IInv, NEW c \in Callers, step[c] # "idle"
  PROVE  /\ Head(stack[c]) \in Dirs
         /\ Enclosing(gomod)[Head(stack[c])] = Enclosing(gomod)[asked[c]]
<1>1. stack[c] \in Seq(Dirs) /\ Len(stack[c]) > 0
  BY DEF IInv, Typed, StackRight
<1>2. 1 \in DOMAIN stack[c] /\ Head(stack[c]) = stack[c][1] /\ Head(stack[c]) \in Dirs
  BY <1>1
<1> QED  BY <1>2 DEF IInv, StackRight

LEMMA LookUpStep ==
  ASSUME IInv, NEW c \in Callers, LookUp(c)
  PROVE  Typed' /\ CacheRight' /\ StackRight(c)'
<1> DEFINE d == Head(stack[c])
<1>1. step[c] = "look up" /\ d \in Dirs /\ Enclosing(gomod)[d] = Enclosing(gomod)[asked[c]]
  BY InnermostCall DEF LookUp
<1>2. CacheRight'
  BY DEF LookUp, IInv, CacheRight
<1>3. CASE cache[d] # Absent
  <2>1. ReturnTo(c) /\ mod' = [mod EXCEPT ![c] = cache[d]]
    BY <1>3 DEF LookUp
  <2>2. mod'[c] = Enclosing(gomod)[asked[c]]
    BY <1>1, <1>3, <2>1 DEF IInv, Typed, CacheRight
  <2>3. stack' \in [Callers -> Seq(Dirs)] /\ StackRight(c)'
    BY <1>1, <2>1, <2>2, Returned DEF LookUp
  <2>4. step' \in [Callers -> {"idle", "look up", "read", "store"}]
    BY <2>1 DEF ReturnTo, IInv, Typed
  <2> QED  BY <1>2, <2>1, <2>3, <2>4 DEF LookUp, IInv, Typed
<1>4. CASE cache[d] = Absent
  <2>1. step' = [step EXCEPT ![c] = "read"] /\ mod' = mod /\ stack' = stack
    BY <1>4 DEF LookUp
  <2>2. Typed'
    BY <2>1 DEF LookUp, IInv, Typed
  <2>3. StackRight(c)'
    BY <1>1, <2>1 DEF LookUp, IInv, Typed, StackRight
  <2> QED  BY <1>2, <2>2, <2>3
<1> QED  BY <1>3, <1>4

LEMMA ReadStep ==
  ASSUME IInv, NEW c \in Callers, Read(c)
  PROVE  Typed' /\ CacheRight' /\ StackRight(c)'
<1> DEFINE d == Head(stack[c])
<1>1. step[c] = "read" /\ d \in Dirs /\ Enclosing(gomod)[d] = Enclosing(gomod)[asked[c]]
  BY InnermostCall DEF Read
<1>2. CacheRight'
  BY DEF Read, IInv, CacheRight
<1>3. gomod \in [Dirs -> GoModStates] /\ Parent[d] \in Dirs
  BY <1>1, ParentAssumption DEF IInv, Typed
<1>4. CASE gomod[d] = "missing" /\ Parent[d] # d
  <2>1. /\ stack' = [stack EXCEPT ![c] = <<Parent[d]>> \o stack[c]]
        /\ step' = [step EXCEPT ![c] = "look up"]
        /\ mod' = mod
    BY <1>4 DEF Read
  <2>2. Enclosing(gomod)[Parent[d]] = Enclosing(gomod)[asked[c]]
    BY <1>1, <1>3, <1>4, EnclosingIs, OwnParent
  <2> DEFINE s == <<Parent[d]>> \o stack[c]
  <2>3. stack[c] \in Seq(Dirs)
    BY DEF IInv, Typed
  <2>4. /\ s \in Seq(Dirs) /\ Len(s) > 0
        /\ \A k \in DOMAIN s : k # 1 => k - 1 \in DOMAIN stack[c] /\ s[k] = stack[c][k - 1]
        /\ s[1] = Parent[d]
    BY <1>3, <2>3
  <2>5. stack'[c] = s /\ step'[c] = "look up"
    BY <2>1 DEF IInv, Typed
  <2> HIDE DEF s
  <2>6. Typed'
    BY <2>1, <2>4 DEF Read, IInv, Typed, s
  <2>7. \A k \in DOMAIN s : Enclosing(gomod)[s[k]] = Enclosing(gomod)[asked[c]]
    BY <2>2, <2>4 DEF IInv, StackRight
  <2>8. StackRight(c)'
    BY <2>4, <2>5, <2>7 DEF Read, StackRight
  <2> QED  BY <1>2, <2>6, <2>8
<1>5. CASE ~ (gomod[d] = "missing" /\ Parent[d] # d)
  <2>1. /\ mod' = [mod EXCEPT ![c] = IF gomod[d] = "valid" THEN d ELSE Nil]
        /\ step' = [step EXCEPT ![c] = "store"]
        /\ stack' = stack
    BY <1>5 DEF Read
  <2>2. gomod[d] \in {"missing", "invalid", "valid"}
    BY <1>1, <1>3 DEF GoModStates
  <2>3. Enclosing(gomod)[d] = IF gomod[d] = "valid" THEN d ELSE Nil
    BY <1>1, <1>3, <1>5, <2>2, EnclosingIs, OwnParent
  <2>4. mod'[c] = Enclosing(gomod)[asked[c]]
    BY <1>1, <2>1, <2>3 DEF IInv, Typed
  <2>5. Typed'
    BY <2>1 DEF Read, IInv, Typed
  <2>6. StackRight(c)'
    BY <1>1, <2>1, <2>4 DEF Read, IInv, Typed, StackRight
  <2> QED  BY <1>2, <2>5, <2>6
<1> QED  BY <1>4, <1>5

LEMMA StoreStep ==
  ASSUME IInv, NEW c \in Callers, Store(c)
  PROVE  Typed' /\ CacheRight' /\ StackRight(c)'
<1> DEFINE d == Head(stack[c])
<1>1. step[c] = "store" /\ d \in Dirs /\ Enclosing(gomod)[d] = Enclosing(gomod)[asked[c]]
  BY InnermostCall DEF Store
<1>2. mod[c] = Enclosing(gomod)[asked[c]]
  BY <1>1 DEF IInv, StackRight
<1>3. CacheRight' /\ DOMAIN cache' = Dirs
  BY <1>1, <1>2 DEF Store, IInv, Typed, CacheRight
<1>4. stack' \in [Callers -> Seq(Dirs)] /\ StackRight(c)'
  BY <1>1, <1>2, Returned DEF Store
<1>5. step' \in [Callers -> {"idle", "look up", "read", "store"}]
  BY DEF Store, ReturnTo, IInv, Typed
<1> QED  BY <1>3, <1>4, <1>5 DEF Store, IInv, Typed

LEMMA InvNext == IInv /\ [Next]_vars => IInv'
<1> SUFFICES ASSUME IInv, [Next]_vars  PROVE IInv'
  OBVIOUS
<1>1. ASSUME NEW c \in Callers, CallerStep(c)  PROVE IInv'
  <2>1. Typed' /\ CacheRight' /\ StackRight(c)'
    BY <1>1, BeginStep, LookUpStep, ReadStep, StoreStep DEF CallerStep
  <2>2. \A o \in Callers \ {c} : StackRight(o)'
    BY <1>1, Others
  <2> QED  BY <2>1, <2>2 DEF IInv
<1>2. ASSUME UNCHANGED vars  PROVE IInv'
  BY <1>2 DEF vars, IInv, Typed, CacheRight, StackRight
<1> QED  BY <1>1, <1>2 DEF Next, Finished

\* gofmt.go:658-660: whatever the tree, the go.mod files and the goroutines that
\* race on the cache, a call returns the module of the directory it was given.
THEOREM ReturnsTheEnclosing == Spec => []ReturnsEnclosing
<1>1. IInv => ReturnsEnclosing
  BY DEF IInv, StackRight, ReturnsEnclosing
<1> QED  BY InvInit, InvNext, <1>1, PTL DEF Spec

================================================================================
