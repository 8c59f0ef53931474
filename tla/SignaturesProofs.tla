---------------------------- MODULE SignaturesProofs ----------------------------
(***************************************************************************)
(* Proofs about the traversal (format/format.go, File), for files of any   *)
(* size, functions in functions to any depth, lists of any fields and any  *)
(* extra rules: its variables say where it is (Located), each naked return *)
(* gets the names of its own function (ReturnsOwn), and grouping fields    *)
(* declares what was declared (FieldsKept).                                *)
(*                                                                         *)
(* Nodes are places, so that a node's place names those around it; what    *)
(* the path says of a function, a signature or what is yet to be visited   *)
(* can then be said of places.  Grouping is a function on the number of    *)
(* fields: what it keeps is shown for the least number that would break it.*)
(* What a node is printed as, and what it declares, are functions on the   *)
(* tree, and are shown to agree from the deepest nodes up.                 *)
(***************************************************************************)
EXTENDS Signatures, TLAPS, WellFoundedInduction, SequenceTheorems,
        FiniteSetTheorems

------------------------------------------------------------------------------
(* Names, up to a field *)

\* A set of natural numbers has a least one, by which the folds are reasoned about.
LEMMA LeastNatural ==
  ASSUME NEW S, S \subseteq Nat, S # {}
  PROVE  \E x \in S : \A y \in S : x <= y
<1>1. PICK x \in S : \A y \in S : ~ (<<y, x>> \in OpToRel(<, Nat))
  BY NatLessThanWellFounded, WFMin
<1>2. \A y \in S : ~ (y < x)
  BY <1>1 DEF OpToRel
<1>3. \A y \in S : x <= y
  BY <1>2
<1> QED  BY <1>3

\* The names up to a field.
Longer(names, t, f) == names \o t[f].names

\* Naming's function on the first n fields, whatever comes after.
NamedUpTo(t, fields, n) ==
  \E f : f = [k \in 0..n |-> IF k = 0 THEN <<>> ELSE Longer(f[k - 1], t, fields[k])]

\* There is such a function.
LEMMA NamingExists ==
  ASSUME NEW t, NEW fields, NEW n \in Nat
  PROVE  NamedUpTo(t, fields, n)
<1> DEFINE bad == {m \in Nat : ~ NamedUpTo(t, fields, m)}
<1> SUFFICES ASSUME bad # {}  PROVE FALSE
  OBVIOUS
<1>1. PICK m \in bad : \A y \in bad : m <= y
  BY LeastNatural
<1>2. NamedUpTo(t, fields, 0)
  <2> DEFINE f == [k \in 0..0 |-> <<>>]
  <2>1. f = [k \in 0..0 |-> IF k = 0 THEN <<>> ELSE Longer(f[k - 1], t, fields[k])]
    OBVIOUS
  <2> QED  BY <2>1 DEF NamedUpTo
<1>3. m # 0 /\ m - 1 \in Nat /\ m - 1 \notin bad
  BY <1>1, <1>2
<1>4. PICK f : f = [k \in 0..(m - 1) |-> IF k = 0 THEN <<>> ELSE Longer(f[k - 1], t, fields[k])]
  BY <1>3 DEF NamedUpTo
<1> DEFINE g == [k \in 0..m |-> IF k = m THEN Longer(f[m - 1], t, fields[m]) ELSE f[k]]
<1>5. g = [k \in 0..m |-> IF k = 0 THEN <<>> ELSE Longer(g[k - 1], t, fields[k])]
  <2> SUFFICES ASSUME NEW k \in 0..m
               PROVE  g[k] = IF k = 0 THEN <<>> ELSE Longer(g[k - 1], t, fields[k])
    OBVIOUS
  <2>1. CASE k = m
    BY <2>1, <1>3
  <2>2. CASE k # m
    <3>1. k \in 0..(m - 1)  BY <2>2, <1>1
    <3>2. g[k] = f[k]  BY <2>2
    <3>3. f[k] = IF k = 0 THEN <<>> ELSE Longer(f[k - 1], t, fields[k])
      BY <1>4, <3>1
    <3>4. k # 0 => g[k - 1] = f[k - 1]
      BY <3>1, <1>3
    <3> QED  BY <3>2, <3>3, <3>4
  <2> QED  BY <2>1, <2>2
<1>6. NamedUpTo(t, fields, m)
  BY <1>5 DEF NamedUpTo
<1> QED  BY <1>1, <1>6

\* Naming adds the names of one field after the other.
LEMMA NamingStep ==
  \A t, fields : Len(fields) \in Nat =>
    /\ Naming(t, fields)[0] = <<>>
    /\ \A k \in 1..Len(fields) :
         Naming(t, fields)[k] = Longer(Naming(t, fields)[k - 1], t, fields[k])
<1> SUFFICES ASSUME NEW t, NEW fields, Len(fields) \in Nat
             PROVE  /\ Naming(t, fields)[0] = <<>>
                    /\ \A k \in 1..Len(fields) :
                         Naming(t, fields)[k] = Longer(Naming(t, fields)[k - 1], t, fields[k])
  OBVIOUS
<1> DEFINE f == Naming(t, fields)
<1>1. f = [k \in 0..Len(fields) |-> IF k = 0 THEN <<>> ELSE Longer(f[k - 1], t, fields[k])]
  <2>1. NamedUpTo(t, fields, Len(fields))
    BY NamingExists
  <2> QED  BY <2>1, Zenon DEF NamedUpTo, Naming, Longer
<1> HIDE DEF f
<1>2. 0 \in 0..Len(fields)
  OBVIOUS
<1>3. f[0] = <<>>
  BY <1>1, <1>2
<1>4. ASSUME NEW k \in 1..Len(fields)  PROVE f[k] = Longer(f[k - 1], t, fields[k])
  <2>1. k \in 0..Len(fields) /\ k # 0
    OBVIOUS
  <2> QED  BY <1>1, <2>1
<1> QED  BY <1>3, <1>4 DEF f

\* Only the names of the fields matter.
LEMMA NamingSame ==
  ASSUME NEW t1, NEW fs1, NEW t2, NEW fs2, Len(fs1) \in Nat, Len(fs2) \in Nat,
         NEW n \in Nat, n <= Len(fs1), n <= Len(fs2),
         \A j \in 1..n : t1[fs1[j]].names = t2[fs2[j]].names
  PROVE  Naming(t1, fs1)[n] = Naming(t2, fs2)[n]
<1>a. /\ Naming(t1, fs1)[0] = <<>>
      /\ \A k \in 1..Len(fs1) : Naming(t1, fs1)[k] = Longer(Naming(t1, fs1)[k - 1], t1, fs1[k])
  BY NamingStep
<1>b. /\ Naming(t2, fs2)[0] = <<>>
      /\ \A k \in 1..Len(fs2) : Naming(t2, fs2)[k] = Longer(Naming(t2, fs2)[k - 1], t2, fs2[k])
  BY NamingStep
<1> DEFINE bad == {m \in 0..n : Naming(t1, fs1)[m] # Naming(t2, fs2)[m]}
<1> SUFFICES ASSUME bad # {}  PROVE FALSE
  OBVIOUS
<1>1. bad \subseteq Nat
  OBVIOUS
<1>2. PICK m \in bad : \A y \in bad : m <= y
  BY <1>1, LeastNatural
<1>3. m # 0
  BY <1>2, <1>a, <1>b
<1>4. m \in 1..n /\ m - 1 \in 0..n /\ m - 1 \notin bad
  BY <1>2, <1>3
<1>5. m \in 1..Len(fs1) /\ m \in 1..Len(fs2)
  BY <1>4
<1>6. Naming(t1, fs1)[m] = Longer(Naming(t1, fs1)[m - 1], t1, fs1[m])
  BY <1>5, <1>a
<1>7. Naming(t2, fs2)[m] = Longer(Naming(t2, fs2)[m - 1], t2, fs2[m])
  BY <1>5, <1>b
<1>8. Naming(t1, fs1)[m - 1] = Naming(t2, fs2)[m - 1]
  BY <1>4
<1>9. t1[fs1[m]].names = t2[fs2[m]].names
  BY <1>4
<1> QED  BY <1>2, <1>6, <1>7, <1>8, <1>9 DEF Longer

\* Names are names.
LEMMA NamingTyped ==
  ASSUME NEW S, NEW t, NEW fields, Len(fields) \in Nat,
         NEW n \in Nat, n <= Len(fields),
         \A j \in 1..n : t[fields[j]].names \in Seq(S)
  PROVE  Naming(t, fields)[n] \in Seq(S)
<1>a. /\ Naming(t, fields)[0] = <<>>
      /\ \A k \in 1..Len(fields) : Naming(t, fields)[k] = Longer(Naming(t, fields)[k - 1], t, fields[k])
  BY NamingStep
<1> DEFINE bad == {m \in 0..n : Naming(t, fields)[m] \notin Seq(S)}
<1> SUFFICES ASSUME bad # {}  PROVE FALSE
  OBVIOUS
<1>1. bad \subseteq Nat
  OBVIOUS
<1>2. PICK m \in bad : \A y \in bad : m <= y
  BY <1>1, LeastNatural
<1>3. m # 0
  <2>1. Naming(t, fields)[0] \in Seq(S)
    BY <1>a, EmptySeq
  <2> QED  BY <1>2, <2>1
<1>4. m \in 1..n /\ m - 1 \in 0..n /\ m - 1 \notin bad /\ m \in 1..Len(fields)
  BY <1>2, <1>3
<1>5. Naming(t, fields)[m] = Longer(Naming(t, fields)[m - 1], t, fields[m])
  BY <1>4, <1>a
<1>6. Naming(t, fields)[m - 1] \in Seq(S) /\ t[fields[m]].names \in Seq(S)
  BY <1>4
<1>7. Longer(Naming(t, fields)[m - 1], t, fields[m]) \in Seq(S)
  BY <1>6, ConcatProperties DEF Longer
<1> QED  BY <1>2, <1>5, <1>7

------------------------------------------------------------------------------
(* mergeAdjacentFields *)

Merge(acc, t, f) ==
  LET l == Last(acc.fields)
  IN IF acc.fields # <<>> /\ shouldMergeAdjacentFields(acc.tree, l, f)
     THEN [acc EXCEPT !.tree[l].names = @ \o t[f].names]
     ELSE [acc EXCEPT !.fields = Append(@, f)]

Start(t) == [fields |-> <<>>, tree |-> t]

MergedUpTo(t, fields, n) ==
  \E f : f = [k \in 0..n |-> IF k = 0 THEN Start(t) ELSE Merge(f[k - 1], t, fields[k])]

\* There is such a function.
LEMMA MergingExists ==
  ASSUME NEW t, NEW fields, NEW n \in Nat
  PROVE  MergedUpTo(t, fields, n)
<1> DEFINE bad == {m \in Nat : ~ MergedUpTo(t, fields, m)}
<1> SUFFICES ASSUME bad # {}  PROVE FALSE
  OBVIOUS
<1>1. PICK m \in bad : \A y \in bad : m <= y
  BY LeastNatural
<1>2. MergedUpTo(t, fields, 0)
  <2> DEFINE f == [k \in 0..0 |-> Start(t)]
  <2>1. f = [k \in 0..0 |-> IF k = 0 THEN Start(t) ELSE Merge(f[k - 1], t, fields[k])]
    OBVIOUS
  <2> QED  BY <2>1 DEF MergedUpTo
<1>3. m # 0 /\ m - 1 \in Nat /\ m - 1 \notin bad
  BY <1>1, <1>2
<1>4. PICK f : f = [k \in 0..(m - 1) |-> IF k = 0 THEN Start(t) ELSE Merge(f[k - 1], t, fields[k])]
  BY <1>3 DEF MergedUpTo
<1> DEFINE g == [k \in 0..m |-> IF k = m THEN Merge(f[m - 1], t, fields[m]) ELSE f[k]]
<1>5. g = [k \in 0..m |-> IF k = 0 THEN Start(t) ELSE Merge(g[k - 1], t, fields[k])]
  <2> SUFFICES ASSUME NEW k \in 0..m
               PROVE  g[k] = IF k = 0 THEN Start(t) ELSE Merge(g[k - 1], t, fields[k])
    OBVIOUS
  <2>1. CASE k = m
    BY <2>1, <1>3
  <2>2. CASE k # m
    <3>1. k \in 0..(m - 1)  BY <2>2, <1>1
    <3>2. g[k] = f[k]  BY <2>2
    <3>3. f[k] = IF k = 0 THEN Start(t) ELSE Merge(f[k - 1], t, fields[k])
      BY <1>4, <3>1
    <3>4. k # 0 => g[k - 1] = f[k - 1]
      BY <3>1, <1>3
    <3> QED  BY <3>2, <3>3, <3>4
  <2> QED  BY <2>1, <2>2
<1>6. MergedUpTo(t, fields, m)
  BY <1>5 DEF MergedUpTo
<1> QED  BY <1>1, <1>6

\* Merging takes one field after the other.
LEMMA MergingStep ==
  ASSUME NEW t, NEW fields, Len(fields) \in Nat
  PROVE  /\ Merging(t, fields)[0] = Start(t)
         /\ \A k \in 1..Len(fields) :
              Merging(t, fields)[k] = Merge(Merging(t, fields)[k - 1], t, fields[k])
<1> DEFINE f == Merging(t, fields)
<1>1. f = [k \in 0..Len(fields) |-> IF k = 0 THEN Start(t) ELSE Merge(f[k - 1], t, fields[k])]
  <2>1. MergedUpTo(t, fields, Len(fields))
    BY MergingExists
  <2> QED  BY <2>1, Zenon DEF MergedUpTo, Merging, Merge, Start
<1> HIDE DEF f
<1>2. 0 \in 0..Len(fields)
  OBVIOUS
<1>3. f[0] = Start(t)
  BY <1>1, <1>2
<1>4. ASSUME NEW k \in 1..Len(fields)  PROVE f[k] = Merge(f[k - 1], t, fields[k])
  <2>1. k \in 0..Len(fields) /\ k # 0
    OBVIOUS
  <2> QED  BY <1>1, <2>1
<1> QED  BY <1>3, <1>4 DEF f

\* What a sequence of nodes has to be for it: each is there once.
Fields(places, fields) ==
  /\ fields \in Seq(places)
  /\ \A j, k \in 1..Len(fields) : j # k => fields[j] # fields[k]

\* t2 is t1 but for names: none but those of the nodes in touched.
OnlyNames(t1, t2, touched) ==
  /\ t2 \in [DOMAIN t1 -> NodesOver(DOMAIN t1)]
  /\ \A n \in DOMAIN t1 :
       /\ t2[n].kind = t1[n].kind /\ t2[n].kids = t1[n].kids /\ t2[n].role = t1[n].role
       /\ t2[n].line = t1[n].line
       /\ n \notin touched => t2[n].names = t1[n].names

First(fields, k) == {fields[j] : j \in 1..k}

\* After k fields: the others are untouched, and what is left declares the names
\* that the k fields did.
MergedWell(t, fields, k, m) ==
  /\ m = [fields |-> m.fields, tree |-> m.tree]
  /\ OnlyNames(t, m.tree, First(fields, k))
  /\ Fields(First(fields, k), m.fields)
  /\ Naming(m.tree, m.fields)[Len(m.fields)] = Naming(t, fields)[k]

\* One more field: it is merged into the last one that is left, or it is left.
LEMMA MergeKeeps ==
  ASSUME NEW t, t \in [DOMAIN t -> NodesOver(DOMAIN t)],
         NEW fields, Fields(DOMAIN t, fields),
         NEW k \in 1..Len(fields), NEW m, MergedWell(t, fields, k - 1, m)
  PROVE  MergedWell(t, fields, k, Merge(m, t, fields[k]))
<1> DEFINE f  == fields[k]
           fs == m.fields
           n  == Len(fs)
           l  == Last(fs)
<1>1. /\ fields \in Seq(DOMAIN t) /\ Len(fields) \in Nat
      /\ \A i, j \in 1..Len(fields) : i # j => fields[i] # fields[j]
  BY LenProperties DEF Fields
<1>2. /\ fs \in Seq(First(fields, k - 1)) /\ n \in Nat
      /\ \A i, j \in 1..n : i # j => fs[i] # fs[j]
  BY LenProperties DEF Fields, MergedWell
<1>3. /\ First(fields, k - 1) \subseteq DOMAIN t
      /\ First(fields, k) = First(fields, k - 1) \union {f}
      /\ f \in DOMAIN t /\ f \notin First(fields, k - 1)
  <2>1. \A j \in 1..(k - 1) : j \in 1..Len(fields) /\ j # k
    BY <1>1
  <2>2. \A j \in 1..k : j \in 1..(k - 1) \/ j = k
    BY <1>1
  <2>3. \A j \in 1..Len(fields) : fields[j] \in DOMAIN t
    BY <1>1, ElementOfSeq
  <2>4. First(fields, k - 1) \subseteq DOMAIN t /\ f \in DOMAIN t /\ f \notin First(fields, k - 1)
    BY <1>1, <2>1, <2>3 DEF First
  <2>5. First(fields, k) = First(fields, k - 1) \union {f}
    BY <1>1, <2>1, <2>2 DEF First
  <2> QED  BY <2>4, <2>5
<1>4. \A j \in 1..n : fs[j] \in First(fields, k - 1)
  BY <1>2, ElementOfSeq
<1>5. /\ m = [fields |-> fs, tree |-> m.tree]
      /\ m.tree \in [DOMAIN t -> NodesOver(DOMAIN t)]
      /\ \A x \in DOMAIN t :
           /\ m.tree[x].kind = t[x].kind /\ m.tree[x].kids = t[x].kids
           /\ m.tree[x].role = t[x].role /\ m.tree[x].line = t[x].line
           /\ x \notin First(fields, k - 1) => m.tree[x].names = t[x].names
  BY DEF MergedWell, OnlyNames
<1>6. Naming(m.tree, fs)[n] = Naming(t, fields)[k - 1]
  BY DEF MergedWell
<1>7. Naming(t, fields)[k] = Longer(Naming(t, fields)[k - 1], t, f)
  <2>1. \A j \in 1..Len(fields) :
          Naming(t, fields)[j] = Longer(Naming(t, fields)[j - 1], t, fields[j])
    BY <1>1, NamingStep
  <2> QED  BY <2>1
<1>8. CASE fs # <<>> /\ shouldMergeAdjacentFields(m.tree, l, f)
  <2> DEFINE new  == m.tree[l].names \o t[f].names
             tree2 == [m.tree EXCEPT ![l].names = new]
  <2>1. n >= 1 /\ l = fs[n] /\ n \in 1..n
    BY <1>2, <1>8, EmptySeq DEF Last
  <2>2. l \in First(fields, k - 1) /\ l \in DOMAIN t /\ \A j \in 1..(n - 1) : fs[j] # l
    <3>1. l \in First(fields, k - 1)
      BY <1>4, <2>1
    <3>2. l \in DOMAIN t
      BY <1>3, <3>1
    <3>3. \A j \in 1..(n - 1) : j \in 1..n /\ j # n
      BY <1>2
    <3>4. \A j \in 1..(n - 1) : fs[j] # l
      BY <1>2, <2>1, <3>3
    <3> QED  BY <3>1, <3>2, <3>4
  <2>3. Merge(m, t, f) = [fields |-> fs, tree |-> tree2]
    BY <1>5, <1>8 DEF Merge
  <2>4. m.tree[l] \in NodesOver(DOMAIN t) /\ t[f] \in NodesOver(DOMAIN t)
    BY <1>3, <1>5, <2>2
  <2>5. new \in Seq(STRING)
    BY <2>4, ConcatProperties DEF NodesOver
  <2>6. /\ tree2 \in [DOMAIN t -> NodesOver(DOMAIN t)]
        /\ \A x \in DOMAIN t : x # l => tree2[x] = m.tree[x]
        /\ tree2[l].names = new /\ tree2[l].kind = m.tree[l].kind
        /\ tree2[l].kids = m.tree[l].kids /\ tree2[l].role = m.tree[l].role
        /\ tree2[l].line = m.tree[l].line
    <3>1. [m.tree[l] EXCEPT !.names = new] \in NodesOver(DOMAIN t)
      BY <2>4, <2>5 DEF NodesOver
    <3> QED  BY <1>5, <2>2, <2>4, <3>1 DEF NodesOver
  <2> HIDE DEF tree2
  <2>7. OnlyNames(t, tree2, First(fields, k))
    BY <1>3, <1>5, <2>2, <2>6 DEF OnlyNames
  <2>8. Fields(First(fields, k), fs)
    <3>1. fs \in Seq(First(fields, k))
      BY <1>2, <1>3
    <3> QED  BY <1>2, <3>1 DEF Fields
  <2>9. Naming(tree2, fs)[n] = Naming(t, fields)[k]
    <3>1. Naming(tree2, fs)[n - 1] = Naming(m.tree, fs)[n - 1]
      <4>1. \A j \in 1..(n - 1) : tree2[fs[j]].names = m.tree[fs[j]].names
        <5>1. \A j \in 1..(n - 1) : j \in 1..n
          BY <1>2
        <5>2. \A j \in 1..(n - 1) : fs[j] \in DOMAIN t /\ fs[j] # l
          BY <1>3, <1>4, <2>2, <5>1
        <5>3. \A x \in DOMAIN t : x # l => tree2[x].names = m.tree[x].names
          BY <2>6
        <5> QED  BY ONLY <5>2, <5>3
      <4>2. n - 1 \in Nat /\ n - 1 <= Len(fs) /\ Len(fs) \in Nat
        BY <1>2, <2>1
      <4> DEFINE j == n - 1
                 t1 == m.tree
      <4>3. /\ j \in Nat /\ j <= Len(fs) /\ Len(fs) \in Nat
            /\ \A x \in 1..j : tree2[fs[x]].names = t1[fs[x]].names
        BY <4>1, <4>2
      <4> HIDE DEF j, t1, fs
      <4>4. Naming(tree2, fs)[j] = Naming(t1, fs)[j]
        BY <4>3, NamingSame
      <4> QED  BY <4>4 DEF j, t1
    <3>2. Naming(tree2, fs)[n] = Longer(Naming(tree2, fs)[n - 1], tree2, l)
      <4>1. \A j \in 1..n : Naming(tree2, fs)[j] = Longer(Naming(tree2, fs)[j - 1], tree2, fs[j])
        BY <1>2, NamingStep
      <4> QED  BY <2>1, <4>1
    <3>3. Naming(m.tree, fs)[n] = Longer(Naming(m.tree, fs)[n - 1], m.tree, l)
      <4>1. \A j \in 1..n : Naming(m.tree, fs)[j] = Longer(Naming(m.tree, fs)[j - 1], m.tree, fs[j])
        BY <1>2, NamingStep
      <4> QED  BY <2>1, <4>1
    <3>4. Naming(m.tree, fs)[n - 1] \in Seq(STRING)
      <4>1. \A j \in 1..(n - 1) : m.tree[fs[j]].names \in Seq(STRING)
        <5> SUFFICES ASSUME NEW j \in 1..(n - 1)  PROVE m.tree[fs[j]].names \in Seq(STRING)
          OBVIOUS
        <5>1. fs[j] \in DOMAIN t
          BY <1>2, <1>3, <1>4
        <5>2. m.tree[fs[j]] \in NodesOver(DOMAIN t)
          BY <1>5, <5>1
        <5> QED  BY <5>2 DEF NodesOver
      <4>2. n - 1 \in Nat /\ n - 1 <= n
        BY <1>2, <2>1
      <4> QED  BY <1>2, <4>1, <4>2, NamingTyped
    <3>5. m.tree[l].names \in Seq(STRING) /\ t[f].names \in Seq(STRING)
      BY <2>4 DEF NodesOver
    <3>6. Naming(m.tree, fs)[n - 1] \o new
            = (Naming(m.tree, fs)[n - 1] \o m.tree[l].names) \o t[f].names
      <4> DEFINE a == Naming(m.tree, fs)[n - 1]
                 b == m.tree[l].names
                 c == t[f].names
      <4>1. a \in Seq(STRING) /\ b \in Seq(STRING) /\ c \in Seq(STRING)
        BY <3>4, <3>5
      <4> HIDE DEF a, b, c
      <4>2. (a \o b) \o c = a \o (b \o c)
        BY <4>1, ConcatAssociative, SMTT(30)
      <4> QED  BY <4>2 DEF a, b, c
    <3> QED  BY <1>6, <1>7, <2>6, <3>1, <3>2, <3>3, <3>6 DEF Longer
  <2> QED  BY <2>3, <2>7, <2>8, <2>9 DEF MergedWell
<1>9. CASE ~ (fs # <<>> /\ shouldMergeAdjacentFields(m.tree, l, f))
  <2> DEFINE gs == Append(fs, f)
  <2>1. Merge(m, t, f) = [fields |-> gs, tree |-> m.tree]
    BY <1>5, <1>9 DEF Merge
  <2>2. /\ gs \in Seq(First(fields, k)) /\ Len(gs) = n + 1 /\ gs[n + 1] = f
        /\ \A j \in 1..n : gs[j] = fs[j]
    <3>1. fs \in Seq(First(fields, k)) /\ f \in First(fields, k)
      BY <1>2, <1>3
    <3> QED  BY <1>2, <3>1, AppendProperties
  <2> HIDE DEF gs
  <2>3. OnlyNames(t, m.tree, First(fields, k))
    BY <1>3, <1>5 DEF OnlyNames
  <2>4. Fields(First(fields, k), gs)
    <3>1. \A j \in 1..n : gs[j] # f
      BY <1>3, <1>4, <2>2
    <3>2. \A j \in 1..Len(gs) : j \in 1..n \/ j = n + 1
      BY <1>2, <2>2
    <3>3. \A i, j \in 1..Len(gs) : i # j => gs[i] # gs[j]
      BY <1>2, <2>2, <3>1, <3>2
    <3> QED  BY <2>2, <3>3 DEF Fields
  <2>5. Naming(m.tree, gs)[n + 1] = Naming(t, fields)[k]
    <3>1. Naming(m.tree, gs)[n] = Naming(m.tree, fs)[n]
      <4>1. Len(gs) \in Nat /\ n <= Len(gs) /\ n <= Len(fs)
        BY <1>2, <2>2
      <4>2. \A j \in 1..n : m.tree[gs[j]].names = m.tree[fs[j]].names
        BY <2>2
      <4> QED  BY <1>2, <4>1, <4>2, NamingSame
    <3>2. Naming(m.tree, gs)[n + 1] = Longer(Naming(m.tree, gs)[n], m.tree, f)
      <4>1. \A j \in 1..(n + 1) : Naming(m.tree, gs)[j] = Longer(Naming(m.tree, gs)[j - 1], m.tree, gs[j])
        BY <1>2, <2>2, NamingStep
      <4>2. n + 1 \in 1..(n + 1) /\ (n + 1) - 1 = n
        BY <1>2
      <4> QED  BY <2>2, <4>1, <4>2
    <3>3. m.tree[f].names = t[f].names
      BY <1>3, <1>5
    <3> QED  BY <1>6, <1>7, <3>1, <3>2, <3>3 DEF Longer
  <2> QED  BY <2>1, <2>2, <2>3, <2>4, <2>5 DEF MergedWell
<1> QED  BY <1>8, <1>9

\* mergeAdjacentFields changes names and declares what was declared.
LEMMA MergeRight ==
  ASSUME NEW t, t \in [DOMAIN t -> NodesOver(DOMAIN t)],
         NEW fields, Fields(DOMAIN t, fields)
  PROVE  MergedWell(t, fields, Len(fields), mergeAdjacentFields(t, fields))
<1> DEFINE M == Merging(t, fields)
           bad == {k \in 0..Len(fields) : ~ MergedWell(t, fields, k, M[k])}
<1>1. Len(fields) \in Nat
  BY LenProperties DEF Fields
<1>2. /\ M[0] = Start(t)
      /\ \A k \in 1..Len(fields) : M[k] = Merge(M[k - 1], t, fields[k])
  BY <1>1, MergingStep
<1> HIDE DEF M
<1>3. MergedWell(t, fields, 0, M[0])
  <2>1. First(fields, 0) = {}
    BY DEF First
  <2>2. Start(t).fields = <<>> /\ Start(t).tree = t
    BY DEF Start
  <2>3. Fields({}, <<>>)
    BY EmptySeq DEF Fields
  <2>4. OnlyNames(t, t, {})
    BY DEF OnlyNames
  <2>5. Len(<<>>) = 0
    BY EmptySeq
  <2>6. Naming(t, <<>>)[0] = <<>> /\ Naming(t, fields)[0] = <<>>
    BY <1>1, <2>5, NamingStep
  <2> QED  BY <1>2, <2>1, <2>2, <2>3, <2>4, <2>5, <2>6 DEF MergedWell, Start
<1>4. bad = {}
  <2> SUFFICES ASSUME bad # {}  PROVE FALSE
    OBVIOUS
  <2>1. bad \subseteq Nat
    BY <1>1
  <2>2. PICK k \in bad : \A y \in bad : k <= y
    BY <2>1, LeastNatural
  <2>3. k \in 1..Len(fields) /\ k - 1 \in 0..Len(fields) /\ ~ (k <= k - 1)
    BY <1>1, <1>3, <2>2
  <2>4. MergedWell(t, fields, k - 1, M[k - 1])
    BY <2>2, <2>3
  <2>5. MergedWell(t, fields, k, Merge(M[k - 1], t, fields[k]))
    BY <2>3, <2>4, MergeKeeps
  <2> QED  BY <1>2, <2>2, <2>3, <2>5
<1>5. Len(fields) \in 0..Len(fields)
  BY <1>1
<1> QED  BY <1>4, <1>5 DEF mergeAdjacentFields, M

------------------------------------------------------------------------------
(* The inductive invariant of Located *)

\* The nodes.
Places == DOMAIN source

\* The tree keeps its nodes; only lists lose some of theirs.
SameTree ==
  /\ source \in Files
  /\ tree \in [Places -> NodesOver(Places)]
  /\ \A n \in Places :
       /\ tree[n].kind = source[n].kind /\ tree[n].role = source[n].role
       /\ tree[n].line = source[n].line
       /\ tree[n].kind # "FieldList" => tree[n].kids = source[n].kids
       /\ Fields(Range(source[n].kids), tree[n].kids)

\* The path goes from the file to where the traversal is, and each frame is past
\* the child the next one is about.
OnPath ==
  /\ path \in Seq([node : Places, next : Nat])
  /\ \A k \in 1..Len(path) :
       LET n == path[k].node IN
       /\ Len(n) = k
       /\ path[k].next \in 1..(Len(tree[n].kids) + 1)
       /\ \A j \in 1..k : path[j].node = Up(n, j)
       /\ k > 1 => /\ path[k - 1].next > 1
                   /\ n = tree[path[k - 1].node].kids[path[k - 1].next - 1]

\* parentFuncTypes has the types of the functions around, in order.
FuncStack ==
  /\ parentFuncTypes \in Seq(Places)
  /\ Len(parentFuncTypes) = Cardinality(Around(Funcs))
  /\ \A k \in Around(Funcs) :
       parentFuncTypes[Cardinality(Around(Funcs) \intersect (1..k))] = TypeOf(tree, path[k].node)

\* blockLevel counts the blocks around.
BlockDepth == blockLevel = Cardinality(Around({"BlockStmt"}))

\* topFuncType is the type of the declared function the traversal is in, or else
\* of one it has left.
Top ==
  /\ \/ topFuncType = Nil
     \/ \E f \in Nodes(tree, {"FuncDecl"}) : topFuncType = TypeOf(tree, f)
  /\ Len(path) >= 2 /\ Kind(path[2].node) = "FuncDecl" =>
       topFuncType = TypeOf(tree, path[2].node)

\* What minSplitFactor is in a list, and whether the declared function's type is around.
Factor(role) == CASE role = "params" -> 6 [] role = "results" -> 10000 [] OTHER -> 4
InTop == Len(path) >= 3 /\ path[3].node = topFuncType

\* The list of the signature visited last tells minSplitFactor.
LastRole == tree[tree[topFuncType].kids[path[3].next - 1]].role
Split ==
  minSplitFactor = IF InTop /\ path[3].next > 1 THEN Factor(LastRole) ELSE 4

\* All of them are needed for each: a variable is set back on leaving what set it.
Inv == SameTree /\ OnPath /\ FuncStack /\ BlockDepth /\ Top /\ Split

------------------------------------------------------------------------------
(* What the syntax of a file says of the tree *)

\* The node at a depth has the place that far.
LEMMA UpIs ==
  ASSUME NEW n \in Seq(Nat), NEW k \in 0..Len(n)
  PROVE  /\ Up(n, k) \in Seq(Nat) /\ Len(Up(n, k)) = k
         /\ \A j \in 1..k : Up(n, k)[j] = n[j]
<1>1. Len(n) \in Nat /\ \A i \in 1..k : n[i] \in Nat
  BY LenProperties, ElementOfSeq
<1> QED  BY <1>1, SubSeqProperties DEF Up

\* Places that agree so far are under the same node.
LEMMA UpSame ==
  ASSUME NEW n \in Seq(Nat), NEW m \in Seq(Nat), NEW k \in Nat,
         k <= Len(n), k <= Len(m), \A j \in 1..k : n[j] = m[j]
  PROVE  Up(n, k) = Up(m, k)
<1>1. Len(n) \in Nat /\ Len(m) \in Nat
  BY LenProperties
<1>2. k \in 0..Len(n) /\ k \in 0..Len(m)
  BY <1>1
<1>3. /\ Up(n, k) \in Seq(Nat) /\ Len(Up(n, k)) = k
      /\ \A j \in 1..k : Up(n, k)[j] = n[j]
  BY <1>2, UpIs
<1>4. /\ Up(m, k) \in Seq(Nat) /\ Len(Up(m, k)) = k
      /\ \A j \in 1..k : Up(m, k)[j] = m[j]
  BY <1>2, UpIs
<1> QED  BY <1>3, <1>4, SeqEqual

\* Above a node above is above.
LEMMA UpUp ==
  ASSUME NEW n \in Seq(Nat), NEW k \in 0..Len(n), NEW j \in 0..k
  PROVE  Up(Up(n, k), j) = Up(n, j)
<1>1. Len(n) \in Nat
  BY LenProperties
<1>2. /\ Up(n, k) \in Seq(Nat) /\ Len(Up(n, k)) = k
      /\ \A i \in 1..k : Up(n, k)[i] = n[i]
  BY UpIs
<1>3. j \in Nat /\ j <= Len(n) /\ j <= Len(Up(n, k)) /\ \A i \in 1..j : Up(n, k)[i] = n[i]
  BY <1>1, <1>2
<1> QED  BY <1>2, <1>3, UpSame

\* A child's place is one number longer than its parent's.
LEMMA UpChild ==
  ASSUME NEW n \in Seq(Nat), NEW i \in Nat
  PROVE  /\ Append(n, i) \in Seq(Nat) /\ Len(Append(n, i)) = Len(n) + 1
         /\ Append(n, i)[Len(n) + 1] = i
         /\ \A k \in 0..Len(n) : Up(Append(n, i), k) = Up(n, k)
         /\ Up(n, Len(n)) = n
<1>1. Len(n) \in Nat
  BY LenProperties
<1>2. /\ Append(n, i) \in Seq(Nat) /\ Len(Append(n, i)) = Len(n) + 1
      /\ \A j \in 1..Len(n) : Append(n, i)[j] = n[j]
      /\ Append(n, i)[Len(n) + 1] = i
  BY AppendProperties
<1>3. ASSUME NEW k \in 0..Len(n)  PROVE Up(Append(n, i), k) = Up(n, k)
  <2>1. /\ k \in Nat /\ k <= Len(n) /\ k <= Len(Append(n, i))
        /\ \A j \in 1..k : Append(n, i)[j] = n[j]
    BY <1>1, <1>2
  <2> QED  BY <1>2, <2>1, UpSame
<1>4. Up(n, Len(n)) = n
  BY SubSeqFull DEF Up
<1> QED  BY <1>2, <1>3, <1>4

\* A child is a node whose place extends its parent's.
LEMMA ChildIs ==
  ASSUME SameTree, NEW n \in Places, NEW c \in Range(source[n].kids)
  PROVE  /\ c \in Places /\ n \in Seq(Nat) /\ c \in Seq(Nat)
         /\ Len(n) \in Nat /\ Len(c) = Len(n) + 1 /\ Up(c, Len(n)) = n
         /\ \A k \in 0..Len(n) : Up(c, k) = Up(n, k)
<1>1. IsTree(source)
  BY FilesAssumption DEF SameTree
<1>2. /\ n \in Seq(Nat) /\ source[n] \in NodesOver(Places)
      /\ \A k \in 1..Len(source[n].kids) : source[n].kids[k] = Append(n, k)
  BY <1>1 DEF IsTree, Places
<1>3. source[n].kids \in Seq(Places)
  BY <1>2 DEF NodesOver
<1>4. PICK k \in 1..Len(source[n].kids) : c = source[n].kids[k]
  BY <1>3, LenProperties DEF Range
<1>5. c \in Places /\ c = Append(n, k) /\ k \in Nat
  BY <1>2, <1>3, <1>4, ElementOfSeq
<1>6. Len(n) \in Nat
  BY <1>2, LenProperties
<1> QED  BY <1>2, <1>5, <1>6, UpChild

\* What is left in a list was there from the start.
LEMMA KidIs ==
  ASSUME SameTree, NEW n \in Places, NEW i \in 1..Len(tree[n].kids)
  PROVE  tree[n].kids[i] \in Range(source[n].kids)
BY ElementOfSeq DEF SameTree, Fields

\* What go/ast says of one place.
LEMMA SyntaxIs ==
  ASSUME SameTree, NEW n \in Places
  PROVE  /\ source[n].kind = tree[n].kind /\ source[n].role = tree[n].role
         /\ n \in Seq(Nat) /\ Len(n) \in Nat /\ Len(n) >= 1 /\ Up(n, 1) = File
         /\ source[n].kind = "File" <=> n = File
         /\ source[n].kind = "FuncDecl" => Len(n) = 2
         /\ source[n].kind = "FieldList" =>
              \A k \in Range(source[n].kids) : source[k].kind = "Field"
         /\ source[n].kind = "ReturnStmt" =>
              \E k \in 1..(Len(n) - 1) : source[Up(n, k)].kind \in Funcs
         /\ source[n].kind = "FuncType" =>
              /\ \A k \in Range(source[n].kids) : source[k].kind = "FieldList"
              /\ \A j, k \in 1..Len(source[n].kids) :
                   j < k /\ source[source[n].kids[j]].role \in {"params", "results"}
                   => source[source[n].kids[k]].role \in {"params", "results"}
<1>1. IsTree(source) /\ IsSyntax(source) /\ n \in DOMAIN source
  BY FilesAssumption DEF SameTree, Places
<1>2. n \in Seq(Nat) /\ n # <<>> /\ Up(n, 1) = File
  BY <1>1 DEF IsTree
<1>3. Len(n) \in Nat /\ Len(n) >= 1
  BY <1>2, EmptySeq
<1>4. source[n].kind = tree[n].kind /\ source[n].role = tree[n].role
  BY DEF SameTree
<1>5. source[n].kind = "File" <=> n = File
  BY <1>1, Zenon DEF IsSyntax
<1>6. source[n].kind = "FuncDecl" => Len(n) = 2
  BY <1>1, Zenon DEF IsSyntax
<1>7. source[n].kind = "FieldList" =>
        \A k \in Range(source[n].kids) : source[k].kind = "Field"
  BY <1>1, Zenon DEF IsSyntax
<1>8. source[n].kind = "ReturnStmt" =>
        \E k \in 1..(Len(n) - 1) : source[Up(n, k)].kind \in Funcs
  BY <1>1, Zenon DEF IsSyntax
<1>9. source[n].kind = "FuncType" =>
        \A k \in Range(source[n].kids) : source[k].kind = "FieldList"
  BY <1>1, Zenon DEF IsSyntax
<1>10. source[n].kind = "FuncType" =>
         \A j, k \in 1..Len(source[n].kids) :
           j < k /\ source[source[n].kids[j]].role \in {"params", "results"}
           => source[source[n].kids[k]].role \in {"params", "results"}
  BY <1>1, Zenon DEF IsSyntax
<1> QED  BY <1>2, <1>3, <1>4, <1>5, <1>6, <1>7, <1>8, <1>9, <1>10

\* Functions are declared in the file.
LEMMA DeclIs ==
  ASSUME SameTree, NEW n \in Places, tree[n].kind = "FuncDecl"
  PROVE  Len(n) = 2
<1>1. IsSyntax(source) /\ n \in DOMAIN source
  BY FilesAssumption DEF SameTree, Places
<1>2. source[n].kind = "FuncDecl" => Len(n) = 2
  BY <1>1, Zenon DEF IsSyntax
<1>3. source[n].kind = "FuncDecl"
  BY DEF SameTree
<1> QED  BY <1>2, <1>3

\* A place has the kind it has in the source, and functions one type.
LEMMA TypeIs ==
  ASSUME SameTree, NEW f \in Places, tree[f].kind \in Funcs
  PROVE  /\ TypeOf(tree, f) \in Range(source[f].kids)
         /\ tree[TypeOf(tree, f)].kind = "FuncType"
         /\ TypeOf(tree, f) = TypeOf(source, f)
         /\ \A c \in Range(source[f].kids) : tree[c].kind = "FuncType" => c = TypeOf(tree, f)
<1>1. IsSyntax(source)
  BY FilesAssumption DEF SameTree
<1>2. source[f].kind \in Funcs
  BY DEF SameTree
<1>3. PICK type \in Range(source[f].kids) :
        \A c \in Range(source[f].kids) : source[c].kind = "FuncType" <=> c = type
  BY <1>1, <1>2 DEF IsSyntax, Places
<1>4. tree[f].kids = source[f].kids
  BY DEF SameTree, Funcs
<1>5. \A c \in Range(source[f].kids) : c \in Places /\ tree[c].kind = source[c].kind
  BY ChildIs DEF SameTree
<1>6. \A c \in Range(source[f].kids) : tree[c].kind = "FuncType" <=> c = type
  BY <1>3, <1>5
<1>7. TypeOf(tree, f) = type
  BY <1>4, <1>6 DEF TypeOf
<1>8. TypeOf(source, f) = type
  BY <1>3 DEF TypeOf
<1> QED  BY <1>6, <1>7, <1>8

------------------------------------------------------------------------------
(* Steps of the path *)

\* Where the traversal is.
LEMMA Standing ==
  ASSUME SameTree, OnPath, path # <<>>
  PROVE  /\ Len(path) \in Nat /\ Len(path) >= 1
         /\ Node \in Places /\ Len(Node) = Len(path)
         /\ nextKid \in 1..(Len(tree[Node].kids) + 1)
         /\ Len(tree[Node].kids) \in Nat
         /\ \A k \in 1..Len(path) : path[k].node \in Places /\ path[k].next \in Nat
<1>1. Len(path) \in Nat /\ Len(path) >= 1
  BY EmptySeq, LenProperties DEF OnPath
<1>2. Len(path) \in 1..Len(path)
  BY <1>1
<1>3. \A k \in 1..Len(path) : path[k] \in [node : Places, next : Nat]
  BY <1>1, ElementOfSeq DEF OnPath
<1>4. \A k \in 1..Len(path) : path[k].node \in Places /\ path[k].next \in Nat
  BY <1>3
<1>5. Len(Node) = Len(path) /\ nextKid \in 1..(Len(tree[Node].kids) + 1)
  BY <1>2 DEF OnPath, Node, nextKid
<1>6. Len(tree[Node].kids) \in Nat
  BY <1>2, <1>4, LenProperties DEF SameTree, Fields, Node
<1> QED  BY <1>1, <1>2, <1>4, <1>5, <1>6 DEF Node

\* The child to be visited is a node right under Node.
LEMMA ChildIn ==
  ASSUME SameTree, OnPath, NEW kinds, CanEnter(kinds)
  PROVE  /\ Child \in Places /\ Child \in Range(source[Node].kids)
         /\ Kind(Child) \in kinds
         /\ Len(Child) = Len(path) + 1 /\ Len(Child) \in Nat
         /\ nextKid \in 1..Len(tree[Node].kids)
         /\ \A k \in 1..Len(path) : Up(Child, k) = path[k].node
<1>1. path # <<>> /\ nextKid <= Len(tree[Node].kids) /\ Kind(Child) \in kinds
  BY DEF CanEnter, Child
<1>2. /\ Len(path) \in Nat /\ Len(path) >= 1
      /\ Node \in Places /\ Len(Node) = Len(path)
      /\ nextKid \in 1..(Len(tree[Node].kids) + 1)
      /\ Len(tree[Node].kids) \in Nat
  BY <1>1, Standing
<1>3. nextKid \in 1..Len(tree[Node].kids)
  BY <1>1, <1>2
<1>4. Child \in Range(source[Node].kids)
  BY <1>2, <1>3, KidIs DEF Child
<1>5. /\ Child \in Places /\ Len(Child) = Len(path) + 1
      /\ \A k \in 0..Len(path) : Up(Child, k) = Up(Node, k)
  BY <1>2, <1>4, ChildIs
<1>7. Len(Child) \in Nat
  BY <1>2, <1>5
<1>6. \A k \in 1..Len(path) : path[k].node = Up(Node, k)
  BY <1>2 DEF OnPath, Node
<1> QED  BY <1>1, <1>2, <1>3, <1>4, <1>5, <1>6, <1>7

\* What Descend does to the path.
LEMMA Descending ==
  ASSUME SameTree, OnPath, NEW kinds, CanEnter(kinds), Descend
  PROVE  /\ Len(path') = Len(path) + 1
         /\ path' \in Seq([node : Places, next : Nat])
         /\ \A k \in 1..Len(path) : path'[k].node = path[k].node
         /\ \A k \in 1..(Len(path) - 1) : path'[k] = path[k]
         /\ path'[Len(path)].next = nextKid + 1
         /\ path'[Len(path) + 1].node = Child /\ path'[Len(path) + 1].next = 1
<1> DEFINE frames == [node : Places, next : Nat]
           top == path[Len(path)]
           past == [path EXCEPT ![Len(path)].next = @ + 1]
<1>1. /\ Len(path) \in Nat /\ Len(path) >= 1 /\ path \in Seq(frames)
      /\ Len(path) \in 1..Len(path) /\ Child \in Places
  BY Standing, ChildIn DEF CanEnter, OnPath
<1>2. top \in frames
  BY <1>1, ElementOfSeq
<1>3. past = [path EXCEPT ![Len(path)] = [top EXCEPT !.next = @ + 1]]
  OBVIOUS
<1>4. /\ [top EXCEPT !.next = @ + 1] \in frames
      /\ [top EXCEPT !.next = @ + 1].node = top.node
      /\ [top EXCEPT !.next = @ + 1].next = top.next + 1
  BY <1>2
<1> DEFINE moved == [top EXCEPT !.next = @ + 1]
<1> HIDE DEF frames, top, moved
<1>5. /\ past \in Seq(frames) /\ Len(past) = Len(path)
      /\ \A j \in 1..Len(path) : past[j] = IF j = Len(path) THEN moved ELSE path[j]
  <2>1. PICK last \in 1..Len(path) : last = Len(path)
    BY <1>1
  <2>2. moved \in frames
    BY <1>4 DEF moved
  <2>3. LET more == [path EXCEPT ![last] = moved] IN
        /\ more \in Seq(frames) /\ Len(more) = Len(path)
        /\ \A j \in 1..Len(path) : more[j] = IF j = last THEN moved ELSE path[j]
    BY <1>1, <2>2, ExceptSeq
  <2>4. past = [path EXCEPT ![last] = moved]
    BY <1>3, <2>1 DEF moved
  <2> QED  BY <2>1, <2>3, <2>4
<1>6. Frame(Child) \in frames
  BY <1>1 DEF Frame, frames
<1> HIDE DEF past
<1>7. path' = Append(past, Frame(Child))
  BY DEF Descend, past
<1>8. /\ path' \in Seq(frames) /\ Len(path') = Len(path) + 1
      /\ \A j \in 1..Len(path) : path'[j] = past[j]
      /\ path'[Len(path) + 1] = Frame(Child)
  BY <1>5, <1>6, <1>7, AppendProperties
<1>9. \A k \in 1..Len(path) : path'[k] = IF k = Len(path) THEN moved ELSE path[k]
  BY <1>5, <1>8
<1>10. moved.node = path[Len(path)].node /\ moved.next = nextKid + 1
  BY <1>4 DEF moved, top, nextKid
<1>11. \A k \in 1..Len(path) : path'[k].node = path[k].node
  BY <1>9, <1>10
<1>12. \A k \in 1..(Len(path) - 1) : k \in 1..Len(path) /\ k # Len(path)
  BY <1>1
<1>13. \A k \in 1..(Len(path) - 1) : path'[k] = path[k]
  BY <1>9, <1>12
<1>14. path'[Len(path)].next = nextKid + 1
  BY <1>1, <1>9, <1>10
<1> QED  BY <1>8, <1>11, <1>13, <1>14 DEF Frame, frames

\* What Ascend does to the path.
LEMMA Ascending ==
  ASSUME SameTree, OnPath, path # <<>>, Ascend
  PROVE  /\ Len(path') = Len(path) - 1
         /\ path' \in Seq([node : Places, next : Nat])
         /\ \A k \in 1..(Len(path) - 1) : path'[k] = path[k]
<1> DEFINE frames == [node : Places, next : Nat]
<1>1. Len(path) \in Nat /\ Len(path) >= 1 /\ path \in Seq(frames)
  BY Standing DEF OnPath
<1> HIDE DEF frames
<1>2. \A i \in 1..(Len(path) - 1) : path[i] \in frames
  BY <1>1, ElementOfSeq
<1>3. path' = SubSeq(path, 1, Len(path) - 1)
  BY DEF Ascend
<1> DEFINE top == Len(path) - 1
<1>4. 1 \in Int /\ top \in Int /\ top \in Nat
  BY <1>1
<1> HIDE DEF top
<1>5. /\ SubSeq(path, 1, top) \in Seq(frames)
      /\ Len(SubSeq(path, 1, top)) = IF 1 <= top THEN top - 1 + 1 ELSE 0
      /\ \A i \in 1..(top - 1 + 1) : SubSeq(path, 1, top)[i] = path[1 + i - 1]
  BY <1>2, <1>4, SubSeqProperties DEF top
<1>6. \A k \in 1..top : k \in 1..(top - 1 + 1) /\ 1 + k - 1 = k
  BY <1>4
<1>7. \A k \in 1..top : SubSeq(path, 1, top)[k] = path[k]
  BY <1>5, <1>6
<1>8. Len(SubSeq(path, 1, top)) = top
  BY <1>4, <1>5
<1> QED  BY <1>3, <1>5, <1>7, <1>8 DEF frames, top

\* The lists the traversal is in stay as they are.
SameAround == \A k \in 1..Len(path) : tree'[path[k].node].kids = tree[path[k].node].kids

\* The path stays one from the file down, as long as the lists on it stay.
LEMMA PathDown ==
  ASSUME SameTree, OnPath, NEW kinds, CanEnter(kinds), Descend,
         UNCHANGED source, SameTree', SameAround
  PROVE  OnPath'
<1> DEFINE N == Len(path)
<1>1. /\ N \in Nat /\ N >= 1 /\ Node \in Places /\ Len(Node) = N /\ Node = path[N].node
      /\ nextKid \in Nat /\ nextKid >= 1 /\ nextKid = path[N].next
  BY Standing DEF CanEnter, Node, nextKid
<1>2. /\ Child \in Places /\ Child \in Range(source[Node].kids) /\ Len(Child) = N + 1
      /\ nextKid \in 1..Len(tree[Node].kids) /\ Child = tree[Node].kids[nextKid]
      /\ \A k \in 1..N : Up(Child, k) = path[k].node
  BY ChildIn DEF Child
<1>3. /\ Len(path') = N + 1
      /\ path' \in Seq([node : Places, next : Nat])
      /\ \A k \in 1..N : path'[k].node = path[k].node
      /\ \A k \in 1..(N - 1) : path'[k] = path[k]
      /\ path'[N].next = nextKid + 1
      /\ path'[N + 1].node = Child /\ path'[N + 1].next = 1
  BY Descending
<1>4. Places' = Places
  BY DEF Places
<1>5. /\ Child \in Seq(Nat) /\ Up(Child, N + 1) = Child
  <2>1. Child \in Seq(Nat)
    BY <1>1, <1>2, ChildIs
  <2> QED  BY <1>2, <2>1, SubSeqFull DEF Up
<1>6. Len(tree'[Child].kids) \in Nat
  BY <1>2, <1>4, LenProperties DEF SameTree, Fields
<1>7. ASSUME NEW k \in 1..Len(path')
      PROVE  /\ Len(path'[k].node) = k
             /\ path'[k].next \in 1..(Len(tree'[path'[k].node].kids) + 1)
             /\ \A j \in 1..k : path'[j].node = Up(path'[k].node, j)
             /\ k > 1 => /\ path'[k - 1].next > 1
                         /\ path'[k].node = tree'[path'[k - 1].node].kids[path'[k - 1].next - 1]
  <2>1. CASE k \in 1..(N - 1)
    <3>1. k \in 1..N /\ \A j \in 1..k : j \in 1..(N - 1) /\ j \in 1..N
      BY <1>1, <2>1
    <3>2. /\ Len(path[k].node) = k
          /\ path[k].next \in 1..(Len(tree[path[k].node].kids) + 1)
          /\ \A j \in 1..k : path[j].node = Up(path[k].node, j)
          /\ k > 1 => /\ path[k - 1].next > 1
                      /\ path[k].node = tree[path[k - 1].node].kids[path[k - 1].next - 1]
      BY <3>1 DEF OnPath
    <3>3. \A j \in 1..k : /\ path'[j] = path[j]
                          /\ tree'[path[j].node].kids = tree[path[j].node].kids
      BY <1>3, <3>1 DEF SameAround
    <3>4. k \in 1..k /\ (k > 1 => k - 1 \in 1..k)
      OBVIOUS
    <3> QED  BY <3>2, <3>3, <3>4
  <2>2. CASE k = N
    <3>1. /\ Len(path[N].node) = N
          /\ \A j \in 1..N : path[j].node = Up(path[N].node, j)
          /\ N > 1 => /\ path[N - 1].next > 1
                      /\ path[N].node = tree[path[N - 1].node].kids[path[N - 1].next - 1]
      BY <1>1 DEF OnPath
    <3>2. \A j \in 1..N : tree'[path[j].node].kids = tree[path[j].node].kids
      BY DEF SameAround
    <3>3. N \in 1..N /\ (N > 1 => N - 1 \in 1..N /\ N - 1 \in 1..(N - 1))
      BY <1>1
    <3>4. path'[N].node = Node /\ tree'[Node].kids = tree[Node].kids
      BY <1>1, <1>3, <3>2, <3>3
    <3>5. path'[N].next \in 1..(Len(tree'[path'[N].node].kids) + 1)
      <4>1. Len(tree[Node].kids) \in Nat
        BY Standing DEF CanEnter
      <4>2. nextKid + 1 \in 1..(Len(tree[Node].kids) + 1)
        BY <1>2, <4>1
      <4> QED  BY <1>3, <3>4, <4>2
    <3>6. N > 1 => path'[N - 1] = path[N - 1]
      BY <1>3, <3>3
    <3>7. N > 1 => tree'[path[N - 1].node].kids = tree[path[N - 1].node].kids
      BY <3>2, <3>3
    <3>8. \A j \in 1..N : path'[j].node = Up(path'[N].node, j)
      BY <1>3, <3>1, <3>3
    <3>9. Len(path'[N].node) = N
      BY <1>1, <3>4
    <3>10. N > 1 => /\ path'[N - 1].next > 1
                    /\ path'[N].node = tree'[path'[N - 1].node].kids[path'[N - 1].next - 1]
      BY <1>1, <3>1, <3>4, <3>6, <3>7
    <3> QED  BY <2>2, <3>5, <3>8, <3>9, <3>10
  <2>3. CASE k = N + 1
    <3>1. tree'[Node].kids = tree[Node].kids
      BY <1>1 DEF SameAround
    <3>2. path'[N].node = Node
      BY <1>1, <1>3
    <3>3. \A j \in 1..(N + 1) : path'[j].node = Up(Child, j)
      <4>1. \A j \in 1..(N + 1) : j \in 1..N \/ j = N + 1
        BY <1>1
      <4> QED  BY <1>2, <1>3, <1>5, <4>1
    <3>4. path'[k].next \in 1..(Len(tree'[path'[k].node].kids) + 1)
      BY <1>3, <1>6, <2>3
    <3>5. path'[k - 1].next > 1 /\ path'[k].node = tree'[path'[k - 1].node].kids[path'[k - 1].next - 1]
      <4>1. k - 1 = N
        BY <1>1, <2>3
      <4>2. path'[N].next > 1 /\ path'[N].next - 1 = nextKid
        <5>1. path'[N].next = nextKid + 1
          BY <1>3
        <5> QED  BY <1>1, <5>1
      <4>3. path'[k].node = tree'[path'[N].node].kids[nextKid]
        BY <1>2, <1>3, <2>3, <3>1, <3>2
      <4> QED  BY <4>1, <4>2, <4>3
    <3> QED  BY <1>2, <1>3, <2>3, <3>3, <3>4, <3>5
  <2>4. k \in 1..(N - 1) \/ k = N \/ k = N + 1
    BY <1>1, <1>3
  <2> QED  BY <2>1, <2>2, <2>3, <2>4
<1> QED  BY <1>3, <1>4, <1>7 DEF OnPath

\* And on the way up.
LEMMA PathUp ==
  ASSUME SameTree, OnPath, path # <<>>, Ascend, UNCHANGED <<source, tree>>
  PROVE  OnPath'
<1> DEFINE N == Len(path)
<1>1. N \in Nat /\ N >= 1
  BY Standing
<1>2. /\ Len(path') = N - 1
      /\ path' \in Seq([node : Places, next : Nat])
      /\ \A k \in 1..(N - 1) : path'[k] = path[k]
  BY Ascending
<1>3. Places' = Places
  BY DEF Places
<1>4. ASSUME NEW k \in 1..Len(path')
      PROVE  /\ Len(path'[k].node) = k
             /\ path'[k].next \in 1..(Len(tree'[path'[k].node].kids) + 1)
             /\ \A j \in 1..k : path'[j].node = Up(path'[k].node, j)
             /\ k > 1 => /\ path'[k - 1].next > 1
                         /\ path'[k].node = tree'[path'[k - 1].node].kids[path'[k - 1].next - 1]
  <2>1. k \in 1..N /\ \A j \in 1..k : j \in 1..(N - 1)
    BY <1>1, <1>2
  <2>2. /\ Len(path[k].node) = k
        /\ path[k].next \in 1..(Len(tree[path[k].node].kids) + 1)
        /\ \A j \in 1..k : path[j].node = Up(path[k].node, j)
        /\ k > 1 => /\ path[k - 1].next > 1
                    /\ path[k].node = tree[path[k - 1].node].kids[path[k - 1].next - 1]
    BY <2>1 DEF OnPath
  <2>3. \A j \in 1..k : path'[j] = path[j]
    BY <1>2, <2>1
  <2>4. k \in 1..k /\ (k > 1 => k - 1 \in 1..k)
    OBVIOUS
  <2> QED  BY <2>2, <2>3, <2>4
<1> QED  BY <1>2, <1>3, <1>4 DEF OnPath

------------------------------------------------------------------------------
(* The functions and the blocks around *)

\* Some depths of the path, so finitely many.
LEMMA AroundIs ==
  ASSUME SameTree, OnPath, NEW CONSTANT K
  PROVE  /\ Around(K) \subseteq 1..Len(path) /\ Len(path) \in Nat
         /\ IsFiniteSet(Around(K)) /\ Cardinality(Around(K)) \in Nat
         /\ \A k \in Around(K) : path[k].node \in Places /\ tree[path[k].node].kind \in K
<1>1. Len(path) \in Nat
  BY LenProperties DEF OnPath
<1>2. Around(K) \subseteq 1..Len(path)
  BY DEF Around
<1>3. IsFiniteSet(1..Len(path))
  BY <1>1, FS_Interval
<1>4. IsFiniteSet(Around(K))
  BY <1>2, <1>3, FS_Subset
<1>5. ASSUME NEW k \in Around(K)  PROVE path[k].node \in Places /\ tree[path[k].node].kind \in K
  <2>1. k \in 1..Len(path) /\ Kind(path[k].node) \in K
    BY DEF Around
  <2>2. path[k] \in [node : Places, next : Nat]
    BY <1>1, <2>1, ElementOfSeq DEF OnPath
  <2> QED  BY <2>1, <2>2 DEF Kind
<1> QED  BY <1>1, <1>2, <1>4, <1>5, FS_CardinalityType

\* A child is around what comes after it, if it is of those kinds.
LEMMA AroundDown ==
  ASSUME SameTree, OnPath, NEW kinds, CanEnter(kinds), Descend,
         UNCHANGED source, SameTree', NEW CONSTANT K
  PROVE  /\ Kind(Child) \in K => Around(K)' = Around(K) \union {Len(path) + 1}
         /\ Kind(Child) \notin K => Around(K)' = Around(K)
         /\ \A k \in Around(K) : path'[k].node = path[k].node
<1> DEFINE N == Len(path)
<1>1. /\ N \in Nat /\ \A k \in 1..N : path[k].node \in Places
      /\ Child \in Places
  BY Standing, ChildIn DEF CanEnter
<1>2. /\ Len(path') = N + 1 /\ path'[N + 1].node = Child
      /\ \A k \in 1..N : path'[k].node = path[k].node
  BY Descending
<1>3. \A n \in Places : tree'[n].kind = tree[n].kind
  BY DEF SameTree, Places
<1>4. \A k \in 1..N : tree'[path'[k].node].kind = Kind(path[k].node)
  BY <1>1, <1>2, <1>3 DEF Kind
<1>5. tree'[path'[N + 1].node].kind = Kind(Child)
  BY <1>1, <1>2, <1>3 DEF Kind
<1>6. \A k : k \in 1..(N + 1) <=> k \in 1..N \/ k = N + 1
  BY <1>1
<1>7. Around(K)' = {k \in 1..(N + 1) : tree'[path'[k].node].kind \in K}
  BY <1>2 DEF Around, Kind
<1>8. Kind(Child) \in K => Around(K)' = Around(K) \union {N + 1}
  BY <1>4, <1>5, <1>6, <1>7 DEF Around
<1>9. Kind(Child) \notin K => Around(K)' = Around(K)
  BY <1>4, <1>5, <1>6, <1>7 DEF Around
<1> QED  BY <1>2, <1>8, <1>9 DEF Around

\* And no longer when it is left.
LEMMA AroundUp ==
  ASSUME SameTree, OnPath, path # <<>>, Ascend, UNCHANGED <<source, tree>>, NEW CONSTANT K
  PROVE  /\ Around(K)' = Around(K) \ {Len(path)}
         /\ Len(path) \in Around(K) <=> Kind(Node) \in K
         /\ \A k \in Around(K)' : path'[k].node = path[k].node
<1> DEFINE N == Len(path)
<1>1. N \in Nat /\ N >= 1
  BY Standing
<1>2. Len(path') = N - 1 /\ \A k \in 1..(N - 1) : path'[k] = path[k]
  BY Ascending
<1>3. \A k : k \in 1..(N - 1) <=> k \in 1..N /\ k # N
  BY <1>1
<1>4. Around(K)' = {k \in 1..(N - 1) : tree[path'[k].node].kind \in K}
  BY <1>2 DEF Around, Kind
<1>5. Around(K) = {k \in 1..N : tree[path[k].node].kind \in K}
  BY DEF Around, Kind
<1>6. Around(K)' = Around(K) \ {N}
  BY <1>2, <1>3, <1>4, <1>5
<1>7. N \in 1..N
  BY <1>1
<1>8. N \in Around(K) <=> Kind(Node) \in K
  BY <1>5, <1>7 DEF Kind, Node
<1>9. \A k \in Around(K)' : path'[k].node = path[k].node
  BY <1>2, <1>4
<1> QED  BY <1>6, <1>8, <1>9

\* A function's type stays what it is.
LEMMA TypeStays ==
  ASSUME SameTree, SameTree', UNCHANGED source, NEW f \in Places, tree[f].kind \in Funcs
  PROVE  TypeOf(tree', f) = TypeOf(tree, f)
<1>1. TypeOf(tree, f) = TypeOf(source, f)
  BY TypeIs
<1>2. f \in Places' /\ tree'[f].kind \in Funcs
  BY DEF SameTree, Places
<1>3. IsSyntax(source)
  BY FilesAssumption DEF SameTree
<1>4. source[f].kind \in Funcs
  BY DEF SameTree
<1>5. tree'[f].kids = tree[f].kids
  BY <1>4 DEF SameTree, Places, Funcs
<1>6. \A c \in Range(source[f].kids) : tree'[c].kind = tree[c].kind
  BY ChildIs DEF SameTree, Places
<1>7. tree[f].kids = source[f].kids
  BY <1>4 DEF SameTree, Funcs
<1> QED  BY <1>5, <1>6, <1>7 DEF TypeOf

\* No function is entered or left.
LEMMA FuncStackSame ==
  ASSUME SameTree, OnPath, FuncStack, SameTree', UNCHANGED <<source, parentFuncTypes>>,
         Around(Funcs)' = Around(Funcs),
         \A k \in Around(Funcs) : path'[k].node = path[k].node
  PROVE  FuncStack'
<1>1. \A k \in Around(Funcs) : TypeOf(tree', path'[k].node) = TypeOf(tree, path[k].node)
  BY AroundIs, TypeStays
<1> HIDE DEF Around
<1>2. Places' = Places
  BY DEF Places
<1> QED  BY <1>1, <1>2 DEF FuncStack

\* A function is entered: its type goes on the stack.
LEMMA FuncStackPush ==
  ASSUME SameTree, OnPath, FuncStack, SameTree', UNCHANGED source,
         Child \in Places, Kind(Child) \in Funcs,
         parentFuncTypes' = Append(parentFuncTypes, TypeOf(tree, Child)),
         path'[Len(path) + 1].node = Child,
         Around(Funcs)' = Around(Funcs) \union {Len(path) + 1},
         \A k \in Around(Funcs) : path'[k].node = path[k].node
  PROVE  FuncStack'
<1> DEFINE N == Len(path)
           A == Around(Funcs)
           T == parentFuncTypes
           B == Around(Funcs)'
           c == Cardinality(A)
<1>1. /\ A \subseteq 1..N /\ N \in Nat /\ IsFiniteSet(A) /\ c \in Nat
      /\ \A k \in A : path[k].node \in Places /\ tree[path[k].node].kind \in Funcs
  BY AroundIs
<1>2. TypeOf(tree, Child) \in Places
  BY TypeIs, ChildIs DEF Kind
<1>3. /\ T' \in Seq(Places) /\ Len(T') = Len(T) + 1
      /\ \A j \in 1..Len(T) : T'[j] = T[j]
      /\ T'[Len(T) + 1] = TypeOf(tree, Child)
  BY <1>2, AppendProperties DEF FuncStack
<1>4. Len(T) = c /\ \A k \in A : T[Cardinality(A \intersect (1..k))] = TypeOf(tree, path[k].node)
  BY DEF FuncStack
<1>5. B = A \union {N + 1} /\ N + 1 \notin A
  BY <1>1
<1> HIDE DEF A, B
<1>6. Cardinality(B) = c + 1
  BY <1>1, <1>5, FS_AddElement
<1>7. ASSUME NEW k \in B
      PROVE  T'[Cardinality(B \intersect (1..k))] = TypeOf(tree', path'[k].node)
  <2>1. CASE k \in A
    <3>1. B \intersect (1..k) = A \intersect (1..k)
      <4>1. k \in 1..N /\ N \in Nat
        BY <1>1, <2>1
      <4>2. N + 1 \notin 1..k
        BY <4>1
      <4> QED  BY <1>5, <4>2
    <3>2. A \intersect (1..k) \in SUBSET A /\ k \in A \intersect (1..k)
      BY <1>1, <2>1
    <3>3. /\ Cardinality(A \intersect (1..k)) <= c /\ IsFiniteSet(A \intersect (1..k))
      BY <1>1, <3>2, FS_Subset
    <3>4. Cardinality(A \intersect (1..k)) \in Nat /\ Cardinality(A \intersect (1..k)) # 0
      BY <3>2, <3>3, FS_CardinalityType, FS_EmptySet
    <3>5. Cardinality(A \intersect (1..k)) \in 1..Len(T)
      BY <1>1, <1>4, <3>3, <3>4
    <3>6. TypeOf(tree', path[k].node) = TypeOf(tree, path[k].node)
      BY <1>1, <2>1, TypeStays
    <3>7. path'[k].node = path[k].node
      BY <2>1 DEF A
    <3> QED  BY <1>3, <1>4, <2>1, <3>1, <3>5, <3>6, <3>7
  <2>2. CASE k = N + 1
    <3>1. B \intersect (1..k) = B
      <4>1. \A x \in 1..N : x \in 1..k
        BY <1>1, <2>2
      <4>2. k \in 1..k
        BY <1>1, <2>2
      <4> QED  BY <1>1, <1>5, <2>2, <4>1, <4>2
    <3>2. TypeOf(tree', Child) = TypeOf(tree, Child)
      BY TypeStays DEF Kind
    <3> QED  BY <1>3, <1>4, <1>6, <2>2, <3>1, <3>2
  <2> QED  BY <1>5, <2>1, <2>2
<1>8. Places' = Places
  BY DEF Places
<1> QED  BY <1>1, <1>3, <1>4, <1>6, <1>7, <1>8 DEF FuncStack, B

\* A function is left: the last type, which is its own, goes.
LEMMA FuncStackPop ==
  ASSUME SameTree, OnPath, FuncStack, UNCHANGED <<source, tree>>, path # <<>>,
         parentFuncTypes' = Front(parentFuncTypes),
         Len(path) \in Around(Funcs),
         Around(Funcs)' = Around(Funcs) \ {Len(path)},
         \A k \in Around(Funcs)' : path'[k].node = path[k].node
  PROVE  FuncStack'
<1> DEFINE N == Len(path)
           A == Around(Funcs)
           T == parentFuncTypes
           B == Around(Funcs)'
           c == Cardinality(A)
           d == c - 1
<1>1. A \subseteq 1..N /\ N \in Nat /\ IsFiniteSet(A) /\ c \in Nat
  BY AroundIs
<1>2. /\ Len(T) = c /\ T \in Seq(Places)
      /\ \A k \in A : T[Cardinality(A \intersect (1..k))] = TypeOf(tree, path[k].node)
  BY DEF FuncStack
<1>3. B = A \ {N} /\ N \in A
  OBVIOUS
<1>4. \A k \in B : path'[k].node = path[k].node
  OBVIOUS
<1> HIDE DEF A, B
<1>5. Cardinality(B) = d /\ IsFiniteSet(B) /\ d \in Nat
  <2>1. Cardinality(B) = d /\ IsFiniteSet(B)
    BY <1>1, <1>3, FS_RemoveElement
  <2> QED  BY <2>1, FS_CardinalityType
<1>6. T' = SubSeq(T, 1, d)
  BY <1>2 DEF Front
<1> HIDE DEF d
<1>7. \A i \in 1..d : T[i] \in Places /\ i \in 1..Len(T)
  BY <1>1, <1>2, <1>5, ElementOfSeq DEF d
<1>8. /\ SubSeq(T, 1, d) \in Seq(Places)
      /\ Len(SubSeq(T, 1, d)) = IF 1 <= d THEN d - 1 + 1 ELSE 0
      /\ \A i \in 1..(d - 1 + 1) : SubSeq(T, 1, d)[i] = T[1 + i - 1]
  <2>1. 1 \in Int /\ d \in Int
    BY <1>5
  <2> QED  BY <1>7, <2>1, SubSeqProperties
<1>9. \A i \in 1..d : i \in 1..(d - 1 + 1) /\ 1 + i - 1 = i
  BY <1>5
<1>10. \A i \in 1..d : T'[i] = T[i]
  BY <1>6, <1>8, <1>9
<1>11. Len(T') = d /\ T' \in Seq(Places)
  BY <1>5, <1>6, <1>8
<1>12. ASSUME NEW k \in B
       PROVE  T'[Cardinality(B \intersect (1..k))] = TypeOf(tree', path'[k].node)
  <2>1. B \intersect (1..k) = A \intersect (1..k)
    BY <1>1, <1>3
  <2>2. B \intersect (1..k) \in SUBSET B /\ k \in B \intersect (1..k)
    BY <1>1, <1>3
  <2>3. Cardinality(B \intersect (1..k)) <= d /\ IsFiniteSet(B \intersect (1..k))
    BY <1>5, <2>2, FS_Subset
  <2>4. Cardinality(B \intersect (1..k)) \in Nat /\ Cardinality(B \intersect (1..k)) # 0
    BY <2>2, <2>3, FS_CardinalityType, FS_EmptySet
  <2>5. Cardinality(B \intersect (1..k)) \in 1..d
    BY <1>5, <2>3, <2>4
  <2> QED  BY <1>2, <1>3, <1>4, <1>10, <2>1, <2>5
<1>13. Places' = Places
  BY DEF Places
<1> QED  BY <1>5, <1>11, <1>12, <1>13 DEF FuncStack, B

------------------------------------------------------------------------------
(* What is done to the tree *)

\* Children are nodes, each once.
LEMMA KidsAre ==
  ASSUME SameTree, NEW n \in Places
  PROVE  /\ Fields(Places, tree[n].kids) /\ Len(tree[n].kids) \in Nat
         /\ Range(tree[n].kids) \subseteq Range(source[n].kids)
         /\ Range(source[n].kids) \subseteq Places
         /\ tree[n] \in NodesOver(Places) /\ DOMAIN tree = Places
<1>1. Fields(Range(source[n].kids), tree[n].kids)
  BY DEF SameTree
<1>2. Range(source[n].kids) \subseteq Places
  BY ChildIs
<1>3. tree[n].kids \in Seq(Range(source[n].kids))
  BY <1>1 DEF Fields
<1>4. Fields(Places, tree[n].kids)
  <2>1. tree[n].kids \in Seq(Places)
    BY <1>2, <1>3, SeqMonotonic
  <2> QED  BY <1>1, <2>1 DEF Fields
<1>5. Range(tree[n].kids) \subseteq Range(source[n].kids)
  BY <1>3, LenProperties, ElementOfSeq DEF Range
<1>6. tree[n] \in NodesOver(Places) /\ DOMAIN tree = Places
  BY DEF SameTree
<1> QED  BY <1>2, <1>3, <1>4, <1>5, <1>6, LenProperties

\* The names of a list are names.
LEMMA NamesTyped ==
  ASSUME SameTree, NEW n \in Places
  PROVE  NamesOf(tree, n) \in Seq(STRING)
<1> DEFINE kids == tree[n].kids
<1>1. kids \in Seq(Places) /\ Len(kids) \in Nat
  BY KidsAre DEF Fields
<1>2. \A j \in 1..Len(kids) : tree[kids[j]].names \in Seq(STRING)
  <2> SUFFICES ASSUME NEW j \in 1..Len(kids)  PROVE tree[kids[j]].names \in Seq(STRING)
    OBVIOUS
  <2>1. kids[j] \in Places
    BY <1>1, ElementOfSeq
  <2>2. tree[kids[j]] \in NodesOver(Places)
    BY <2>1 DEF SameTree
  <2> QED  BY <2>2 DEF NodesOver
<1>3. Len(kids) <= Len(kids)
  BY <1>1
<1> HIDE DEF kids
<1>4. Naming(tree, kids)[Len(kids)] \in Seq(STRING)
  BY <1>1, <1>2, <1>3, NamingTyped
<1> QED  BY <1>4 DEF NamesOf, kids

\* So are those a return is given.
LEMMA ClothesTyped ==
  ASSUME SameTree, NEW type \in Places
  PROVE  Clothes(tree, type) \in Seq(STRING)
<1> DEFINE results == {n \in Range(tree[type].kids) : tree[n].role = "results"}
           list    == CHOOSE n \in results : TRUE
<1>1. results # {} => list \in Places
  BY KidsAre
<1>2. results # {} => NamesOf(tree, list) \in Seq(STRING)
  BY <1>1, NamesTyped
<1>3. <<>> \in Seq(STRING)
  BY EmptySeq
<1> HIDE DEF results, list
<1>4. (IF results = {} THEN <<>> ELSE NamesOf(tree, list)) \in Seq(STRING)
  BY <1>2, <1>3
<1> QED  BY <1>3, <1>4 DEF Clothes, results, list

\* A list is merged: its fields get names, and it loses some of them.
LEMMA TreeMerged ==
  ASSUME SameTree, UNCHANGED source, NEW n \in Places, tree[n].kind = "FieldList",
         LET merged == mergeAdjacentFields(tree, tree[n].kids)
         IN  tree' = [merged.tree EXCEPT ![n].kids = merged.fields]
  PROVE  /\ SameTree'
         /\ \A x \in Places : x # n => tree'[x].kids = tree[x].kids
         /\ \A x \in Places : x \notin Range(tree[n].kids) => tree'[x].names = tree[x].names
         /\ Range(tree'[n].kids) \subseteq Range(tree[n].kids)
         /\ NamesOf(tree', n) = NamesOf(tree, n)
<1> DEFINE kids   == tree[n].kids
           merged == mergeAdjacentFields(tree, kids)
           t      == merged.tree
           fs     == merged.fields
<1>1. /\ Fields(Places, kids) /\ Len(kids) \in Nat /\ DOMAIN tree = Places
      /\ Range(kids) \subseteq Range(source[n].kids)
      /\ Range(source[n].kids) \subseteq Places
  BY KidsAre
<1>2. tree \in [DOMAIN tree -> NodesOver(DOMAIN tree)]
  BY <1>1 DEF SameTree
<1> HIDE DEF kids
<1>3. MergedWell(tree, kids, Len(kids), merged)
  BY <1>1, <1>2, MergeRight
<1> HIDE DEF merged
<1>4. /\ t \in [Places -> NodesOver(Places)]
      /\ \A x \in Places :
           /\ t[x].kind = tree[x].kind /\ t[x].kids = tree[x].kids /\ t[x].role = tree[x].role
           /\ t[x].line = tree[x].line
           /\ x \notin First(kids, Len(kids)) => t[x].names = tree[x].names
  BY <1>1, <1>3 DEF MergedWell, OnlyNames
<1>5. /\ fs \in Seq(First(kids, Len(kids))) /\ Len(fs) \in Nat
      /\ \A j, k \in 1..Len(fs) : j # k => fs[j] # fs[k]
  BY <1>3, LenProperties DEF MergedWell, Fields
<1>6. First(kids, Len(kids)) = Range(kids)
  BY <1>1, LenProperties DEF First, Range, Fields
<1>7. fs \in Seq(Places) /\ fs \in Seq(Range(source[n].kids)) /\ fs \in Seq(Range(kids))
  BY <1>1, <1>5, <1>6, SeqMonotonic
<1>8. t[n] \in NodesOver(Places)
  BY <1>4
<1>9. /\ [t[n] EXCEPT !.kids = fs] \in NodesOver(Places)
      /\ [t[n] EXCEPT !.kids = fs].kids = fs
      /\ [t[n] EXCEPT !.kids = fs].names = t[n].names
      /\ [t[n] EXCEPT !.kids = fs].kind = t[n].kind
      /\ [t[n] EXCEPT !.kids = fs].role = t[n].role
      /\ [t[n] EXCEPT !.kids = fs].line = t[n].line
  BY <1>7, <1>8 DEF NodesOver
<1>10. tree' = [t EXCEPT ![n] = [t[n] EXCEPT !.kids = fs]]
  BY DEF merged, kids
<1> DEFINE new == [t[n] EXCEPT !.kids = fs]
<1> HIDE DEF t, fs, new
<1>11. /\ tree' \in [Places -> NodesOver(Places)]
       /\ tree'[n] = new
       /\ \A x \in Places : x # n => tree'[x] = t[x]
  BY <1>4, <1>9, <1>10 DEF new
<1>12. \A x \in Places :
         /\ tree'[x].kind = tree[x].kind /\ tree'[x].role = tree[x].role
         /\ tree'[x].line = tree[x].line
         /\ x # n => tree'[x].kids = tree[x].kids
         /\ x \notin Range(kids) => tree'[x].names = tree[x].names
  <2> SUFFICES ASSUME NEW x \in Places
               PROVE  /\ tree'[x].kind = tree[x].kind /\ tree'[x].role = tree[x].role
                      /\ tree'[x].line = tree[x].line
                      /\ x # n => tree'[x].kids = tree[x].kids
                      /\ x \notin Range(kids) => tree'[x].names = tree[x].names
    OBVIOUS
  <2>1. /\ t[x].kind = tree[x].kind /\ t[x].kids = tree[x].kids /\ t[x].role = tree[x].role
        /\ t[x].line = tree[x].line
        /\ x \notin Range(kids) => t[x].names = tree[x].names
    BY <1>4, <1>6
  <2>2. CASE x = n
    BY <1>9, <1>11, <2>1, <2>2 DEF new
  <2>3. CASE x # n
    BY <1>11, <2>1, <2>3
  <2> QED  BY <2>2, <2>3
<1>13. tree'[n].kids = fs
  BY <1>9, <1>11 DEF new
<1>14. Fields(Range(source[n].kids), fs)
  BY <1>5, <1>7 DEF Fields
<1>15. SameTree'
  <2>1. Places' = Places
    BY DEF Places
  <2>2. ASSUME NEW x \in Places
        PROVE  /\ tree'[x].kind = source[x].kind /\ tree'[x].role = source[x].role
               /\ tree'[x].line = source[x].line
               /\ tree'[x].kind # "FieldList" => tree'[x].kids = source[x].kids
               /\ Fields(Range(source[x].kids), tree'[x].kids)
    <3>1. /\ tree[x].kind = source[x].kind /\ tree[x].role = source[x].role
          /\ tree[x].line = source[x].line
          /\ tree[x].kind # "FieldList" => tree[x].kids = source[x].kids
          /\ Fields(Range(source[x].kids), tree[x].kids)
      BY DEF SameTree
    <3>2. CASE x = n
      BY <1>12, <1>13, <1>14, <3>1, <3>2
    <3>3. CASE x # n
      BY <1>12, <3>1, <3>3
    <3> QED  BY <3>2, <3>3
  <2>3. source' = source /\ source \in Files
    BY DEF SameTree
  <2>4. tree' \in [Places' -> NodesOver(Places')]
    BY <1>11, <2>1
  <2>5. \A x \in Places' :
          /\ tree'[x].kind = source'[x].kind /\ tree'[x].role = source'[x].role
          /\ tree'[x].line = source'[x].line
          /\ tree'[x].kind # "FieldList" => tree'[x].kids = source'[x].kids
          /\ Fields(Range(source'[x].kids), tree'[x].kids)
    BY <2>1, <2>2, <2>3
  <2> QED  BY <2>3, <2>4, <2>5 DEF SameTree
<1>16. Range(fs) \subseteq Range(kids)
  BY <1>5, <1>7, LenProperties, ElementOfSeq DEF Range
<1>17. NamesOf(tree', n) = NamesOf(tree, n)
  <2>1. Naming(t, fs)[Len(fs)] = Naming(tree, kids)[Len(kids)]
    BY <1>3 DEF MergedWell, t, fs
  <2>2. \A j \in 1..Len(fs) : tree'[fs[j]].names = t[fs[j]].names
    <3> SUFFICES ASSUME NEW j \in 1..Len(fs)  PROVE tree'[fs[j]].names = t[fs[j]].names
      OBVIOUS
    <3>1. fs[j] \in Places
      BY <1>7, ElementOfSeq
    <3> QED  BY <1>9, <1>11, <3>1 DEF new
  <2>3. Len(fs) <= Len(fs)
    BY <1>5
  <2>4. Naming(tree', fs)[Len(fs)] = Naming(t, fs)[Len(fs)]
    <3>1. ASSUME NEW u, \A j \in 1..Len(fs) : u[fs[j]].names = t[fs[j]].names
          PROVE  Naming(u, fs)[Len(fs)] = Naming(t, fs)[Len(fs)]
      BY <1>5, <2>3, <3>1, NamingSame
    <3> QED  BY <2>2, <3>1
  <2> QED  BY <1>13, <2>1, <2>4 DEF NamesOf, kids
<1> QED  BY <1>12, <1>13, <1>15, <1>16, <1>17 DEF kids

\* A node gets other names.
LEMMA TreeNamed ==
  ASSUME SameTree, UNCHANGED source, NEW n \in Places, NEW names \in Seq(STRING),
         tree' = [tree EXCEPT ![n].names = names]
  PROVE  /\ SameTree'
         /\ \A x \in Places : tree'[x].kids = tree[x].kids
         /\ \A x \in Places : x # n => tree'[x] = tree[x]
         /\ tree'[n].names = names
<1> DEFINE new == [tree[n] EXCEPT !.names = names]
<1>1. tree[n] \in NodesOver(Places) /\ tree \in [Places -> NodesOver(Places)]
  BY DEF SameTree
<1>2. /\ new \in NodesOver(Places) /\ new.names = names
      /\ new.kids = tree[n].kids /\ new.kind = tree[n].kind /\ new.role = tree[n].role
      /\ new.line = tree[n].line
  BY <1>1 DEF NodesOver
<1>3. tree' = [tree EXCEPT ![n] = new]
  OBVIOUS
<1> HIDE DEF new
<1>4. /\ tree' \in [Places -> NodesOver(Places)] /\ tree'[n] = new
      /\ \A x \in Places : x # n => tree'[x] = tree[x]
  BY <1>1, <1>2, <1>3
<1>5. \A x \in Places : /\ tree'[x].kind = tree[x].kind /\ tree'[x].role = tree[x].role
                        /\ tree'[x].kids = tree[x].kids /\ tree'[x].line = tree[x].line
  BY <1>2, <1>4
<1>6. Places' = Places
  BY DEF Places
<1>7. SameTree'
  BY <1>4, <1>5, <1>6 DEF SameTree
<1> QED  BY <1>2, <1>4, <1>5, <1>7

\* What was printed is read again.
LEMMA TreeReread ==
  ASSUME SameTree, UNCHANGED source, tree' = Reread(tree)
  PROVE  /\ SameTree'
         /\ \A x \in Places : tree'[x].kids = tree[x].kids
         /\ \A x \in Places :
              (\A list \in Nodes(tree, {"FieldList"}) :
                 tree[list].role = "methods" => x \notin Range(tree[list].kids))
              => tree'[x].names = tree[x].names
<1> DEFINE first(x) == IF tree[x].names = <<>> THEN tree[x].names ELSE <<tree[x].names[1]>>
           short(x) == [tree[x] EXCEPT !.names = first(x)]
           shown(x) == \E list \in Nodes(tree, {"FieldList"}) :
                         tree[list].role = "methods" /\ x \in Range(tree[list].kids)
<1>1. tree \in [Places -> NodesOver(Places)] /\ DOMAIN tree = Places
  BY DEF SameTree
<1>2. tree' = [x \in Places |-> IF shown(x) THEN short(x) ELSE tree[x]]
  BY <1>1 DEF Reread
<1>3. ASSUME NEW x \in Places
      PROVE  /\ short(x) \in NodesOver(Places)
             /\ short(x).kids = tree[x].kids /\ short(x).kind = tree[x].kind
             /\ short(x).role = tree[x].role /\ short(x).line = tree[x].line
  <2>1. tree[x] \in NodesOver(Places) /\ tree[x].names \in Seq(STRING)
    BY <1>1 DEF NodesOver
  <2>2. first(x) \in Seq(STRING)
    <3>1. CASE tree[x].names = <<>>
      BY <2>1, <3>1
    <3>2. CASE tree[x].names # <<>>
      <4>1. tree[x].names[1] \in STRING
        BY <2>1, <3>2, EmptySeq, ElementOfSeq
      <4> HIDE DEF first
      <4>2. <<tree[x].names[1]>> \in Seq(STRING)
        BY <4>1
      <4> QED  BY <3>2, <4>2 DEF first
    <3> QED  BY <3>1, <3>2
  <2> HIDE DEF first
  <2> QED  BY <2>1, <2>2 DEF NodesOver
<1>4. \A x \in Places : shown(x) =>
        \E list \in Nodes(tree, {"FieldList"}) :
          tree[list].role = "methods" /\ x \in Range(tree[list].kids)
  OBVIOUS
<1> HIDE DEF short, shown
<1>5. \A x \in Places : tree'[x] = IF shown(x) THEN short(x) ELSE tree[x]
  BY <1>2
<1>6. tree' \in [Places -> NodesOver(Places)]
  BY <1>1, <1>2, <1>3
<1>7. \A x \in Places : /\ tree'[x].kind = tree[x].kind /\ tree'[x].role = tree[x].role
                        /\ tree'[x].kids = tree[x].kids /\ tree'[x].line = tree[x].line
  BY <1>3, <1>5
<1>8. Places' = Places
  BY DEF Places
<1>9. SameTree'
  BY <1>6, <1>7, <1>8 DEF SameTree
<1> QED  BY <1>4, <1>5, <1>7, <1>9

------------------------------------------------------------------------------
(* The signature of a declared function *)

\* A declared function's type is the third node of every path it is on.
LEMMA TopIs ==
  ASSUME SameTree, Top, topFuncType # Nil
  PROVE  /\ topFuncType \in Places /\ Len(topFuncType) = 3
         /\ tree[topFuncType].kind = "FuncType"
         /\ tree[Up(topFuncType, 2)].kind = "FuncDecl"
<1>1. PICK f \in Places : tree[f].kind = "FuncDecl" /\ topFuncType = TypeOf(tree, f)
  BY DEF Top, Nodes, SameTree
<1>2. tree[f].kind \in Funcs
  BY <1>1 DEF Funcs
<1>3. topFuncType \in Range(source[f].kids) /\ tree[topFuncType].kind = "FuncType"
  BY <1>1, <1>2, TypeIs
<1>5. Len(f) = 2
  BY <1>1, DeclIs
<1>6. /\ topFuncType \in Places /\ Len(topFuncType) = Len(f) + 1
      /\ Up(topFuncType, Len(f)) = f
  BY <1>3, ChildIs
<1>7. Len(topFuncType) = 3 /\ Up(topFuncType, 2) = f
  BY <1>5, <1>6
<1> QED  BY <1>1, <1>3, <1>6, <1>7

\* The type of a declared function is visited at depth three.
LEMMA NodeOnTop ==
  ASSUME SameTree, OnPath, Top, path # <<>>, Node = topFuncType
  PROVE  Len(path) = 3 /\ topFuncType \in Places /\ Kind(Node) = "FuncType" /\ InTop
<1>1. Len(Node) = Len(path) /\ Len(path) \in Nat /\ Len(path) >= 1
  BY Standing
<1>2. topFuncType # Nil
  BY <1>1, EmptySeq DEF Nil
<1>3. Len(topFuncType) = 3 /\ tree[topFuncType].kind = "FuncType" /\ topFuncType \in Places
  BY <1>2, TopIs
<1>4. Len(path) = 3
  BY <1>1, <1>3
<1>5. path[3].node = topFuncType
  BY <1>4 DEF Node
<1> QED  BY <1>3, <1>4, <1>5 DEF Kind, InTop

\* The parts of a function's type are lists, and after the parameters come results.
LEMMA TypeKids ==
  ASSUME SameTree, NEW n \in Places, tree[n].kind = "FuncType"
  PROVE  /\ tree[n].kids = source[n].kids
         /\ \A k \in 1..Len(tree[n].kids) :
              tree[n].kids[k] \in Places /\ tree[tree[n].kids[k]].kind = "FieldList"
         /\ \A j, k \in 1..Len(tree[n].kids) :
              /\ j < k
              /\ tree[tree[n].kids[j]].role \in {"params", "results"}
              => tree[tree[n].kids[k]].role \in {"params", "results"}
<1>1. source[n].kind = "FuncType" /\ tree[n].kids = source[n].kids
  BY DEF SameTree
<1>2. /\ \A k \in Range(source[n].kids) : source[k].kind = "FieldList"
      /\ \A j, k \in 1..Len(source[n].kids) :
           j < k /\ source[source[n].kids[j]].role \in {"params", "results"}
           => source[source[n].kids[k]].role \in {"params", "results"}
  BY <1>1, SyntaxIs
<1>3. \A k \in 1..Len(tree[n].kids) : tree[n].kids[k] \in Range(source[n].kids)
  BY KidIs
<1>4. \A k \in 1..Len(tree[n].kids) : tree[n].kids[k] \in Places
  BY <1>3, ChildIs
<1>5. \A k \in 1..Len(tree[n].kids) :
        /\ tree[tree[n].kids[k]].kind = source[tree[n].kids[k]].kind
        /\ tree[tree[n].kids[k]].role = source[tree[n].kids[k]].role
  BY <1>4 DEF SameTree
<1> QED  BY <1>1, <1>2, <1>3, <1>4, <1>5

\* What going down does to topFuncType and to minSplitFactor.
NewTop == topFuncType' = IF Kind(Child) = "FuncDecl" THEN TypeOf(tree, Child) ELSE topFuncType
NewFactor ==
  minSplitFactor' =
    IF Node = topFuncType /\ tree[Child].role \in {"params", "results"}
    THEN Factor(tree[Child].role) ELSE minSplitFactor

\* A declared function's type is remembered when it is entered.
LEMMA TopDown ==
  ASSUME SameTree, OnPath, Top, SameTree', UNCHANGED source,
         NEW kinds, CanEnter(kinds), Descend, NewTop
  PROVE  Top'
<1> DEFINE N == Len(path)
<1>1. N \in Nat /\ N >= 1 /\ \A k \in 1..N : path[k].node \in Places
  BY Standing DEF CanEnter
<1>2. Child \in Places /\ Len(Child) = N + 1 /\ Len(Child) \in Nat
  BY ChildIn
<1>3. /\ Len(path') = N + 1 /\ path'[N + 1].node = Child
      /\ \A k \in 1..N : path'[k].node = path[k].node
  BY Descending
<1>4. Places' = Places /\ DOMAIN tree = Places /\ DOMAIN tree' = Places
  BY DEF SameTree, Places
<1>5. \A n \in Places : tree'[n].kind = tree[n].kind
  BY <1>4 DEF SameTree
<1>6. \A f \in Places : tree[f].kind = "FuncDecl" => TypeOf(tree', f) = TypeOf(tree, f)
  BY TypeStays DEF Funcs
<1>7. CASE Kind(Child) = "FuncDecl"
  <2>1. tree[Child].kind = "FuncDecl"
    BY <1>7 DEF Kind
  <2>2. Len(Child) = 2
    BY <1>2, <2>1, DeclIs
  <2>6. N = 1
    <3>1. N \in Nat /\ N + 1 = 2
      BY <1>1, <1>2, <2>2
    <3> HIDE DEF N
    <3> QED  BY <3>1
  <2>3. path'[2].node = Child
    BY <1>3, <2>6
  <2>4. topFuncType' = TypeOf(tree', Child)
    BY <1>2, <1>6, <1>7 DEF Kind, NewTop
  <2>5. Child \in Nodes(tree', {"FuncDecl"})
    BY <1>2, <1>4, <1>5, <1>7 DEF Nodes, Kind
  <2> QED  BY <2>3, <2>4, <2>5 DEF Top
<1>8. CASE Kind(Child) # "FuncDecl"
  <2>1. topFuncType' = topFuncType
    BY <1>8 DEF NewTop
  <2>2. \/ topFuncType' = Nil
        \/ \E f \in Nodes(tree', {"FuncDecl"}) : topFuncType' = TypeOf(tree', f)
    BY <1>4, <1>5, <1>6, <2>1 DEF Top, Nodes
  <2>3. ASSUME Len(path') >= 2, tree'[path'[2].node].kind = "FuncDecl"
        PROVE  topFuncType' = TypeOf(tree', path'[2].node)
    <3>1. N # 1
      <4>1. N = 1 => path'[2].node = Child
        BY <1>3
      <4> QED  BY <1>2, <1>5, <1>8, <2>3, <4>1 DEF Kind
    <3>2. N >= 2 /\ 2 \in 1..N
      BY <1>1, <3>1
    <3>3. path'[2].node = path[2].node /\ path[2].node \in Places
      BY <1>1, <1>3, <3>2
    <3>4. tree[path[2].node].kind = "FuncDecl"
      BY <1>5, <2>3, <3>3
    <3>5. topFuncType = TypeOf(tree, path[2].node)
      BY <3>2, <3>4 DEF Top, Kind
    <3> QED  BY <1>6, <2>1, <3>3, <3>4, <3>5
  <2> QED  BY <2>2, <2>3 DEF Top, Kind
<1> QED  BY <1>7, <1>8

\* Leaving a node does not change what declared function was last entered.
LEMMA TopUp ==
  ASSUME SameTree, OnPath, Top, path # <<>>, Ascend, UNCHANGED <<source, tree, topFuncType>>
  PROVE  Top'
<1>1. Len(path) \in Nat /\ Len(path) >= 1
  BY Standing
<1>2. Len(path') = Len(path) - 1 /\ \A k \in 1..(Len(path) - 1) : path'[k] = path[k]
  BY Ascending
<1>3. Len(path') >= 2 => Len(path) >= 2 /\ path'[2] = path[2]
  BY <1>1, <1>2
<1> QED  BY <1>3 DEF Top, Nodes, Kind

\* minSplitFactor follows the lists of a signature, whatever is in them.
LEMMA SplitDown ==
  ASSUME SameTree, OnPath, Top, Split, SameTree', SameAround, UNCHANGED source,
         NEW kinds, CanEnter(kinds), Descend,
         NewTop, NewFactor
  PROVE  Split'
<1> DEFINE N == Len(path)
<1>1. /\ N \in Nat /\ N >= 1 /\ \A k \in 1..N : path[k].node \in Places /\ path[k].next \in Nat
      /\ Node = path[N].node /\ nextKid = path[N].next
  BY Standing DEF CanEnter, Node, nextKid
<1>2. /\ Child \in Places /\ Len(Child) = N + 1 /\ nextKid \in 1..Len(tree[Node].kids)
      /\ Child = tree[Node].kids[nextKid] /\ Len(Child) \in Nat
  BY ChildIn DEF Child
<1>3. /\ Len(path') = N + 1 /\ path'[N + 1].node = Child /\ path'[N + 1].next = 1
      /\ \A k \in 1..N : path'[k].node = path[k].node
      /\ \A k \in 1..(N - 1) : path'[k] = path[k]
      /\ path'[N].next = nextKid + 1
  BY Descending
<1>4. \A n \in Places : tree'[n].role = tree[n].role
  BY DEF SameTree, Places
<1>5. Node = topFuncType => N = 3
  BY NodeOnTop DEF CanEnter
<1>6. Kind(Child) = "FuncDecl" => N = 1
  <2>1. Kind(Child) = "FuncDecl" => Len(Child) = 2
    BY <1>2, DeclIs DEF Kind
  <2>2. N \in Nat /\ Len(Child) = N + 1 /\ Len(Child) \in Nat
    BY <1>1, <1>2
  <2>3. Len(Child) = 2 => N + 1 = 2
    BY <2>2
  <2>4. N + 1 = 2 => N = 1
    <3>1. N \in Nat
      BY <2>2
    <3> HIDE DEF N
    <3> QED  BY <3>1
  <2> QED  BY <2>1, <2>3, <2>4
<1>7. CASE N < 3
  <2>1. Node # topFuncType /\ ~ InTop
    BY <1>1, <1>5, <1>7 DEF InTop
  <2>3. minSplitFactor' = minSplitFactor /\ minSplitFactor = 4
    BY <2>1 DEF NewFactor, Split
  <2>2. InTop' => path'[3].next = 1
    BY <1>1, <1>3, <1>7 DEF InTop
  <2>4. InTop' => ~ (path'[3].next > 1)
    BY <2>2
  <2> QED  BY <2>3, <2>4 DEF Split
<1>8. CASE N = 3
  <2>6. Kind(Child) # "FuncDecl"
    BY <1>6, <1>8
  <2>7. topFuncType' = topFuncType
    BY <2>6 DEF NewTop
  <2>1. /\ topFuncType' = topFuncType /\ path'[3].node = Node /\ path[3].node = Node
        /\ path'[3].next = nextKid + 1 /\ path[3].next = nextKid /\ Len(path') = 4
    BY <1>1, <1>3, <1>8, <2>7
  <2>2. InTop' <=> Node = topFuncType
    BY <2>1 DEF InTop
  <2>3. InTop <=> Node = topFuncType
    BY <1>8, <2>1 DEF InTop
  <2>4. CASE Node # topFuncType
    BY <2>2, <2>3, <2>4 DEF Split, NewFactor
  <2>5. CASE Node = topFuncType
    <3>1. tree[Node].kind = "FuncType" /\ Node \in Places
      BY <2>5, NodeOnTop DEF Kind, CanEnter
    <3>2. /\ \A k \in 1..Len(tree[Node].kids) : tree[Node].kids[k] \in Places
          /\ \A j, k \in 1..Len(tree[Node].kids) :
               /\ j < k
               /\ tree[tree[Node].kids[j]].role \in {"params", "results"}
               => tree[tree[Node].kids[k]].role \in {"params", "results"}
      BY <3>1, TypeKids
    <3>8. \A k \in 1..N : tree'[path[k].node].kids = tree[path[k].node].kids
      BY DEF SameAround
    <3>9. tree'[Node].kids = tree[Node].kids
      BY <1>1, <3>8
    <3>3. tree'[topFuncType'].kids = tree[Node].kids
      BY <2>1, <2>5, <3>9
    <3>4. nextKid \in Nat /\ nextKid >= 1 /\ path'[3].next - 1 = nextKid /\ path'[3].next > 1
      BY <1>1, <1>2, <2>1
    <3>5. LastRole' = tree[Child].role
      BY <1>2, <1>4, <3>3, <3>4 DEF LastRole
    <3>6. minSplitFactor' = Factor(tree[Child].role)
      <4>1. CASE tree[Child].role \in {"params", "results"}
        BY <2>5, <4>1 DEF NewFactor
      <4>2. CASE tree[Child].role \notin {"params", "results"}
        <5>1. Factor(tree[Child].role) = 4 /\ minSplitFactor' = minSplitFactor
          BY <4>2 DEF Factor, NewFactor
        <5>2. CASE nextKid > 1
          <6>1. nextKid - 1 \in 1..Len(tree[Node].kids) /\ nextKid - 1 < nextKid
            BY <1>2, <3>4, <5>2
          <6>2. tree[tree[Node].kids[nextKid - 1]].role \notin {"params", "results"}
            BY <1>2, <3>2, <4>2, <6>1
          <6>3. Factor(tree[tree[Node].kids[nextKid - 1]].role) = 4
            BY <6>2 DEF Factor
          <6>4. LastRole = tree[tree[Node].kids[nextKid - 1]].role
            BY <2>1, <2>5 DEF LastRole
          <6> QED  BY <2>1, <2>3, <2>5, <5>1, <5>2, <6>3, <6>4 DEF Split
        <5>3. CASE ~ (nextKid > 1)
          BY <2>1, <5>1, <5>3 DEF Split
        <5> QED  BY <5>2, <5>3
      <4> QED  BY <4>1, <4>2
    <3>7. InTop'
      BY <2>2, <2>5
    <3> QED  BY <3>4, <3>5, <3>6, <3>7 DEF Split, Factor
  <2> QED  BY <2>4, <2>5
<1>9. CASE N > 3
  <2>7. N # 1 /\ N # 3
    BY <1>1, <1>9
  <2>5. Kind(Child) # "FuncDecl" /\ Node # topFuncType
    BY <1>5, <1>6, <2>7
  <2>6. topFuncType' = topFuncType /\ minSplitFactor' = minSplitFactor
    BY <2>5 DEF NewTop, NewFactor
  <2>1. /\ topFuncType' = topFuncType /\ path'[3] = path[3] /\ Len(path') >= 3
        /\ minSplitFactor' = minSplitFactor /\ 3 \in 1..N
    BY <1>1, <1>3, <1>9, <2>6
  <2>2. InTop' <=> InTop
    BY <1>9, <2>1 DEF InTop
  <2>3. CASE InTop /\ path[3].next > 1
    <3>1. path[3].node = topFuncType /\ topFuncType \in Places
      BY <1>1, <2>1, <2>3 DEF InTop
    <3>2. tree'[topFuncType'].kids = tree[topFuncType].kids
      BY <2>1, <3>1 DEF SameAround
    <3>3. path[3].next - 1 \in 1..Len(tree[topFuncType].kids)
      <4>1. path[3].next \in 1..(Len(tree[topFuncType].kids) + 1)
        BY <2>1, <3>1 DEF OnPath
      <4>2. Len(tree[topFuncType].kids) \in Nat
        BY <3>1, KidsAre
      <4> QED  BY <2>3, <4>1, <4>2
    <3>4. tree[topFuncType].kids[path[3].next - 1] \in Places
      BY <3>1, <3>3, KidIs, ChildIs
    <3>5. LastRole' = LastRole
      BY <1>4, <2>1, <3>2, <3>4 DEF LastRole
    <3> QED  BY <2>1, <2>2, <2>3, <3>5 DEF Split, Factor
  <2>4. CASE ~ (InTop /\ path[3].next > 1)
    BY <2>1, <2>2, <2>4 DEF Split
  <2> QED  BY <2>3, <2>4
<1>10. N < 3 \/ N = 3 \/ N > 3
  <2>1. N \in Nat
    BY <1>1
  <2> HIDE DEF N
  <2> QED  BY <2>1
<1> QED  BY <1>7, <1>8, <1>9, <1>10

\* It is what it was before once the signature is left.
LEMMA SplitUp ==
  ASSUME SameTree, OnPath, Top, Split, path # <<>>, Ascend,
         UNCHANGED <<source, tree, topFuncType>>,
         minSplitFactor' = IF Node = topFuncType THEN 4 ELSE minSplitFactor
  PROVE  Split'
<1> DEFINE N == Len(path)
<1>1. N \in Nat /\ N >= 1 /\ Node = path[N].node
  BY Standing DEF Node
<1>2. Len(path') = N - 1 /\ \A k \in 1..(N - 1) : path'[k] = path[k]
  BY Ascending
<1>3. Node = topFuncType => N = 3
  BY NodeOnTop
<1>4. CASE N <= 3
  <2>1. ~ InTop'
    BY <1>1, <1>2, <1>4 DEF InTop
  <2>2. minSplitFactor' = 4
    BY <1>1, <1>4 DEF Split, InTop
  <2> QED  BY <2>1, <2>2 DEF Split
<1>5. CASE N > 3
  <2>1. path'[3] = path[3] /\ Len(path') >= 3 /\ minSplitFactor' = minSplitFactor
    BY <1>1, <1>2, <1>3, <1>5
  <2>2. InTop' <=> InTop
    BY <1>5, <2>1 DEF InTop
  <2>3. LastRole' = LastRole
    BY <2>1 DEF LastRole
  <2> QED  BY <2>1, <2>2, <2>3 DEF Split, Factor
<1> QED  BY <1>1, <1>4, <1>5

------------------------------------------------------------------------------
(* The invariant, one action after the other *)

\* Where a run begins.
Beginning ==
  /\ SameTree
  /\ path = <<Frame(File)>>
  /\ parentFuncTypes = <<>> /\ topFuncType = Nil
  /\ minSplitFactor = 4 /\ blockLevel = 0

\* Where a run begins the invariant holds.
LEMMA Begins == Beginning => Inv
<1> SUFFICES ASSUME Beginning  PROVE Inv
  OBVIOUS
<1>1. SameTree /\ IsTree(source)
  BY FilesAssumption DEF Beginning, SameTree
<1>2. File \in Places
  BY <1>1 DEF IsTree, Places
<1>3. /\ tree[File].kind = "File" /\ Len(File) = 1 /\ Up(File, 1) = File
      /\ Len(tree[File].kids) \in Nat
  <2>1. tree[File].kind = source[File].kind /\ source[File].kind = "File"
    BY <1>1, <1>2, SyntaxIs
  <2> QED  BY <1>1, <1>2, <2>1, KidsAre, SyntaxIs DEF File
<1>4. Frame(File).node = File /\ Frame(File).next = 1
  BY DEF Frame
<1>5. Len(path) = 1 /\ path[1].node = File /\ path[1].next = 1
  BY <1>4 DEF Beginning
<1>6. OnPath
  <2>1. Frame(File) \in [node : Places, next : Nat]
    BY <1>2 DEF Frame
  <2>2. path \in Seq([node : Places, next : Nat])
    BY <2>1 DEF Beginning
  <2>3. ASSUME NEW k \in 1..Len(path)
        PROVE  k = 1
    BY <1>5
  <2>4. 1 \in 1..(Len(tree[File].kids) + 1)
    BY <1>3
  <2>5. \A j \in 1..1 : path[j].node = Up(File, j)
    BY <1>3, <1>5
  <2>6. ~ (1 > 1)
    OBVIOUS
  <2> QED  BY <1>3, <1>5, <2>2, <2>3, <2>4, <2>5, <2>6 DEF OnPath
<1>7. Around(Funcs) = {} /\ Around({"BlockStmt"}) = {}
  BY <1>3, <1>5 DEF Around, Kind, Funcs
<1>8. FuncStack /\ BlockDepth
  BY <1>7, FS_EmptySet, EmptySeq DEF FuncStack, BlockDepth, Beginning
<1>9. Top /\ Split
  BY <1>5 DEF Top, Split, InTop, Beginning
<1> QED  BY <1>1, <1>6, <1>8, <1>9 DEF Inv

\* The first run begins there.
LEMMA InvInit == Init => Inv
<1> SUFFICES ASSUME Init  PROVE Beginning
  BY Begins
<1>1. source \in Files /\ IsTree(source) /\ tree = source
  BY FilesAssumption DEF Init
<1>2. /\ source = [n \in Places |-> source[n]]
      /\ \A n \in Places :
           /\ n \in Seq(Nat) /\ source[n] \in NodesOver(Places)
           /\ \A k \in 1..Len(source[n].kids) : source[n].kids[k] = Append(n, k)
  BY <1>1 DEF IsTree, Places
<1>3. source \in [Places -> NodesOver(Places)]
  BY <1>2
<1>4. ASSUME NEW n \in Places  PROVE Fields(Range(source[n].kids), source[n].kids)
  <2>1. source[n].kids \in Seq(Places) /\ Len(source[n].kids) \in Nat
    BY <1>2, LenProperties DEF NodesOver
  <2>2. source[n].kids \in Seq(Range(source[n].kids))
    BY <2>1, LenProperties, IsASeq DEF Range
  <2>3. ASSUME NEW j \in 1..Len(source[n].kids), NEW k \in 1..Len(source[n].kids),
               source[n].kids[j] = source[n].kids[k]
        PROVE  j = k
    <3>1. n \in Seq(Nat) /\ j \in Nat /\ k \in Nat
      BY <1>2, <2>1
    <3>2. \A i \in 1..Len(source[n].kids) : source[n].kids[i] = Append(n, i)
      BY <1>2
    <3>3. Append(n, j) = Append(n, k)
      BY <2>3, <3>2
    <3>4. Append(n, j)[Len(n) + 1] = j /\ Append(n, k)[Len(n) + 1] = k
      BY <3>1, UpChild
    <3> QED  BY <3>3, <3>4
  <2> QED  BY <2>2, <2>3 DEF Fields
<1>5. SameTree
  BY <1>1, <1>3, <1>4 DEF SameTree
<1> QED  BY <1>5 DEF Init, Beginning

\* Only the lists of a signature change minSplitFactor.
LEMMA NotAList ==
  ASSUME SameTree, OnPath, Top, NEW kinds, CanEnter(kinds), "FieldList" \notin kinds,
         minSplitFactor' = minSplitFactor
  PROVE  NewFactor
<1>1. Node # topFuncType
  <2> SUFFICES ASSUME Node = topFuncType  PROVE FALSE
    OBVIOUS
  <2>1. Node \in Places /\ tree[Node].kind = "FuncType"
    BY NodeOnTop DEF CanEnter, Kind
  <2>2. tree[Child].kind = "FieldList"
    BY <2>1, ChildIn, TypeKids DEF Child
  <2> QED  BY <2>2, ChildIn DEF Kind
<1> QED  BY <1>1 DEF NewFactor

\* What all the steps into a child have in common.
LEMMA InvDown ==
  ASSUME SameTree, OnPath, Top, Split, UNCHANGED source,
         NEW kinds, CanEnter(kinds), Descend, SameTree', SameAround, NewTop, NewFactor
  PROVE  OnPath' /\ Top' /\ Split'
BY PathDown, TopDown, SplitDown

\* And those into a child that is no function.
LEMMA StackDown ==
  ASSUME SameTree, OnPath, FuncStack, UNCHANGED <<source, parentFuncTypes>>,
         NEW kinds, CanEnter(kinds), Descend, SameTree', kinds \intersect Funcs = {}
  PROVE  FuncStack'
<1>1. Kind(Child) \notin Funcs
  BY ChildIn
<1>2. Around(Funcs)' = Around(Funcs) /\ \A k \in Around(Funcs) : path'[k].node = path[k].node
  BY <1>1, AroundDown
<1> QED  BY <1>2, FuncStackSame

\* And those into a child that is no block.
LEMMA BlocksDown ==
  ASSUME SameTree, OnPath, BlockDepth, UNCHANGED <<source, blockLevel>>,
         NEW kinds, CanEnter(kinds), Descend, SameTree', "BlockStmt" \notin kinds
  PROVE  BlockDepth'
<1>1. Kind(Child) \notin {"BlockStmt"}
  BY ChildIn
<1>2. Around({"BlockStmt"})' = Around({"BlockStmt"})
  BY <1>1, AroundDown
<1> QED  BY <1>2 DEF BlockDepth

\* What all the steps back to a parent have in common.
LEMMA InvUp ==
  ASSUME SameTree, OnPath, Top, Split, path # <<>>, Ascend,
         UNCHANGED <<source, tree, topFuncType>>,
         minSplitFactor' = IF Node = topFuncType THEN 4 ELSE minSplitFactor
  PROVE  SameTree' /\ OnPath' /\ Top' /\ Split'
<1>1. SameTree'
  BY DEF SameTree, Places
<1> QED  BY <1>1, PathUp, TopUp, SplitUp

\* And those from a child that is no function.
LEMMA StackUp ==
  ASSUME SameTree, OnPath, FuncStack, UNCHANGED <<source, tree, parentFuncTypes>>,
         path # <<>>, Ascend, SameTree', Kind(Node) \notin Funcs
  PROVE  FuncStack'
<1>1. /\ Around(Funcs)' = Around(Funcs) \ {Len(path)} /\ Len(path) \notin Around(Funcs)
      /\ \A k \in Around(Funcs)' : path'[k].node = path[k].node
  BY AroundUp
<1>2. Around(Funcs)' = Around(Funcs)
  BY <1>1
<1> QED  BY <1>1, <1>2, FuncStackSame

\* And those from a child that is no block.
LEMMA BlocksUp ==
  ASSUME SameTree, OnPath, BlockDepth, UNCHANGED <<source, tree, blockLevel>>,
         path # <<>>, Ascend, Kind(Node) # "BlockStmt"
  PROVE  BlockDepth'
<1>1. /\ Around({"BlockStmt"})' = Around({"BlockStmt"}) \ {Len(path)}
      /\ Len(path) \in Around({"BlockStmt"}) <=> Kind(Node) \in {"BlockStmt"}
  BY AroundUp
<1>2. Around({"BlockStmt"})' = Around({"BlockStmt"})
  BY <1>1
<1> QED  BY <1>2 DEF BlockDepth

\* A return is in a function, and the innermost one is last on the stack.
LEMMA Innermost ==
  ASSUME SameTree, OnPath, FuncStack, CanEnter({"ReturnStmt"})
  PROVE  /\ Owner(Child) \in Places /\ source[Owner(Child)].kind \in Funcs
         /\ Last(parentFuncTypes) = TypeOf(source, Owner(Child))
         /\ Last(parentFuncTypes) \in Places
<1> DEFINE N == Len(path)
           A == Around(Funcs)
           below == {N - k : k \in A}
<1>1. /\ N \in Nat /\ \A k \in 1..N : path[k].node \in Places
  BY Standing DEF CanEnter
<1>2. /\ Child \in Places /\ tree[Child].kind = "ReturnStmt" /\ Len(Child) = N + 1
      /\ \A k \in 1..N : Up(Child, k) = path[k].node
  BY ChildIn DEF Kind
<1>3. source[Child].kind = "ReturnStmt"
  BY <1>2 DEF SameTree
<1>4. \E k \in 1..(Len(Child) - 1) : source[Up(Child, k)].kind \in Funcs
  BY <1>2, <1>3, SyntaxIs
<1>5. 1..(Len(Child) - 1) = 1..N
  BY <1>1, <1>2
<1>6. \A k \in 1..N : source[Up(Child, k)].kind = tree[path[k].node].kind
  BY <1>1, <1>2 DEF SameTree
<1>7. {k \in 1..(Len(Child) - 1) : source[Up(Child, k)].kind \in Funcs} = A
  BY <1>5, <1>6 DEF Around, Kind
<1>8. A # {}
  BY <1>4, <1>7
<1>9. /\ A \subseteq 1..N /\ IsFiniteSet(A) /\ Cardinality(A) \in Nat
      /\ \A k \in A : path[k].node \in Places /\ tree[path[k].node].kind \in Funcs
  BY AroundIs
<1> HIDE DEF A
<1>10. \E m \in A : \A k \in A : m >= k
  <2>a. \A k \in 1..N : N - k \in Nat
    BY <1>1
  <2>b. \A k \in A : N - k \in Nat
    BY <1>9, <2>a
  <2>1. below \subseteq Nat /\ below # {}
    BY <1>8, <2>b
  <2> HIDE DEF below
  <2>2. PICK b \in below : \A y \in below : b <= y
    BY <2>1, LeastNatural
  <2>3. PICK m \in A : b = N - m
    BY DEF below
  <2>4. \A k \in A : N - m <= N - k
    BY <2>2, <2>3 DEF below
  <2>5. \A k \in A : m >= k
    BY <1>1, <1>9, <2>4
  <2> QED  BY <2>5
<1>11. Max(A) \in A /\ \A k \in A : Max(A) >= k
  BY <1>10 DEF Max
<1> DEFINE m == Max(A)
<1> HIDE DEF m
<1>12. m \in A /\ \A k \in A : m >= k
  BY <1>11 DEF m
<1>13. Owner(Child) = Up(Child, m)
  BY <1>7 DEF Owner, m
<1>14. Owner(Child) = path[m].node /\ m \in 1..N
  BY <1>2, <1>9, <1>12, <1>13
<1>15. A \intersect (1..m) = A
  BY <1>1, <1>9, <1>12
<1>16. /\ Len(parentFuncTypes) = Cardinality(A) /\ parentFuncTypes \in Seq(Places)
       /\ \A k \in A : parentFuncTypes[Cardinality(A \intersect (1..k))] = TypeOf(tree, path[k].node)
  BY DEF FuncStack, A
<1>17. parentFuncTypes[Len(parentFuncTypes)] = TypeOf(tree, Owner(Child))
  BY <1>12, <1>14, <1>15, <1>16
<1>18. Owner(Child) \in Places /\ tree[Owner(Child)].kind \in Funcs
  BY <1>9, <1>12, <1>14
<1>19. /\ TypeOf(tree, Owner(Child)) = TypeOf(source, Owner(Child))
       /\ TypeOf(tree, Owner(Child)) \in Places
  BY <1>18, TypeIs, ChildIs
<1>20. source[Owner(Child)].kind \in Funcs
  BY <1>18 DEF SameTree
<1> QED  BY <1>17, <1>18, <1>19, <1>20 DEF Last

\* The nodes of the path are not the child, whose place is longer.
LEMMA NotOnPath ==
  ASSUME SameTree, OnPath, NEW kinds, CanEnter(kinds), NEW k \in 1..Len(path)
  PROVE  path[k].node # Child /\ path[k].node \in Places
<1>1. Len(path) \in Nat /\ path[k].node \in Places
  BY Standing DEF CanEnter
<1>2. Len(Child) = Len(path) + 1
  BY ChildIn
<1>3. Len(path[k].node) = k
  BY DEF OnPath
<1>4. k # Len(path) + 1
  BY <1>1
<1> QED  BY <1>1, <1>2, <1>3, <1>4

\* A function: its type is pushed.
LEMMA EnterFuncInv ==
  ASSUME Inv, EnterFunc
  PROVE  Inv'
<1>1. /\ SameTree /\ OnPath /\ FuncStack /\ BlockDepth /\ Top /\ Split
      /\ CanEnter(Funcs) /\ Descend
  BY DEF Inv, EnterFunc
<1>2. /\ parentFuncTypes' = Append(parentFuncTypes, TypeOf(tree, Child))
      /\ UNCHANGED <<source, tree, minSplitFactor, blockLevel>> /\ NewTop
  BY DEF EnterFunc, NewTop, given
<1>3. SameTree' /\ SameAround
  BY <1>1, <1>2 DEF SameTree, Places, SameAround
<1>4. NewFactor
  BY <1>1, <1>2, NotAList DEF Funcs
<1>5. OnPath' /\ Top' /\ Split'
  BY <1>1, <1>2, <1>3, <1>4, InvDown
<1>6. FuncStack'
  <2>1. Child \in Places /\ Kind(Child) \in Funcs
    BY <1>1, ChildIn
  <2>2. /\ Around(Funcs)' = Around(Funcs) \union {Len(path) + 1}
        /\ \A k \in Around(Funcs) : path'[k].node = path[k].node
    BY <1>1, <1>2, <1>3, <2>1, AroundDown
  <2>3. path'[Len(path) + 1].node = Child
    BY <1>1, Descending
  <2> QED  BY <1>1, <1>2, <1>3, <2>1, <2>2, <2>3, FuncStackPush
<1>7. BlockDepth'
  BY <1>1, <1>2, <1>3, BlocksDown DEF Funcs
<1> QED  BY <1>3, <1>5, <1>6, <1>7 DEF Inv

\* A list: it is merged, and may say when to split.
LEMMA EnterFieldListInv ==
  ASSUME Inv, EnterFieldList
  PROVE  Inv'
<1>1. /\ SameTree /\ OnPath /\ FuncStack /\ BlockDepth /\ Top /\ Split
      /\ CanEnter({"FieldList"}) /\ Descend
  BY DEF Inv, EnterFieldList
<1>2. UNCHANGED <<source, parentFuncTypes, topFuncType, blockLevel>>
  BY DEF EnterFieldList, given
<1>3. Child \in Places /\ tree[Child].kind = "FieldList"
  BY <1>1, ChildIn DEF Kind
<1>4. SameTree' /\ SameAround
  <2>1. CASE Groups(Child)
    <3>1. LET merged == mergeAdjacentFields(tree, tree[Child].kids)
          IN  tree' = [merged.tree EXCEPT ![Child].kids = merged.fields]
      BY <2>1 DEF EnterFieldList
    <3>2. SameTree' /\ \A x \in Places : x # Child => tree'[x].kids = tree[x].kids
      BY <1>1, <1>2, <1>3, <3>1, TreeMerged
    <3>3. \A k \in 1..Len(path) : path[k].node # Child /\ path[k].node \in Places
      BY <1>1, NotOnPath
    <3> QED  BY <3>2, <3>3 DEF SameAround
  <2>2. CASE ~ Groups(Child)
    BY <1>1, <1>2, <2>2 DEF EnterFieldList, SameTree, Places, SameAround
  <2> QED  BY <2>1, <2>2
<1>5. NewTop
  BY <1>2, <1>3 DEF NewTop, Kind
<1>6. NewFactor
  <2>1. minSplitFactor' = CASE Node = topFuncType /\ tree[Child].role = "params"  -> 6
                            [] Node = topFuncType /\ tree[Child].role = "results" -> 10000
                            [] OTHER -> minSplitFactor
    BY DEF EnterFieldList
  <2> QED  BY <2>1 DEF NewFactor, Factor
<1>7. OnPath' /\ Top' /\ Split'
  BY <1>1, <1>2, <1>4, <1>5, <1>6, InvDown
<1>8. FuncStack'
  BY <1>1, <1>2, <1>4, StackDown DEF Funcs
<1>9. BlockDepth'
  BY <1>1, <1>2, <1>4, BlocksDown
<1> QED  BY <1>4, <1>7, <1>8, <1>9 DEF Inv

\* A block: it counts.
LEMMA EnterBlockInv ==
  ASSUME Inv, EnterBlock
  PROVE  Inv'
<1>1. /\ SameTree /\ OnPath /\ FuncStack /\ BlockDepth /\ Top /\ Split
      /\ CanEnter({"BlockStmt"}) /\ Descend
  BY DEF Inv, EnterBlock
<1>2. /\ UNCHANGED <<source, tree, parentFuncTypes, topFuncType, minSplitFactor>>
      /\ blockLevel' = blockLevel + 1
  BY DEF EnterBlock, given
<1>3. SameTree' /\ SameAround
  BY <1>1, <1>2 DEF SameTree, Places, SameAround
<1>4. Kind(Child) = "BlockStmt"
  BY <1>1, ChildIn
<1>5. NewTop
  BY <1>2, <1>4 DEF NewTop
<1>6. NewFactor
  BY <1>1, <1>2, NotAList
<1>7. OnPath' /\ Top' /\ Split'
  BY <1>1, <1>2, <1>3, <1>5, <1>6, InvDown
<1>8. FuncStack'
  BY <1>1, <1>2, <1>3, StackDown DEF Funcs
<1>9. BlockDepth'
  <2> DEFINE B == Around({"BlockStmt"})
  <2>1. B' = B \union {Len(path) + 1}
    BY <1>1, <1>2, <1>3, <1>4, AroundDown
  <2>2. B \subseteq 1..Len(path) /\ Len(path) \in Nat /\ IsFiniteSet(B)
    BY <1>1, AroundIs
  <2> HIDE DEF B
  <2>3. Len(path) + 1 \notin B
    BY <2>2
  <2>4. Cardinality(B') = Cardinality(B) + 1
    BY <2>1, <2>2, <2>3, FS_AddElement
  <2> QED  BY <1>1, <1>2, <2>4 DEF BlockDepth, B
<1> QED  BY <1>3, <1>7, <1>8, <1>9 DEF Inv

\* A return: it may get names.
LEMMA EnterReturnInv ==
  ASSUME Inv, EnterReturn
  PROVE  Inv'
<1>1. /\ SameTree /\ OnPath /\ FuncStack /\ BlockDepth /\ Top /\ Split
      /\ CanEnter({"ReturnStmt"}) /\ Descend
  BY DEF Inv, EnterReturn
<1>2. UNCHANGED <<source, parentFuncTypes, topFuncType, minSplitFactor, blockLevel>>
  BY DEF EnterReturn, given, state
<1>3. Child \in Places /\ Kind(Child) = "ReturnStmt"
  BY <1>1, ChildIn
<1>4. SameTree' /\ SameAround
  <2>1. CASE tree[Child].names = <<>> /\ "clothe_returns" \in extra
    <3>1. tree' = [tree EXCEPT ![Child].names = Clothes(tree, Last(parentFuncTypes))]
      BY <2>1 DEF EnterReturn
    <3>2. Clothes(tree, Last(parentFuncTypes)) \in Seq(STRING)
      BY <1>1, Innermost, ClothesTyped
    <3>3. SameTree' /\ \A x \in Places : tree'[x].kids = tree[x].kids
      BY <1>1, <1>2, <1>3, <3>1, <3>2, TreeNamed
    <3>4. \A k \in 1..Len(path) : path[k].node \in Places
      BY <1>1, NotOnPath
    <3> QED  BY <3>3, <3>4 DEF SameAround
  <2>2. CASE ~ (tree[Child].names = <<>> /\ "clothe_returns" \in extra)
    BY <1>1, <1>2, <2>2 DEF EnterReturn, SameTree, Places, SameAround
  <2> QED  BY <2>1, <2>2
<1>5. NewTop
  BY <1>2, <1>3 DEF NewTop
<1>6. NewFactor
  BY <1>1, <1>2, NotAList
<1>7. OnPath' /\ Top' /\ Split'
  BY <1>1, <1>2, <1>4, <1>5, <1>6, InvDown
<1>8. FuncStack'
  BY <1>1, <1>2, <1>4, StackDown DEF Funcs
<1>9. BlockDepth'
  BY <1>1, <1>2, <1>4, BlocksDown
<1> QED  BY <1>4, <1>7, <1>8, <1>9 DEF Inv

\* Any other node.
LEMMA EnterOtherInv ==
  ASSUME Inv, EnterOther
  PROVE  Inv'
<1>1. /\ SameTree /\ OnPath /\ FuncStack /\ BlockDepth /\ Top /\ Split
      /\ CanEnter(Others) /\ Descend
  BY DEF Inv, EnterOther
<1>2. UNCHANGED <<source, tree, parentFuncTypes, topFuncType, minSplitFactor, blockLevel>>
  BY DEF EnterOther, given, state
<1>3. Kind(Child) \in Others
  BY <1>1, ChildIn
<1>4. SameTree' /\ SameAround
  BY <1>1, <1>2 DEF SameTree, Places, SameAround
<1>5. NewTop
  BY <1>2, <1>3 DEF NewTop, Others
<1>6. NewFactor
  BY <1>1, <1>2, NotAList DEF Others
<1>7. OnPath' /\ Top' /\ Split'
  BY <1>1, <1>2, <1>4, <1>5, <1>6, InvDown
<1>8. FuncStack'
  BY <1>1, <1>2, <1>4, StackDown DEF Funcs, Others
<1>9. BlockDepth'
  BY <1>1, <1>2, <1>4, BlocksDown DEF Others
<1> QED  BY <1>4, <1>7, <1>8, <1>9 DEF Inv

\* The type of a declared function is a FuncType.
LEMMA NotAType ==
  ASSUME SameTree, OnPath, Top, path # <<>>, Kind(Node) # "FuncType"
  PROVE  Node # topFuncType
BY NodeOnTop

\* The end of a function: its type is popped.
LEMMA LeaveFuncInv ==
  ASSUME Inv, LeaveFunc
  PROVE  Inv'
<1>1. /\ SameTree /\ OnPath /\ FuncStack /\ BlockDepth /\ Top /\ Split
      /\ path # <<>> /\ Kind(Node) \in Funcs /\ Ascend
  BY DEF Inv, LeaveFunc, CanLeave
<1>2. /\ UNCHANGED <<source, tree, topFuncType, minSplitFactor, blockLevel>>
      /\ parentFuncTypes' = Front(parentFuncTypes)
  BY DEF LeaveFunc, given
<1>3. Node # topFuncType
  BY <1>1, NotAType DEF Funcs
<1>4. SameTree' /\ OnPath' /\ Top' /\ Split'
  BY <1>1, <1>2, <1>3, InvUp
<1>5. FuncStack'
  <2>1. /\ Around(Funcs)' = Around(Funcs) \ {Len(path)} /\ Len(path) \in Around(Funcs)
        /\ \A k \in Around(Funcs)' : path'[k].node = path[k].node
    BY <1>1, <1>2, AroundUp
  <2> QED  BY <1>1, <1>2, <2>1, FuncStackPop
<1>6. BlockDepth'
  BY <1>1, <1>2, BlocksUp DEF Funcs
<1> QED  BY <1>4, <1>5, <1>6 DEF Inv

\* The end of a function's type, which may be that of a signature.
LEMMA LeaveFuncTypeInv ==
  ASSUME Inv, LeaveFuncType
  PROVE  Inv'
<1>1. /\ SameTree /\ OnPath /\ FuncStack /\ BlockDepth /\ Top /\ Split
      /\ path # <<>> /\ Kind(Node) = "FuncType" /\ Ascend
  BY DEF Inv, LeaveFuncType, CanLeave
<1>2. /\ UNCHANGED <<source, tree, parentFuncTypes, topFuncType, blockLevel>>
      /\ minSplitFactor' = IF Node = topFuncType THEN 4 ELSE minSplitFactor
  BY DEF LeaveFuncType, given
<1>3. SameTree' /\ OnPath' /\ Top' /\ Split'
  BY <1>1, <1>2, InvUp
<1>4. FuncStack'
  BY <1>1, <1>2, <1>3, StackUp DEF Funcs
<1>5. BlockDepth'
  BY <1>1, <1>2, BlocksUp
<1> QED  BY <1>3, <1>4, <1>5 DEF Inv

\* The end of a block.
LEMMA LeaveBlockInv ==
  ASSUME Inv, LeaveBlock
  PROVE  Inv'
<1>1. /\ SameTree /\ OnPath /\ FuncStack /\ BlockDepth /\ Top /\ Split
      /\ path # <<>> /\ Kind(Node) = "BlockStmt" /\ Ascend
  BY DEF Inv, LeaveBlock, CanLeave
<1>2. /\ UNCHANGED <<source, tree, parentFuncTypes, topFuncType, minSplitFactor>>
      /\ blockLevel' = blockLevel - 1
  BY DEF LeaveBlock, given
<1>3. Node # topFuncType
  BY <1>1, NotAType
<1>4. SameTree' /\ OnPath' /\ Top' /\ Split'
  BY <1>1, <1>2, <1>3, InvUp
<1>5. FuncStack'
  BY <1>1, <1>2, <1>4, StackUp DEF Funcs
<1>6. BlockDepth'
  <2> DEFINE B == Around({"BlockStmt"})
  <2>1. B' = B \ {Len(path)} /\ Len(path) \in B
    BY <1>1, <1>2, AroundUp
  <2>2. IsFiniteSet(B)
    BY <1>1, AroundIs
  <2> HIDE DEF B
  <2>3. Cardinality(B') = Cardinality(B) - 1
    BY <2>1, <2>2, FS_RemoveElement
  <2> QED  BY <1>1, <1>2, <2>3 DEF BlockDepth, B
<1> QED  BY <1>4, <1>5, <1>6 DEF Inv

\* The end of any other node.
LEMMA LeaveOtherInv ==
  ASSUME Inv, LeaveOther
  PROVE  Inv'
<1>1. /\ SameTree /\ OnPath /\ FuncStack /\ BlockDepth /\ Top /\ Split
      /\ path # <<>> /\ Ascend
      /\ Kind(Node) \in (Others \ {"FuncType"}) \union {"File", "FieldList", "ReturnStmt"}
  BY DEF Inv, LeaveOther, CanLeave
<1>2. UNCHANGED <<source, tree, parentFuncTypes, topFuncType, minSplitFactor, blockLevel>>
  BY DEF LeaveOther, given, state
<1>3. Node # topFuncType
  BY <1>1, NotAType DEF Others
<1>4. SameTree' /\ OnPath' /\ Top' /\ Split'
  BY <1>1, <1>2, <1>3, InvUp
<1>5. FuncStack'
  BY <1>1, <1>2, <1>4, StackUp DEF Funcs, Others
<1>6. BlockDepth'
  BY <1>1, <1>2, BlocksUp DEF Others
<1> QED  BY <1>4, <1>5, <1>6 DEF Inv

\* The end of a run: the next one begins anew, on what was printed.
LEMMA FinishInv ==
  ASSUME Inv, Finish
  PROVE  Inv'
<1>1. CASE outputs = <<>>
  <2>1. UNCHANGED source /\ tree' = Reread(tree)
    BY <1>1 DEF Finish, given
  <2>2. SameTree'
    BY <2>1, TreeReread DEF Inv
  <2>3. Beginning'
    BY <1>1, <2>2 DEF Finish, Beginning
  <2> QED  BY <2>3, Begins, PTL
<1>2. CASE outputs # <<>>
  <2>1. UNCHANGED <<source, tree, path, state>>
    BY <1>2 DEF Finish, given
  <2> QED  BY <2>1 DEF Inv, SameTree, OnPath, FuncStack, BlockDepth, Top, Split, InTop, LastRole,
                       Around, Kind, Places, state
<1> QED  BY <1>1, <1>2

\* Every step keeps the invariant.
LEMMA InvStep == Inv /\ [Next]_vars => Inv'
<1> SUFFICES ASSUME Inv, [Next]_vars  PROVE Inv'
  OBVIOUS
<1>1. CASE EnterFunc
  BY <1>1, EnterFuncInv
<1>2. CASE EnterFieldList
  BY <1>2, EnterFieldListInv
<1>3. CASE EnterBlock
  BY <1>3, EnterBlockInv
<1>4. CASE EnterReturn
  BY <1>4, EnterReturnInv
<1>5. CASE EnterOther
  BY <1>5, EnterOtherInv
<1>6. CASE LeaveFunc
  BY <1>6, LeaveFuncInv
<1>7. CASE LeaveFuncType
  BY <1>7, LeaveFuncTypeInv
<1>8. CASE LeaveBlock
  BY <1>8, LeaveBlockInv
<1>9. CASE LeaveOther
  BY <1>9, LeaveOtherInv
<1>10. CASE Finish
  BY <1>10, FinishInv
<1>11. CASE Done \/ UNCHANGED vars
  <2>1. UNCHANGED vars
    BY <1>11 DEF Done
  <2> QED  BY <2>1 DEF vars, Inv, SameTree, OnPath, FuncStack, BlockDepth, Top, Split, InTop,
                       LastRole, Around, Kind, Places, state, given
<1> QED  BY <1>1, <1>2, <1>3, <1>4, <1>5, <1>6, <1>7, <1>8, <1>9, <1>10, <1>11 DEF Next

\* The tree keeps its nodes and its kinds, the path goes down it from the file, and
\* the variables of the fumpter follow the path, in both runs.
THEOREM InvHolds == Spec => []Inv
BY InvInit, InvStep, PTL DEF Spec

------------------------------------------------------------------------------

\* A signature is the third node of the path, the type of the declared function.
LEMMA SignatureIs ==
  ASSUME Inv, NEW k \in Signature
  PROVE  k = 3 /\ InTop
<1>1. SameTree /\ OnPath /\ Top /\ path \in Seq([node : Places, next : Nat])
  BY DEF Inv, OnPath
<1>2. /\ Len(path) \in Nat /\ k \in 1..Len(path) /\ k - 1 \in 1..Len(path) /\ k > 1
      /\ Kind(path[k - 1].node) = "FuncDecl" /\ Kind(path[k].node) = "FuncType"
  BY <1>1, LenProperties DEF Signature
<1> DEFINE f == path[k - 1].node
           c == path[k].node
<1>3. \A j \in 1..Len(path) : path[j].node \in Places
  <2>1. path # <<>>
    BY <1>2, EmptySeq
  <2> QED  BY <1>1, <2>1, Standing
<1>4. f \in Places /\ tree[f].kind = "FuncDecl" /\ Len(f) = k - 1
  BY <1>1, <1>2, <1>3 DEF OnPath, Kind
<1>5. k - 1 = 2
  BY <1>1, <1>4, DeclIs
<1>6. k = 3
  BY <1>2, <1>5
<1>7. topFuncType = TypeOf(tree, path[2].node)
  BY <1>1, <1>2, <1>5, <1>6 DEF Top
<1>8. path[3].node = topFuncType
  <2>1. /\ path[k - 1].next \in 1..(Len(tree[f].kids) + 1)
        /\ path[k - 1].next > 1 /\ c = tree[f].kids[path[k - 1].next - 1]
    BY <1>1, <1>2 DEF OnPath
  <2>2. Len(tree[f].kids) \in Nat
    BY <1>1, <1>4, KidsAre
  <2>3. path[k - 1].next - 1 \in 1..Len(tree[f].kids)
    BY <2>1, <2>2, SMTT(30)
  <2>4. c \in Range(source[f].kids)
    BY <1>1, <1>4, <2>1, <2>3, KidIs
  <2>5. tree[f].kind \in Funcs /\ tree[c].kind = "FuncType"
    BY <1>2, <1>4 DEF Funcs, Kind
  <2>6. c = TypeOf(tree, f)
    BY <1>1, <1>4, <2>4, <2>5, TypeIs
  <2> QED  BY <1>5, <1>6, <1>7, <2>6
<1>9. Len(path) >= 3
  BY <1>2, <1>6
<1> QED  BY <1>6, <1>8, <1>9 DEF InTop

\* And the signature of the declared function the traversal is in is one.
LEMMA InTopIs ==
  ASSUME Inv, InTop
  PROVE  3 \in Signature
<1>1. SameTree /\ OnPath /\ Top /\ path \in Seq([node : Places, next : Nat])
  BY DEF Inv, OnPath
<1>2. Len(path) \in Nat /\ 3 \in 1..Len(path) /\ path[3].node = topFuncType
  BY <1>1, LenProperties DEF InTop
<1>3. Len(topFuncType) = 3
  BY <1>1, <1>2 DEF OnPath
<1>4. topFuncType # Nil
  BY <1>3, EmptySeq DEF Nil
<1>5. tree[topFuncType].kind = "FuncType" /\ tree[Up(topFuncType, 2)].kind = "FuncDecl"
  BY <1>1, <1>4, TopIs
<1>6. \A j \in 1..3 : path[j].node = Up(path[3].node, j)
  BY <1>1, <1>2 DEF OnPath
<1>7. path[2].node = Up(topFuncType, 2)
  BY <1>2, <1>6
<1>8. 3 \in 2..Len(path) /\ 3 - 1 = 2
  BY <1>2
<1> QED  BY <1>2, <1>5, <1>7, <1>8 DEF Signature, Kind

\* The variables of the fumpter say where the traversal is (format.go:174-228): the
\* stack holds the types of the functions around, the depth
\* counts the blocks, and lines are split as a signature asks only in one.
THEOREM LocatedHolds == Spec => []Located
<1>1. Inv => Located
  <2> SUFFICES ASSUME Inv  PROVE Located
    OBVIOUS
  <2>1. ASSUME NEW k \in Signature, k < Len(path)
        PROVE  minSplitFactor = CASE tree[path[k + 1].node].role = "params"  -> 6
                                  [] tree[path[k + 1].node].role = "results" -> 10000
                                  [] OTHER -> 4
    <3>1. k = 3 /\ InTop
      BY SignatureIs
    <3>2. path[3].node = topFuncType
      BY <3>1 DEF InTop
    <3>3. 4 \in 1..Len(path)
      <4>1. Len(path) \in Nat
        BY LenProperties DEF Inv, OnPath
      <4> QED  BY <2>1, <3>1, <4>1
    <3>4. 4 > 1 /\ 4 - 1 = 3
      OBVIOUS
    <3>5. path[3].next > 1 /\ path[4].node = tree[topFuncType].kids[path[3].next - 1]
      BY <3>2, <3>3, <3>4 DEF Inv, OnPath
    <3>6. tree[path[4].node].role = LastRole
      BY <3>5 DEF LastRole
    <3>7. minSplitFactor = Factor(LastRole)
      BY <3>1, <3>5 DEF Inv, Split
    <3>8. k + 1 = 4
      BY <3>1
    <3> QED  BY <3>6, <3>7, <3>8 DEF Factor
  <2>2. ASSUME Signature = {}  PROVE minSplitFactor = 4
    BY <2>2, InTopIs DEF Inv, Split
  <2> QED  BY <2>1, <2>2 DEF Inv, FuncStack, BlockDepth, Located
<1> QED  BY <1>1, InvHolds, PTL

------------------------------------------------------------------------------
(* The inductive invariant of ReturnsOwn *)

\* The returns of the source.
Returns == Nodes(source, {"ReturnStmt"})

\* Grouping results leaves their names as they were, in order.
ResultsHeld ==
  \A list \in Nodes(tree, {"FieldList"}) :
    tree[list].role = "results" => NamesOf(tree, list) = NamesOf(source, list)

\* The traversal has yet to come to n: a child it has yet to visit, of a node it is
\* in, is n or a node that n is in.
Ahead(n) ==
  \E k \in 1..Len(path) :
    LET kids == tree[path[k].node].kids IN
    /\ k < Len(n) /\ path[k].node = Up(n, k)
    /\ \E j \in path[k].next..Len(kids) : kids[j] = Up(n, k + 1)

\* A return that is still in the tree has its names, or will get them.
Clothed ==
  \A r \in Returns :
    /\ tree[r].names \in {source[r].names, Returned(r)}
    /\ Kept(tree, r) => tree[r].names = Returned(r) \/ (outputs = <<>> /\ Ahead(r))

\* What was put out stays right.
Outputs ==
  /\ outputs \in Seq([Places -> NodesOver(Places)])
  /\ \A k \in 1..Len(outputs), r \in Returns :
       Kept(outputs[k], r) => outputs[k][r].names = Returned(r)

\* What comes ahead is clothed with names that grouping has not changed.
ReturnsInv == ResultsHeld /\ Clothed /\ Outputs

\* A node has one parent.
LEMMA ParentIs ==
  ASSUME SameTree, NEW m \in Places, NEW n \in Places,
         NEW x, x \in Range(tree[m].kids), x \in Range(tree[n].kids)
  PROVE  m = n
<1>1. x \in Range(source[m].kids) /\ x \in Range(source[n].kids)
  BY KidsAre
<1>2. Len(m) \in Nat /\ Len(x) = Len(m) + 1 /\ Up(x, Len(m)) = m
  BY <1>1, ChildIs
<1>3. Len(n) \in Nat /\ Len(x) = Len(n) + 1 /\ Up(x, Len(n)) = n
  BY <1>1, ChildIs
<1>4. Len(m) + 1 = Len(n) + 1
  BY <1>2, <1>3
<1>5. Len(m) = Len(n)
  BY <1>2, <1>3, <1>4
<1> QED  BY <1>2, <1>3, <1>5

\* Only fields are in a list.
LEMMA FieldIs ==
  ASSUME SameTree, NEW list \in Places, tree[list].kind = "FieldList",
         NEW x \in Range(tree[list].kids)
  PROVE  x \in Places /\ source[x].kind = "Field"
<1>1. x \in Range(source[list].kids) /\ x \in Places
  BY KidsAre
<1>2. source[list].kind = "FieldList"
  BY DEF SameTree
<1>3. source[list].kind = "FieldList" =>
        \A k \in Range(source[list].kids) : source[k].kind = "Field"
  BY SyntaxIs
<1> QED  BY <1>1, <1>2, <1>3

\* The names of a list are those of its fields.
LEMMA NamesStay ==
  ASSUME SameTree, NEW list \in Places, tree'[list].kids = tree[list].kids,
         \A x \in Range(tree[list].kids) : tree'[x].names = tree[x].names
  PROVE  NamesOf(tree', list) = NamesOf(tree, list)
<1> DEFINE kids == tree[list].kids
<1>1. kids \in Seq(Places) /\ Len(kids) \in Nat /\ Len(kids) <= Len(kids)
  BY KidsAre DEF Fields
<1>2. \A j \in 1..Len(kids) : tree'[kids[j]].names = tree[kids[j]].names
  BY <1>1, LenProperties DEF Range
<1> HIDE DEF kids
<1>3. ASSUME NEW u, \A j \in 1..Len(kids) : u[kids[j]].names = tree[kids[j]].names
      PROVE  Naming(u, kids)[Len(kids)] = Naming(tree, kids)[Len(kids)]
  BY <1>1, <1>3, NamingSame
<1>4. Naming(tree', kids)[Len(kids)] = Naming(tree, kids)[Len(kids)]
  BY <1>2, <1>3
<1> QED  BY <1>4 DEF NamesOf, kids

\* The results of a function are given as they were declared.
LEMMA ClothesSame ==
  ASSUME SameTree, ResultsHeld, NEW type \in Places, tree[type].kind = "FuncType"
  PROVE  Clothes(tree, type) = Clothes(source, type)
<1> DEFINE results == {n \in Range(source[type].kids) : source[n].role = "results"}
           list    == CHOOSE n \in results : TRUE
<1>1. /\ tree[type].kids = source[type].kids
      /\ \A n \in Range(source[type].kids) :
           n \in Places /\ tree[n].role = source[n].role /\ tree[n].kind = "FieldList"
  <2>1. source[type].kind = "FuncType" /\ tree[type].kids = source[type].kids
    BY DEF SameTree
  <2>2. \A n \in Range(source[type].kids) : source[n].kind = "FieldList"
    BY <2>1, SyntaxIs
  <2>3. \A n \in Range(source[type].kids) : n \in Places
    BY ChildIs
  <2> QED  BY <2>1, <2>2, <2>3 DEF SameTree
<1>2. {n \in Range(tree[type].kids) : tree[n].role = "results"} = results
  BY <1>1
<1>3. results # {} => list \in results
  OBVIOUS
<1>4. results # {} => /\ list \in Nodes(tree, {"FieldList"}) /\ tree[list].role = "results"
  <2>1. DOMAIN tree = Places
    BY DEF SameTree
  <2> QED  BY <1>1, <1>3, <2>1 DEF Nodes
<1> HIDE DEF list, results
<1>5. results # {} => NamesOf(tree, list) = NamesOf(source, list)
  BY <1>4 DEF ResultsHeld
<1> DEFINE shown(names) == IF "_" \in Range(names) THEN <<>> ELSE names
           mine == IF results = {} THEN <<>> ELSE NamesOf(tree, list)
           own  == IF results = {} THEN <<>> ELSE NamesOf(source, list)
<1>6. mine = own
  BY <1>5
<1>7. Clothes(tree, type) = shown(mine)
  BY <1>2 DEF Clothes, list
<1>8. Clothes(source, type) = shown(own)
  BY DEF Clothes, list, results
<1> HIDE DEF shown, mine, own
<1> QED  BY <1>6, <1>7, <1>8

------------------------------------------------------------------------------
(* What is ahead of the traversal *)

\* A return is somewhere under the file.
LEMMA ReturnIs ==
  ASSUME SameTree, NEW r \in Returns
  PROVE  /\ r \in Places /\ source[r].kind = "ReturnStmt" /\ tree[r].kind = "ReturnStmt"
         /\ r \in Seq(Nat) /\ Len(r) \in Nat /\ Len(r) >= 2
         /\ Up(r, 1) = File /\ Up(r, Len(r)) = r
<1>1. r \in Places /\ source[r].kind = "ReturnStmt" /\ tree[r].kind = "ReturnStmt"
  BY DEF Returns, Nodes, Places, SameTree
<1>2. /\ r \in Seq(Nat) /\ Len(r) \in Nat /\ Len(r) >= 1 /\ Up(r, 1) = File
      /\ source[r].kind = "File" <=> r = File
  BY <1>1, SyntaxIs
<1>3. Up(r, Len(r)) = r
  BY <1>2, UpChild
<1>4. Len(r) # 1
  BY <1>1, <1>2, <1>3
<1>5. Len(r) >= 2
  <2>1. \A n \in Nat : n >= 1 /\ n # 1 => n >= 2
    OBVIOUS
  <2> QED  BY <1>2, <1>4, <2>1, Zenon
<1> QED  BY <1>1, <1>2, <1>3, <1>5

\* A child is in some place of its parent's children.
LEMMA PlaceOf ==
  ASSUME SameTree, NEW n \in Places, NEW c \in Range(tree[n].kids)
  PROVE  \E j \in 1..Len(tree[n].kids) : tree[n].kids[j] = c
<1>1. tree[n].kids \in Seq(Places)
  BY KidsAre DEF Fields
<1> QED  BY <1>1, LenProperties DEF Range

\* At the start of a run all returns are ahead.
LEMMA AheadBegins ==
  ASSUME Beginning, NEW r \in Returns, Kept(tree, r)
  PROVE  Ahead(r)
<1>1. SameTree /\ path = <<Frame(File)>>
  BY DEF Beginning
<1>2. /\ r \in Places /\ Len(r) \in Nat /\ Len(r) >= 2 /\ Up(r, 1) = File
  BY <1>1, ReturnIs
<1>3. Len(path) = 1 /\ path[1].node = File /\ path[1].next = 1
  BY <1>1 DEF Frame
<1>4. 2 \in 2..Len(r) /\ 2 - 1 = 1 /\ 1 + 1 = 2 /\ 1 < Len(r) /\ 1 \in 1..1
  BY <1>2
<1>5. Up(r, 1) \in Places /\ Up(r, 2) \in Range(tree[Up(r, 1)].kids)
  BY <1>1, <1>4 DEF Kept, SameTree
<1>6. PICK j \in 1..Len(tree[File].kids) : tree[File].kids[j] = Up(r, 2)
  BY <1>1, <1>2, <1>5, PlaceOf
<1> QED  BY <1>2, <1>3, <1>4, <1>6 DEF Ahead

\* The lists only get shorter.
LEMMA KeptBefore ==
  ASSUME SameTree, SameTree', UNCHANGED source, NEW r,
         \A n \in Places : Range(tree'[n].kids) \subseteq Range(tree[n].kids), Kept(tree', r)
  PROVE  Kept(tree, r)
<1>1. DOMAIN tree = Places /\ DOMAIN tree' = Places
  BY DEF SameTree, Places
<1> QED  BY <1>1 DEF Kept

\* A step down leaves what is ahead ahead, but for the child it goes to.
LEMMA AheadDown ==
  ASSUME SameTree, OnPath, SameTree', SameAround, UNCHANGED source,
         NEW kinds, CanEnter(kinds), Descend,
         NEW r \in Returns, Kept(tree', r), Ahead(r), r # Child
  PROVE  Ahead(r)'
<1> DEFINE N == Len(path)
           Before(k) == /\ k \in 1..N /\ k < Len(r) /\ path[k].node = Up(r, k)
                        /\ \E j \in path[k].next..Len(tree[path[k].node].kids) :
                             tree[path[k].node].kids[j] = Up(r, k + 1)
           After(k)  == /\ k \in 1..(N + 1) /\ k < Len(r) /\ path'[k].node = Up(r, k)
                        /\ \E j \in path'[k].next..Len(tree'[path'[k].node].kids) :
                             tree'[path'[k].node].kids[j] = Up(r, k + 1)
<1>1. /\ N \in Nat /\ N >= 1 /\ Node = path[N].node /\ nextKid = path[N].next
      /\ nextKid \in Nat /\ Node \in Places
  BY Standing DEF CanEnter, Node, nextKid
<1>2. /\ Len(path') = N + 1
      /\ \A k \in 1..N : path'[k].node = path[k].node
      /\ \A k \in 1..(N - 1) : path'[k] = path[k]
      /\ path'[N].next = nextKid + 1
      /\ path'[N + 1].node = Child /\ path'[N + 1].next = 1
  BY Descending
<1>3. Child \in Places /\ Child = tree[Node].kids[nextKid]
  BY ChildIn DEF Child
<1>4. r \in Places /\ Len(r) \in Nat /\ Up(r, Len(r)) = r
  BY ReturnIs
<1>5. \A k \in 1..N : tree'[path[k].node].kids = tree[path[k].node].kids
  BY DEF SameAround
<1>6. PICK k : Before(k)
  BY DEF Ahead
<1>7. \A i : After(i) => Ahead(r)'
  BY <1>2 DEF Ahead
<1>8. CASE k < N
  <2>1. k \in 1..(N - 1) /\ k \in 1..N /\ k \in 1..(N + 1)
    BY <1>1, <1>6, <1>8
  <2>2. path'[k] = path[k] /\ tree'[path[k].node].kids = tree[path[k].node].kids
    BY <1>2, <1>5, <2>1
  <2>3. After(k)
    BY <1>6, <2>1, <2>2
  <2> QED  BY <1>7, <2>3
<1>9. CASE k = N
  <2>1. PICK j \in nextKid..Len(tree[Node].kids) : tree[Node].kids[j] = Up(r, N + 1)
    BY <1>1, <1>6, <1>9
  <2>2. tree'[Node].kids = tree[Node].kids /\ path'[N].node = Node
    BY <1>1, <1>2, <1>5, <1>6, <1>9
  <2>3. CASE j = nextKid
    <3>1. Up(r, N + 1) = Child
      BY <1>3, <2>1, <2>3
    <3>2. N + 1 < Len(r)
      <4>1. N + 1 # Len(r)
        BY <1>4, <3>1
      <4> QED  BY <1>1, <1>4, <1>6, <1>9, <4>1
    <3>3. N + 1 + 1 \in 2..Len(r) /\ N + 1 + 1 - 1 = N + 1 /\ N + 1 \in 1..(N + 1)
      BY <1>1, <1>4, <3>2
    <3>4. Up(r, N + 1 + 1) \in Range(tree'[Up(r, N + 1)].kids)
      BY <3>3 DEF Kept
    <3>5. \E i \in 1..Len(tree'[Child].kids) : tree'[Child].kids[i] = Up(r, N + 1 + 1)
      <4>1. Fields(Range(source[Child].kids), tree'[Child].kids)
        BY <1>3 DEF SameTree, Places
      <4> QED  BY <3>1, <3>4, <4>1, LenProperties DEF Fields, Range
    <3>6. After(N + 1)
      BY <1>2, <3>1, <3>2, <3>3, <3>5
    <3> QED  BY <1>7, <3>6
  <2>4. CASE j # nextKid
    <3>1. Len(tree[Node].kids) \in Nat
      BY <1>1, KidsAre
    <3>2. j \in (nextKid + 1)..Len(tree[Node].kids) /\ N \in 1..(N + 1)
      BY <1>1, <2>1, <2>4, <3>1
    <3>3. After(N)
      BY <1>1, <1>2, <1>6, <1>9, <2>1, <2>2, <3>2, SMTT(30)
    <3> QED  BY <1>7, <3>3
  <2> QED  BY <2>3, <2>4
<1> HIDE DEF After
<1>10. k < N \/ k = N
  BY <1>1, <1>6
<1> QED  BY <1>8, <1>9, <1>10

\* A node is left only when nothing in it is ahead.
LEMMA AheadUp ==
  ASSUME SameTree, OnPath, path # <<>>, UNCHANGED <<source, tree>>, Ascend,
         nextKid > Len(tree[Node].kids), NEW r \in Returns, Ahead(r)
  PROVE  Ahead(r)'
<1> DEFINE N == Len(path)
<1>1. /\ N \in Nat /\ N >= 1 /\ Node = path[N].node /\ nextKid = path[N].next
      /\ nextKid \in Nat /\ Node \in Places /\ Len(tree[Node].kids) \in Nat
  BY Standing DEF Node, nextKid
<1>2. Len(path') = N - 1 /\ \A k \in 1..(N - 1) : path'[k] = path[k]
  BY Ascending
<1>3. PICK k \in 1..N :
        /\ k < Len(r) /\ path[k].node = Up(r, k)
        /\ \E j \in path[k].next..Len(tree[path[k].node].kids) :
             tree[path[k].node].kids[j] = Up(r, k + 1)
  BY DEF Ahead
<1>4. k # N
  <2> SUFFICES ASSUME k = N  PROVE FALSE
    OBVIOUS
  <2>1. PICK j \in nextKid..Len(tree[Node].kids) : TRUE
    BY <1>1, <1>3
  <2> QED  BY <1>1, <2>1
<1>5. k \in 1..(N - 1)
  BY <1>1, <1>4
<1> QED  BY <1>2, <1>3, <1>5 DEF Ahead

------------------------------------------------------------------------------
(* What the actions do to returns and to results *)

\* At first no return was visited and none has changed.
LEMMA ReturnsInit == Init => ReturnsInv
<1> SUFFICES ASSUME Init  PROVE ReturnsInv
  OBVIOUS
<1>1. Inv
  BY InvInit
<1>2. Beginning /\ tree = source /\ outputs = <<>>
  BY <1>1 DEF Init, Beginning, Inv
<1>3. \A r \in Returns : Kept(tree, r) => Ahead(r)
  BY <1>2, AheadBegins
<1>4. ResultsHeld /\ Clothed
  BY <1>2, <1>3 DEF ResultsHeld, Clothed
<1>5. Outputs
  BY <1>2, EmptySeq DEF Outputs
<1> QED  BY <1>4, <1>5 DEF ReturnsInv

\* What a step inside a run keeps of the returns.
LEMMA ClothedDown ==
  ASSUME SameTree, OnPath, Clothed, SameTree', SameAround, UNCHANGED <<given, outputs>>,
         NEW kinds, CanEnter(kinds), Descend,
         \A n \in Places : Range(tree'[n].kids) \subseteq Range(tree[n].kids),
         \A r \in Returns : r # Child => tree'[r].names = tree[r].names,
         Child \in Returns => tree'[Child].names = Returned(Child)
  PROVE  Clothed'
<1>1. UNCHANGED <<source, extra, outputs>>
  BY DEF given
<1>2. Returns' = Returns /\ \A r : Returned(r)' = Returned(r)
  BY <1>1 DEF Returns, Nodes, Returned, Owner
<1>3. ASSUME NEW r \in Returns
      PROVE  /\ tree'[r].names \in {source[r].names, Returned(r)}
             /\ Kept(tree', r) => tree'[r].names = Returned(r) \/ (outputs = <<>> /\ Ahead(r)')
  <2>1. CASE r = Child
    BY <2>1
  <2>2. CASE r # Child
    <3>1. tree'[r].names = tree[r].names
      BY <2>2
    <3>2. /\ tree[r].names \in {source[r].names, Returned(r)}
          /\ Kept(tree, r) => tree[r].names = Returned(r) \/ (outputs = <<>> /\ Ahead(r))
      BY DEF Clothed
    <3>3. Kept(tree', r) => Kept(tree, r)
      BY <1>1, KeptBefore
    <3>4. Kept(tree', r) /\ Ahead(r) => Ahead(r)'
      BY <1>1, <2>2, AheadDown
    <3> QED  BY <3>1, <3>2, <3>3, <3>4
  <2> QED  BY <2>1, <2>2
<1> QED  BY <1>1, <1>2, <1>3 DEF Clothed

\* What was written stays right.
LEMMA OutputsSame ==
  ASSUME Outputs, UNCHANGED <<given, outputs>>
  PROVE  Outputs'
<1>1. UNCHANGED <<source, extra, outputs>>
  BY DEF given
<1>2. Returns' = Returns /\ Places' = Places /\ \A r : Returned(r)' = Returned(r)
  BY <1>1 DEF Returns, Nodes, Places, Returned, Owner
<1> QED  BY <1>1, <1>2 DEF Outputs

\* Results stay while the tree does.
LEMMA HeldSame ==
  ASSUME ResultsHeld, UNCHANGED <<source, tree>>
  PROVE  ResultsHeld'
BY DEF ResultsHeld, Nodes

\* A step into a child that is no return and no list.
LEMMA ReturnsDown ==
  ASSUME Inv, ReturnsInv, Inv', UNCHANGED <<given, tree, outputs>>,
         NEW kinds, CanEnter(kinds), Descend, "ReturnStmt" \notin kinds
  PROVE  ReturnsInv'
<1>1. SameTree /\ OnPath /\ SameTree' /\ ResultsHeld /\ Clothed /\ Outputs /\ UNCHANGED <<source, tree>>
  BY DEF Inv, ReturnsInv, given
<1>2. SameAround /\ \A n \in Places : Range(tree'[n].kids) \subseteq Range(tree[n].kids)
  BY <1>1 DEF SameAround
<1>3. Child \notin Returns
  BY <1>1, ChildIn, ReturnIs DEF Kind
<1>4. Clothed'
  BY <1>1, <1>2, <1>3, ClothedDown
<1> QED  BY <1>1, <1>4, OutputsSame, HeldSame DEF ReturnsInv

\* A step back to a parent.
LEMMA ReturnsUp ==
  ASSUME Inv, ReturnsInv, UNCHANGED <<given, tree, outputs>>, NEW kinds, CanLeave(kinds), Ascend
  PROVE  ReturnsInv'
<1>1. /\ SameTree /\ OnPath /\ ResultsHeld /\ Clothed /\ Outputs
      /\ UNCHANGED <<source, extra, tree, outputs>>
      /\ path # <<>> /\ nextKid > Len(tree[Node].kids)
  BY DEF Inv, ReturnsInv, given, CanLeave
<1>2. Returns' = Returns /\ \A r : Returned(r)' = Returned(r)
  BY <1>1 DEF Returns, Nodes, Returned, Owner
<1>3. \A r \in Returns : Ahead(r) => Ahead(r)'
  BY <1>1, AheadUp
<1>4. Clothed'
  BY <1>1, <1>2, <1>3 DEF Clothed
<1> QED  BY <1>1, <1>4, OutputsSame, HeldSame DEF ReturnsInv

\* Merging a list takes no result's name away, and no return.
LEMMA EnterFieldListReturns ==
  ASSUME Inv, ReturnsInv, Inv', EnterFieldList
  PROVE  ReturnsInv'
<1>1. /\ SameTree /\ OnPath /\ SameTree' /\ ResultsHeld /\ Clothed /\ Outputs
      /\ CanEnter({"FieldList"}) /\ Descend /\ UNCHANGED <<given, outputs>> /\ UNCHANGED source
  BY DEF Inv, ReturnsInv, EnterFieldList, given
<1>2. Child \in Places /\ Kind(Child) = "FieldList"
  BY <1>1, ChildIn
<1>3. CASE ~ Groups(Child)
  <2>1. UNCHANGED tree
    BY <1>3 DEF EnterFieldList
  <2> QED  BY <1>1, <2>1, ReturnsDown
<1>4. CASE Groups(Child)
  <2>1. LET merged == mergeAdjacentFields(tree, tree[Child].kids)
        IN  tree' = [merged.tree EXCEPT ![Child].kids = merged.fields]
    BY <1>4 DEF EnterFieldList
  <2>2. /\ \A x \in Places : x # Child => tree'[x].kids = tree[x].kids
        /\ \A x \in Places : x \notin Range(tree[Child].kids) => tree'[x].names = tree[x].names
        /\ Range(tree'[Child].kids) \subseteq Range(tree[Child].kids)
        /\ NamesOf(tree', Child) = NamesOf(tree, Child)
    BY <1>1, <1>2, <2>1, TreeMerged DEF Kind
  <2>3. SameAround
    BY <1>1, <2>2, NotOnPath DEF SameAround
  <2>4. \A n \in Places : Range(tree'[n].kids) \subseteq Range(tree[n].kids)
    BY <2>2
  <2>5. ASSUME NEW r \in Returns  PROVE r # Child /\ tree'[r].names = tree[r].names
    <3>1. r \in Places /\ source[r].kind = "ReturnStmt" /\ tree[r].kind = "ReturnStmt"
      BY <1>1, ReturnIs
    <3>2. r \notin Range(tree[Child].kids)
      BY <1>1, <1>2, <3>1, FieldIs DEF Kind
    <3> QED  BY <1>2, <2>2, <3>1, <3>2 DEF Kind
  <2>6. Clothed'
    BY <1>1, <2>3, <2>4, <2>5, ClothedDown
  <2>7. ASSUME NEW list \in Places, tree[list].kind = "FieldList", tree[list].role = "results"
        PROVE  NamesOf(tree', list) = NamesOf(source, list)
    <3>1. NamesOf(tree, list) = NamesOf(source, list)
      BY <1>1, <2>7 DEF ResultsHeld, Nodes, SameTree
    <3>2. CASE list # Child
      <4>1. \A x \in Range(tree[list].kids) : x \in Places /\ x \notin Range(tree[Child].kids)
        BY <1>1, <1>2, <3>2, ParentIs, KidsAre
      <4>2. NamesOf(tree', list) = NamesOf(tree, list)
        BY <1>1, <2>2, <3>2, <4>1, NamesStay
      <4> QED  BY <3>1, <4>2
    <3> QED  BY <2>2, <3>1, <3>2
  <2>8. ResultsHeld'
    <3>1. \A x \in Places : tree'[x].kind = tree[x].kind /\ tree'[x].role = tree[x].role
      BY <1>1 DEF SameTree, Places
    <3>2. DOMAIN tree' = Places
      BY <1>1 DEF SameTree, Places
    <3> QED  BY <1>1, <2>7, <3>1, <3>2 DEF ResultsHeld, Nodes
  <2> QED  BY <1>1, <2>6, <2>8, OutputsSame DEF ReturnsInv
<1> QED  BY <1>3, <1>4

\* A naked return gets the names its own function declared.
LEMMA EnterReturnReturns ==
  ASSUME Inv, ReturnsInv, Inv', EnterReturn
  PROVE  ReturnsInv'
<1>1. /\ SameTree /\ OnPath /\ FuncStack /\ SameTree' /\ ResultsHeld /\ Clothed /\ Outputs
      /\ CanEnter({"ReturnStmt"}) /\ Descend /\ UNCHANGED <<given, outputs>> /\ UNCHANGED source
  BY DEF Inv, ReturnsInv, EnterReturn, given
<1>2. Child \in Places /\ Kind(Child) = "ReturnStmt"
  BY <1>1, ChildIn
<1>3. Child \in Returns
  BY <1>1, <1>2 DEF Returns, Nodes, Kind, SameTree, Places
<1>4. tree[Child].names \in {source[Child].names, Returned(Child)}
  BY <1>1, <1>3 DEF Clothed
<1> DEFINE own == Clothes(source, TypeOf(source, Owner(Child)))
<1>5. Clothes(tree, Last(parentFuncTypes)) = own /\ own \in Seq(STRING)
  <2>1. /\ Owner(Child) \in Places /\ source[Owner(Child)].kind \in Funcs
        /\ Last(parentFuncTypes) = TypeOf(source, Owner(Child))
        /\ Last(parentFuncTypes) \in Places
    BY <1>1, Innermost
  <2>2. tree[Owner(Child)].kind \in Funcs
    BY <1>1, <2>1 DEF SameTree
  <2>3. tree[Last(parentFuncTypes)].kind = "FuncType"
    BY <1>1, <2>1, <2>2, TypeIs
  <2>4. Clothes(tree, Last(parentFuncTypes)) \in Seq(STRING)
    BY <1>1, <2>1, ClothesTyped
  <2> QED  BY <1>1, <2>1, <2>3, <2>4, ClothesSame
<1>6. Returned(Child) = IF source[Child].names = <<>> /\ "clothe_returns" \in extra
                        THEN own ELSE source[Child].names
  BY DEF Returned
<1> HIDE DEF own
<1>7. /\ \A n \in Places : tree'[n].kids = tree[n].kids
      /\ \A n \in Places : n # Child => tree'[n] = tree[n]
      /\ tree'[Child].names = Returned(Child)
  <2>1. CASE tree[Child].names = <<>> /\ "clothe_returns" \in extra
    <3>1. tree' = [tree EXCEPT ![Child].names = own]
      BY <1>5, <2>1 DEF EnterReturn
    <3>2. /\ \A n \in Places : tree'[n].kids = tree[n].kids
          /\ \A n \in Places : n # Child => tree'[n] = tree[n]
          /\ tree'[Child].names = own
      BY <1>1, <1>2, <1>5, <3>1, TreeNamed
    <3>3. Returned(Child) = own
      BY <1>4, <1>6, <2>1
    <3> QED  BY <3>2, <3>3
  <2>2. CASE ~ (tree[Child].names = <<>> /\ "clothe_returns" \in extra)
    <3>1. tree' = tree
      BY <2>2 DEF EnterReturn
    <3>2. tree[Child].names = Returned(Child)
      BY <1>4, <1>6, <2>2
    <3> QED  BY <3>1, <3>2
  <2> QED  BY <2>1, <2>2
<1>8. Clothed'
  <2>1. \A k \in 1..Len(path) : path[k].node \in Places
    BY <1>1, NotOnPath
  <2>2. SameAround
    BY <1>7, <2>1 DEF SameAround
  <2>3. \A r \in Returns : r \in Places
    BY <1>1, ReturnIs
  <2> QED  BY <1>1, <1>7, <2>2, <2>3, ClothedDown
<1>9. ResultsHeld'
  <2>1. ASSUME NEW list \in Places, tree[list].kind = "FieldList", tree[list].role = "results"
        PROVE  NamesOf(tree', list) = NamesOf(source, list)
    <3>1. NamesOf(tree, list) = NamesOf(source, list)
      BY <1>1, <2>1 DEF ResultsHeld, Nodes, SameTree
    <3>2. \A x \in Range(tree[list].kids) : x \in Places /\ x # Child
      <4>1. source[Child].kind = "ReturnStmt"
        BY <1>1, <1>3, ReturnIs
      <4> QED  BY <1>1, <2>1, <4>1, FieldIs
    <3>3. NamesOf(tree', list) = NamesOf(tree, list)
      BY <1>1, <1>7, <3>2, NamesStay
    <3> QED  BY <3>1, <3>3
  <2>2. \A x \in Places : tree'[x].kind = tree[x].kind /\ tree'[x].role = tree[x].role
    BY <1>1 DEF SameTree, Places
  <2>3. DOMAIN tree' = Places
    BY <1>1 DEF SameTree, Places
  <2> QED  BY <1>1, <2>1, <2>2, <2>3 DEF ResultsHeld, Nodes
<1> QED  BY <1>1, <1>8, <1>9, OutputsSame DEF ReturnsInv

\* When a run is over every return was visited, and the next run reads them back.
LEMMA FinishReturns ==
  ASSUME Inv, ReturnsInv, Inv', Finish
  PROVE  ReturnsInv'
<1>1. /\ SameTree /\ SameTree' /\ ResultsHeld /\ Clothed /\ Outputs
      /\ UNCHANGED <<source, extra>> /\ path = <<>> /\ outputs' = Append(outputs, tree)
  BY DEF Inv, ReturnsInv, Finish, given
<1>2. Returns' = Returns /\ Places' = Places /\ \A r : Returned(r)' = Returned(r)
  BY <1>1 DEF Returns, Nodes, Places, Returned, Owner
<1>3. ASSUME NEW r \in Returns, Kept(tree, r)  PROVE tree[r].names = Returned(r)
  <2>1. ~ Ahead(r)
    <3>1. Len(path) = 0
      BY <1>1, EmptySeq
    <3> QED  BY <3>1 DEF Ahead
  <2> QED  BY <1>1, <1>3, <2>1 DEF Clothed
<1>4. Outputs'
  <2>1. tree \in [Places -> NodesOver(Places)] /\ outputs \in Seq([Places -> NodesOver(Places)])
    BY <1>1 DEF SameTree, Outputs
  <2>2. /\ outputs' \in Seq([Places -> NodesOver(Places)]) /\ Len(outputs) \in Nat
        /\ Len(outputs') = Len(outputs) + 1 /\ outputs'[Len(outputs) + 1] = tree
        /\ \A k \in 1..Len(outputs) : outputs'[k] = outputs[k]
    BY <1>1, <2>1, AppendProperties, LenProperties
  <2>3. ASSUME NEW k \in 1..Len(outputs'), NEW r \in Returns, Kept(outputs'[k], r)
        PROVE  outputs'[k][r].names = Returned(r)
    <3>1. CASE k \in 1..Len(outputs)
      BY <1>1, <2>2, <2>3, <3>1 DEF Outputs
    <3>2. CASE k = Len(outputs) + 1
      BY <1>3, <2>2, <2>3, <3>2
    <3>3. k \in 1..Len(outputs) \/ k = Len(outputs) + 1
      BY <2>2
    <3> QED  BY <3>1, <3>2, <3>3
  <2> QED  BY <1>2, <2>2, <2>3 DEF Outputs
<1>5. CASE outputs = <<>>
  <2>1. tree' = Reread(tree) /\ DOMAIN tree = Places /\ DOMAIN tree' = Places
    BY <1>1, <1>5 DEF Finish, SameTree, Places
  <2>2. /\ \A x \in Places : tree'[x].kids = tree[x].kids
        /\ \A x \in Places :
             (\A list \in Nodes(tree, {"FieldList"}) :
                tree[list].role = "methods" => x \notin Range(tree[list].kids))
             => tree'[x].names = tree[x].names
    BY <1>1, <2>1, TreeReread
  <2>3. \A x \in Places : tree'[x].kind = tree[x].kind /\ tree'[x].role = tree[x].role
    BY <1>1 DEF SameTree, Places
  <2>4. ASSUME NEW r \in Returns
        PROVE  /\ tree'[r].names \in {source[r].names, Returned(r)}
               /\ Kept(tree', r) => tree'[r].names = Returned(r)
    <3>1. r \in Places /\ source[r].kind = "ReturnStmt"
      BY <1>1, ReturnIs
    <3>2. \A list \in Nodes(tree, {"FieldList"}) : r \notin Range(tree[list].kids)
      BY <1>1, <2>1, <3>1, FieldIs DEF Nodes
    <3>3. tree'[r].names = tree[r].names
      BY <2>2, <3>1, <3>2
    <3>4. Kept(tree', r) => Kept(tree, r)
      BY <1>1, <2>2, KeptBefore
    <3> QED  BY <1>1, <1>3, <3>3, <3>4 DEF Clothed
  <2>5. Clothed'
    BY <1>1, <1>2, <2>4 DEF Clothed
  <2>6. ASSUME NEW list \in Places, tree[list].kind = "FieldList", tree[list].role = "results"
        PROVE  NamesOf(tree', list) = NamesOf(source, list)
    <3>1. NamesOf(tree, list) = NamesOf(source, list)
      BY <2>1, <2>6, <1>1 DEF ResultsHeld, Nodes
    <3>2. ASSUME NEW x \in Range(tree[list].kids)  PROVE tree'[x].names = tree[x].names
      <4>1. x \in Places
        BY <1>1, <2>6, FieldIs
      <4>2. \A other \in Nodes(tree, {"FieldList"}) :
              tree[other].role = "methods" => x \notin Range(tree[other].kids)
        BY <1>1, <2>1, <2>6, ParentIs DEF Nodes
      <4> QED  BY <2>2, <4>1, <4>2
    <3>3. NamesOf(tree', list) = NamesOf(tree, list)
      BY <1>1, <2>2, <3>2, NamesStay
    <3> QED  BY <3>1, <3>3
  <2>7. ResultsHeld'
    BY <1>1, <2>1, <2>3, <2>6 DEF ResultsHeld, Nodes
  <2> QED  BY <1>4, <2>5, <2>7 DEF ReturnsInv
<1>6. CASE outputs # <<>>
  <2>1. UNCHANGED <<source, tree, path>>
    BY <1>6 DEF Finish, given
  <2>2. Clothed'
    BY <1>1, <1>2, <1>3, <2>1 DEF Clothed
  <2> QED  BY <1>1, <1>4, <2>1, <2>2, HeldSame DEF ReturnsInv
<1> QED  BY <1>5, <1>6

\* Every step keeps them.
LEMMA ReturnsStep == Inv /\ Inv' /\ ReturnsInv /\ [Next]_vars => ReturnsInv'
<1> SUFFICES ASSUME Inv, Inv', ReturnsInv, [Next]_vars  PROVE ReturnsInv'
  OBVIOUS
<1>1. CASE EnterFunc
  <2>1. UNCHANGED <<given, tree, outputs>> /\ CanEnter(Funcs) /\ Descend
    BY <1>1 DEF EnterFunc
  <2> QED  BY <2>1, ReturnsDown DEF Funcs
<1>2. CASE EnterFieldList
  BY <1>2, EnterFieldListReturns
<1>3. CASE EnterBlock
  <2>1. UNCHANGED <<given, tree, outputs>> /\ CanEnter({"BlockStmt"}) /\ Descend
    BY <1>3 DEF EnterBlock
  <2> QED  BY <2>1, ReturnsDown
<1>4. CASE EnterReturn
  BY <1>4, EnterReturnReturns
<1>5. CASE EnterOther
  <2>1. UNCHANGED <<given, tree, outputs>> /\ CanEnter(Others) /\ Descend
    BY <1>5 DEF EnterOther
  <2> QED  BY <2>1, ReturnsDown DEF Others
<1>6. CASE LeaveFunc \/ LeaveFuncType \/ LeaveBlock \/ LeaveOther
  <2>1. PICK kinds : CanLeave(kinds)
    BY <1>6 DEF LeaveFunc, LeaveFuncType, LeaveBlock, LeaveOther
  <2>2. UNCHANGED <<given, tree, outputs>> /\ Ascend
    BY <1>6 DEF LeaveFunc, LeaveFuncType, LeaveBlock, LeaveOther
  <2> QED  BY <2>1, <2>2, ReturnsUp
<1>7. CASE Finish
  BY <1>7, FinishReturns
<1>8. CASE Done \/ UNCHANGED vars
  <2>1. UNCHANGED <<source, extra, tree, path, outputs>>
    BY <1>8 DEF Done, vars, given
  <2>2. Returns' = Returns /\ Places' = Places /\ \A r : Returned(r)' = Returned(r)
    BY <2>1 DEF Returns, Nodes, Places, Returned, Owner
  <2>3. \A r : Ahead(r)' <=> Ahead(r)
    BY <2>1 DEF Ahead
  <2>4. Clothed'
    BY <2>1, <2>2, <2>3 DEF ReturnsInv, Clothed
  <2>5. Outputs'
    BY <2>1, <2>2 DEF ReturnsInv, Outputs
  <2> QED  BY <2>1, <2>4, <2>5, HeldSame DEF ReturnsInv
<1> QED  BY <1>1, <1>2, <1>3, <1>4, <1>5, <1>6, <1>7, <1>8 DEF Next

\* A naked return gets the names its own function gives its results, in both runs
\* (format.go:882-913), however the results are grouped before the traversal comes
\* to it, and a return that has results keeps them.
THEOREM ReturnsOwnHolds == Spec => []ReturnsOwn
<1>1. Inv /\ ReturnsInv => ReturnsOwn
  BY DEF ReturnsInv, Outputs, ReturnsOwn, Returns
<1> QED  BY <1>1, InvHolds, ReturnsInit, ReturnsStep, PTL DEF Spec

------------------------------------------------------------------------------
(* What FlattenSeq returns *)

\* A function on 1..n is a sequence of n elements.
LEMMA FunctionIsSeq ==
  ASSUME NEW S, NEW n \in Nat, NEW f \in [1..n -> S]
  PROVE  f \in Seq(S) /\ Len(f) = n
<1>1. f \in Seq(S)
  BY SeqDef
<1>2. DOMAIN f = 1..n
  OBVIOUS
<1> QED  BY <1>1, <1>2, LenProperties

\* The k-th sequence after what is before it.
After(before, seqs, k) == IF k = 1 THEN seqs[k] ELSE before \o seqs[k]

\* FlattenSeq's function on the first n sequences.
IsFlat(f, seqs, n) == f = [k \in 1..n |-> After(f[k - 1], seqs, k)]

\* There is such a function.
LEMMA FlatExists ==
  ASSUME NEW seqs, NEW n \in Nat
  PROVE  \E f : IsFlat(f, seqs, n)
<1> DEFINE bad == {m \in Nat : ~ \E f : IsFlat(f, seqs, m)}
<1> SUFFICES ASSUME bad # {}  PROVE FALSE
  OBVIOUS
<1>1. PICK m \in bad : \A y \in bad : m <= y
  BY LeastNatural
<1>2. \E f : IsFlat(f, seqs, 0)
  <2> DEFINE f == [k \in 1..0 |-> <<>>]
  <2>1. IsFlat(f, seqs, 0)
    BY DEF IsFlat
  <2> QED  BY <2>1
<1>3. m # 0 /\ m - 1 \in Nat /\ m - 1 \notin bad
  BY <1>1, <1>2
<1>4. PICK f : IsFlat(f, seqs, m - 1)
  BY <1>3
<1> DEFINE g == [k \in 1..m |-> IF k = m THEN After(f[m - 1], seqs, m) ELSE f[k]]
<1>5. ASSUME NEW k \in 1..m  PROVE g[k] = After(g[k - 1], seqs, k)
  <2>1. CASE k = 1
    <3>1. m # 1 => f[1] = After(f[0], seqs, 1)
      <4>1. m # 1 => 1 \in 1..(m - 1) /\ 1 - 1 = 0
        BY <1>1, <1>3
      <4> QED  BY <1>4, <4>1 DEF IsFlat
    <3>2. \A x, y : After(x, seqs, 1) = After(y, seqs, 1)
      BY DEF After
    <3> HIDE DEF bad
    <3> QED  BY <2>1, <3>1, <3>2
  <2>2. CASE k # 1
    <3>1. k - 1 \in 1..m /\ k - 1 # m
      BY <1>3, <2>2
    <3>2. g[k - 1] = f[k - 1]
      BY <3>1
    <3>3. CASE k = m
      BY <3>2, <3>3
    <3>4. CASE k # m
      <4>1. k \in 1..(m - 1)
        BY <1>3, <3>4
      <4>2. f[k] = After(f[k - 1], seqs, k)
        BY <1>4, <4>1 DEF IsFlat
      <4> QED  BY <3>2, <3>4, <4>2
    <3> QED  BY <3>3, <3>4
  <2> QED  BY <2>1, <2>2
<1>6. g = [k \in 1..m |-> g[k]]
  OBVIOUS
<1> HIDE DEF g
<1>7. IsFlat(g, seqs, m)
  BY <1>5, <1>6 DEF IsFlat
<1> QED  BY <1>1, <1>7

\* FlattenSeq ends with its value.
LEMMA FlattenIs ==
  ASSUME NEW seqs, Len(seqs) \in Nat, Len(seqs) # 0
  PROVE  \E f : IsFlat(f, seqs, Len(seqs)) /\ FlattenSeq(seqs) = f[Len(seqs)]
<1> DEFINE n == Len(seqs)
           f == CHOOSE g : g = [k \in 1..n |-> IF k = 1 THEN seqs[k] ELSE g[k - 1] \o seqs[k]]
<1>1. \E g : g = [k \in 1..n |-> IF k = 1 THEN seqs[k] ELSE g[k - 1] \o seqs[k]]
  <2>1. \E g : IsFlat(g, seqs, n)
    BY FlatExists
  <2> QED  BY <2>1, Zenon DEF IsFlat, After
<1>2. f = [k \in 1..n |-> IF k = 1 THEN seqs[k] ELSE f[k - 1] \o seqs[k]]
  BY <1>1, Zenon
<1>3. FlattenSeq(seqs) = f[n]
  BY Zenon DEF FlattenSeq
<1> HIDE DEF f
<1>4. IsFlat(f, seqs, n)
  BY <1>2, Zenon DEF IsFlat, After
<1> QED  BY <1>3, <1>4

\* The first values depend on the first sequences only.
LEMMA FlatSame ==
  ASSUME NEW r, NEW s, NEW f, NEW g, NEW n \in Nat, NEW m \in Nat, n <= m,
         IsFlat(f, r, n), IsFlat(g, s, m), \A k \in 1..n : r[k] = s[k]
  PROVE  \A k \in 1..n : f[k] = g[k]
<1> DEFINE bad == {k \in 1..n : f[k] # g[k]}
<1> SUFFICES ASSUME bad # {}  PROVE FALSE
  OBVIOUS
<1>1. bad \subseteq Nat
  OBVIOUS
<1>2. PICK k \in bad : \A y \in bad : k <= y
  BY <1>1, LeastNatural
<1>3. k \in 1..n /\ k \in 1..m /\ f[k] # g[k] /\ r[k] = s[k]
  BY <1>2
<1>4. f[k] = After(f[k - 1], r, k) /\ g[k] = After(g[k - 1], s, k)
  BY <1>3 DEF IsFlat
<1>5. k # 1 => f[k - 1] = g[k - 1]
  <2>1. k # 1 => k - 1 \in 1..n /\ ~ (k <= k - 1)
    BY <1>3
  <2> QED  BY <1>2, <2>1
<1> QED  BY <1>3, <1>4, <1>5 DEF After

\* No sequence comes to none, and one more comes after the others.
LEMMA FlattenMore ==
  ASSUME NEW S, NEW e, NEW n \in Nat, \A k \in 1..(n + 1) : e[k] \in Seq(S)
  PROVE  FlattenSeq([k \in 1..(n + 1) |-> e[k]]) = FlattenSeq([k \in 1..n |-> e[k]]) \o e[n + 1]
<1> DEFINE r == [k \in 1..n |-> e[k]]
           s == [k \in 1..(n + 1) |-> e[k]]
<1>1. Len(r) = n /\ Len(s) = n + 1 /\ r \in Seq(Seq(S))
  <2>1. r \in [1..n -> Seq(S)] /\ s \in [1..(n + 1) -> Seq(S)] /\ n + 1 \in Nat
    OBVIOUS
  <2> HIDE DEF r, s
  <2> QED  BY <2>1, FunctionIsSeq
<1>2. /\ \A k \in 1..n : r[k] = s[k]
      /\ n + 1 \in 1..(n + 1) /\ s[n + 1] = e[n + 1] /\ e[n + 1] \in Seq(S)
  OBVIOUS
<1> HIDE DEF r, s
<1>3. PICK g : IsFlat(g, s, n + 1) /\ FlattenSeq(s) = g[n + 1]
  <2>1. Len(s) \in Nat /\ Len(s) # 0
    BY <1>1
  <2> QED  BY <1>1, <2>1, FlattenIs
<1>4. g[n + 1] = After(g[n], s, n + 1)
  <2>1. n + 1 \in 1..(n + 1) /\ (n + 1) - 1 = n
    OBVIOUS
  <2> QED  BY <1>3, <2>1 DEF IsFlat
<1>5. CASE n = 0
  <2>1. FlattenSeq(r) = <<>>
    <3>1. r = <<>>
      BY <1>1, <1>5, EmptySeq
    <3> QED  BY <1>1, <1>5, <3>1 DEF FlattenSeq
  <2>2. g[n + 1] = e[n + 1]
    BY <1>2, <1>4, <1>5 DEF After
  <2>3. <<>> \o e[n + 1] = e[n + 1]
    BY <1>2, ConcatEmptySeq
  <2> QED  BY <1>3, <2>1, <2>2, <2>3 DEF r, s
<1>6. CASE n # 0
  <2>1. PICK f : IsFlat(f, r, n) /\ FlattenSeq(r) = f[n]
    BY <1>1, <1>6, FlattenIs
  <2>2. f[n] = g[n]
    <3>1. n \in 1..n /\ n <= n + 1 /\ n + 1 \in Nat
      BY <1>6
    <3> QED  BY <1>2, <1>3, <2>1, <3>1, FlatSame
  <2>3. g[n + 1] = g[n] \o e[n + 1]
    <3>1. ~ (n + 1 = 1)
      BY <1>6
    <3> QED  BY <1>2, <1>4, <3>1 DEF After
  <2> QED  BY <1>3, <2>1, <2>2, <2>3 DEF r, s
<1> QED  BY <1>5, <1>6

------------------------------------------------------------------------------
(* What is printed and what is declared: both go down a tree to its leaves *)

\* The children of a node are deeper than it, and some depth is the last.
Graded(t) ==
  /\ \E d \in Nat : \A n \in DOMAIN t : Len(n) <= d
  /\ \A n \in DOMAIN t :
       /\ Len(n) \in Nat /\ Len(t[n].kids) \in Nat
       /\ \A k \in 1..Len(t[n].kids) :
            t[n].kids[k] \in DOMAIN t /\ Len(t[n].kids[k]) > Len(n)

\* What a node is printed as, or what it declares.
As(what, t, n, kids) == IF what = "text" THEN PrintedAs(t, n, kids) ELSE DeclaredAs(t, n, kids)

\* The nodes from a depth, and what they are.
Deep(t, d) == {n \in DOMAIN t : Len(n) >= d}
Means(what, t, d, f) == f = [n \in Deep(t, d) |-> As(what, t, n, KidsIn(f, t, n))]

Understood(what, t) == \E f : f = [n \in DOMAIN t |-> As(what, t, n, KidsIn(f, t, n))]

\* They can be known, from the deepest ones up.
LEMMA MeaningExists ==
  ASSUME NEW what, NEW t, Graded(t)
  PROVE  Understood(what, t)
<1>1. PICK d \in Nat : \A n \in DOMAIN t : Len(n) <= d
  BY DEF Graded
<1>2. \A n \in DOMAIN t :
        /\ Len(n) \in Nat /\ Len(t[n].kids) \in Nat
        /\ \A k \in 1..Len(t[n].kids) :
             t[n].kids[k] \in DOMAIN t /\ Len(t[n].kids[k]) > Len(n)
  BY DEF Graded
<1> DEFINE Known(j) == \E f : Means(what, t, d + 1 - j, f)
           bad == {j \in Nat : ~ Known(j)}
<1>3. Known(0)
  <2> DEFINE f == [n \in {} |-> <<>>]
  <2>1. Deep(t, d + 1 - 0) = {}
    BY <1>1, <1>2 DEF Deep
  <2>2. Means(what, t, d + 1 - 0, f)
    BY <2>1 DEF Means
  <2> QED  BY <2>2
<1>4. ASSUME NEW j \in Nat, j # 0, Known(j - 1)  PROVE Known(j)
  <2> DEFINE c == d + 1 - j
  <2>1. c \in Int /\ d + 1 - (j - 1) = c + 1
    OBVIOUS
  <2>2. PICK f : Means(what, t, c + 1, f)
    BY <1>4, <2>1
  <2> HIDE DEF c
  <2> DEFINE g == [n \in Deep(t, c) |-> IF Len(n) = c THEN As(what, t, n, KidsIn(f, t, n)) ELSE f[n]]
  <2>3. ASSUME NEW n \in Deep(t, c)  PROVE g[n] = As(what, t, n, KidsIn(g, t, n))
    <3>1. n \in DOMAIN t /\ Len(n) \in Nat /\ Len(n) >= c
      BY <1>2 DEF Deep
    <3>2. ASSUME NEW k \in 1..Len(t[n].kids)  PROVE g[t[n].kids[k]] = f[t[n].kids[k]]
      <4>1. t[n].kids[k] \in DOMAIN t /\ Len(t[n].kids[k]) > Len(n) /\ Len(t[n].kids[k]) \in Nat
        BY <1>2, <3>1
      <4>2. t[n].kids[k] \in Deep(t, c) /\ Len(t[n].kids[k]) # c
        BY <2>1, <3>1, <4>1 DEF Deep
      <4> QED  BY <4>2
    <3>3. KidsIn(g, t, n) = KidsIn(f, t, n)
      BY <3>2 DEF KidsIn
    <3>4. CASE Len(n) = c
      BY <3>3, <3>4
    <3>5. CASE Len(n) # c
      <4>1. n \in Deep(t, c + 1)
        BY <2>1, <3>1, <3>5 DEF Deep
      <4>2. f[n] = As(what, t, n, KidsIn(f, t, n))
        BY <2>2, <4>1 DEF Means
      <4> QED  BY <3>3, <3>5, <4>2
    <3> QED  BY <3>4, <3>5
  <2>4. g = [n \in Deep(t, c) |-> g[n]]
    OBVIOUS
  <2> HIDE DEF g
  <2>5. Means(what, t, c, g)
    BY <2>3, <2>4 DEF Means
  <2> QED  BY <2>5 DEF c
<1> HIDE DEF Known
<1>5. bad = {}
  <2> SUFFICES ASSUME bad # {}  PROVE FALSE
    OBVIOUS
  <2>1. PICK j \in bad : \A y \in bad : j <= y
    BY LeastNatural
  <2>2. j \in Nat /\ j # 0 /\ ~ Known(j)
    BY <1>3, <2>1
  <2>3. j - 1 \in Nat /\ ~ (j <= j - 1)
    BY <2>2
  <2>4. Known(j - 1)
    BY <2>1, <2>3
  <2> QED  BY <1>4, <2>2, <2>4
<1>6. Known(d + 1)
  BY <1>5
<1>7. PICK f : Means(what, t, d + 1 - (d + 1), f)
  BY <1>6 DEF Known
<1>8. Deep(t, d + 1 - (d + 1)) = DOMAIN t
  <2>1. d + 1 - (d + 1) = 0
    OBVIOUS
  <2>2. Deep(t, 0) = DOMAIN t
    <3>1. \A n \in DOMAIN t : Len(n) >= 0
      BY <1>2
    <3> QED  BY <3>1 DEF Deep
  <2> QED  BY <2>1, <2>2
<1> QED  BY <1>7, <1>8 DEF Means, Understood

\* A node is printed as its children's texts say.
LEMMA PrintedIs ==
  ASSUME NEW t, Graded(t)
  PROVE  \A n \in DOMAIN t : Printed(t)[n] = PrintedAs(t, n, KidsIn(Printed(t), t, n))
<1> DEFINE f == Printed(t)
<1>1. Understood("text", t)
  BY MeaningExists
<1>2. \E g : g = [n \in DOMAIN t |-> PrintedAs(t, n, KidsIn(g, t, n))]
  BY <1>1 DEF Understood, As
<1>3. f = [n \in DOMAIN t |-> PrintedAs(t, n, KidsIn(f, t, n))]
  BY <1>2, Zenon DEF Printed
<1> HIDE DEF f
<1> QED  BY <1>3 DEF f

\* It declares what its children do.
LEMMA DeclaredIs ==
  ASSUME NEW t, Graded(t)
  PROVE  \A n \in DOMAIN t : Declared(t)[n] = DeclaredAs(t, n, KidsIn(Declared(t), t, n))
<1> DEFINE f == Declared(t)
<1>1. Understood("meaning", t)
  BY MeaningExists
<1>2. \E g : g = [n \in DOMAIN t |-> DeclaredAs(t, n, KidsIn(g, t, n))]
  BY <1>1 DEF Understood, As
<1>3. f = [n \in DOMAIN t |-> DeclaredAs(t, n, KidsIn(f, t, n))]
  BY <1>2, Zenon DEF Declared
<1> HIDE DEF f
<1> QED  BY <1>3 DEF f

\* Nodes that are alike but for what is not seen of them.
Alike(t, u, n) ==
  /\ t[n].kind = u[n].kind /\ t[n].kids = u[n].kids /\ t[n].role = u[n].role
  /\ t[n].kind = "Ident" => t[n].names = u[n].names
  /\ t[n].kind = "FieldList" =>
       \A k \in 1..Len(t[n].kids) :
         ShownNames(t, n, t[n].kids[k]) = ShownNames(u, n, t[n].kids[k])

\* If their children declare the same, so do they.
LEMMA AlikeSays ==
  ASSUME NEW t, NEW u, NEW n, NEW kids, Alike(t, u, n)
  PROVE  DeclaredAs(t, n, kids) = DeclaredAs(u, n, kids)
<1>1. CASE t[n].kind = "FieldList"
  <2> DEFINE mine  == [k \in 1..Len(t[n].kids) |-> One(t, n, t[n].kids[k], kids[k][2])]
             yours == [k \in 1..Len(u[n].kids) |-> One(u, n, u[n].kids[k], kids[k][2])]
  <2>1. t[n].kids = u[n].kids /\ t[n].role = u[n].role /\ u[n].kind = "FieldList"
    BY <1>1 DEF Alike
  <2>2. ASSUME NEW k \in 1..Len(t[n].kids)
        PROVE  One(t, n, t[n].kids[k], kids[k][2]) = One(u, n, u[n].kids[k], kids[k][2])
    <3>1. ShownNames(t, n, t[n].kids[k]) = ShownNames(u, n, u[n].kids[k])
      BY <1>1, <2>1 DEF Alike
    <3> QED  BY <3>1 DEF One
  <2>3. mine = yours
    BY <2>1, <2>2
  <2>4. DeclaredAs(t, n, kids) = <<t[n].role, FlattenSeq(mine)>>
    BY <1>1 DEF DeclaredAs
  <2>5. DeclaredAs(u, n, kids) = <<u[n].role, FlattenSeq(yours)>>
    BY <2>1 DEF DeclaredAs
  <2> HIDE DEF mine, yours
  <2> QED  BY <2>1, <2>3, <2>4, <2>5
<1>2. CASE t[n].kind = "Ident"
  <2>1. t[n].names = u[n].names /\ u[n].kind = "Ident"
    BY <1>2 DEF Alike
  <2> QED  BY <1>2, <2>1 DEF DeclaredAs
<1>3. CASE t[n].kind # "FieldList" /\ t[n].kind # "Ident"
  <2>1. u[n].kind = t[n].kind
    BY DEF Alike
  <2> QED  BY <1>3, <2>1 DEF DeclaredAs
<1> QED  BY <1>1, <1>2, <1>3

\* Trees whose nodes, from a depth, are alike or known to declare the same
\* declare the same.
LEMMA DeclaredSame ==
  ASSUME NEW t, NEW u, Graded(t), Graded(u), DOMAIN u = DOMAIN t, NEW d \in Nat,
         \A n \in Deep(t, d) : Alike(t, u, n) \/ Declared(t)[n] = Declared(u)[n]
  PROVE  \A n \in Deep(t, d) : Declared(t)[n] = Declared(u)[n]
<1> DEFINE Differs(n) == n \in Deep(t, d) /\ Declared(t)[n] # Declared(u)[n]
<1> SUFFICES ASSUME NEW m, Differs(m)  PROVE FALSE
  OBVIOUS
<1>1. PICK top \in Nat : \A n \in DOMAIN t : Len(n) <= top
  BY DEF Graded
<1>2. \A n \in DOMAIN t :
        /\ Len(n) \in Nat /\ Len(t[n].kids) \in Nat
        /\ \A k \in 1..Len(t[n].kids) :
             t[n].kids[k] \in DOMAIN t /\ Len(t[n].kids[k]) > Len(n)
  BY DEF Graded
<1>3. \A n : Differs(n) => n \in DOMAIN t /\ Len(n) >= d /\ Len(n) \in Nat /\ Len(n) <= top
  BY <1>1, <1>2 DEF Deep
<1> DEFINE bad == {j \in Nat : \E n : Differs(n) /\ j = top - Len(n)}
<1>4. bad # {}
  <2>1. top - Len(m) \in Nat
    BY <1>3
  <2> QED  BY <2>1
<1>5. PICK j \in bad : \A y \in bad : j <= y
  <2>1. bad \subseteq Nat
    OBVIOUS
  <2> HIDE DEF bad
  <2> QED  BY <1>4, <2>1, LeastNatural
<1>6. PICK n : Differs(n) /\ j = top - Len(n)
  BY <1>5
<1>7. n \in DOMAIN t /\ Len(n) >= d /\ Len(n) \in Nat /\ n \in Deep(t, d)
  BY <1>3, <1>6
<1>8. ASSUME NEW k \in 1..Len(t[n].kids)
      PROVE  Declared(t)[t[n].kids[k]] = Declared(u)[t[n].kids[k]]
  <2> SUFFICES ASSUME Declared(t)[t[n].kids[k]] # Declared(u)[t[n].kids[k]]  PROVE FALSE
    OBVIOUS
  <2> DEFINE c == t[n].kids[k]
  <2>1. c \in DOMAIN t /\ Len(c) > Len(n) /\ Len(c) \in Nat
    BY <1>2, <1>7
  <2> HIDE DEF c
  <2>2. c \in Deep(t, d)
    BY <1>7, <2>1 DEF Deep
  <2>3. Differs(c)
    BY <2>2 DEF c
  <2>4. top - Len(c) \in Nat /\ top - Len(c) < j
    BY <1>3, <1>6, <1>7, <2>1, <2>3
  <2>5. top - Len(c) \in bad
    BY <2>3, <2>4
  <2>6. j \in Int
    BY <1>3, <1>6
  <2> HIDE DEF bad
  <2>7. j <= top - Len(c)
    BY <1>5, <2>5
  <2> QED  BY <2>1, <2>4, <2>6, <2>7
<1>9. Alike(t, u, n)
  BY <1>6, <1>7
<1>10. KidsIn(Declared(t), t, n) = KidsIn(Declared(u), u, n)
  <2>1. t[n].kids = u[n].kids
    BY <1>9 DEF Alike
  <2> QED  BY <1>8, <2>1 DEF KidsIn
<1>11. Declared(t)[n] = DeclaredAs(t, n, KidsIn(Declared(t), t, n))
  BY <1>7, DeclaredIs
<1>12. Declared(u)[n] = DeclaredAs(u, n, KidsIn(Declared(u), u, n))
  <2>1. n \in DOMAIN u
    BY <1>7
  <2> QED  BY <2>1, DeclaredIs
<1>13. DeclaredAs(t, n, KidsIn(Declared(t), t, n)) = DeclaredAs(u, n, KidsIn(Declared(t), t, n))
  BY <1>9, AlikeSays
<1> QED  BY <1>6, <1>10, <1>11, <1>12, <1>13

\* What a list is for is told from what a node is, and a list is of fields.
Formed(t) ==
  \A n \in DOMAIN t :
    /\ t[n].kind \in Kinds /\ t[n].role \in Roles
    /\ t[n].kind = "FieldList" =>
         \A k \in 1..Len(t[n].kids) : t[t[n].kids[k]].kind = "Field"

\* As many children, each with its own text.
LEMMA KidsSame ==
  ASSUME NEW f, NEW t, NEW a, NEW b, Len(t[a].kids) \in Nat, Len(t[b].kids) \in Nat,
         KidsIn(f, t, a) = KidsIn(f, t, b)
  PROVE  /\ Len(t[a].kids) = Len(t[b].kids)
         /\ \A k \in 1..Len(t[a].kids) : f[t[a].kids[k]] = f[t[b].kids[k]]
<1>1. DOMAIN KidsIn(f, t, a) = 1..Len(t[a].kids) /\ DOMAIN KidsIn(f, t, b) = 1..Len(t[b].kids)
  BY DEF KidsIn
<1>2. 1..Len(t[a].kids) = 1..Len(t[b].kids)
  BY <1>1
<1>3. Len(t[a].kids) = Len(t[b].kids)
  BY <1>2
<1>4. ASSUME NEW k \in 1..Len(t[a].kids)  PROVE f[t[a].kids[k]] = f[t[b].kids[k]]
  <2>1. KidsIn(f, t, a)[k] = f[t[a].kids[k]]
    BY DEF KidsIn
  <2>2. KidsIn(f, t, b)[k] = f[t[b].kids[k]]
    BY <1>3 DEF KidsIn
  <2> QED  BY <2>1, <2>2
<1> QED  BY <1>3, <1>4

\* Pairs are equal by their parts.
LEMMA PairParts ==
  ASSUME NEW a, NEW b, NEW c, NEW d, <<a, b>> = <<c, d>>
  PROVE  a = c /\ b = d
<1>1. <<a, b>>[1] = a /\ <<a, b>>[2] = b /\ <<c, d>>[1] = c /\ <<c, d>>[2] = d
  OBVIOUS
<1> QED  BY <1>1

\* Two nodes are printed the same: what their children show is the same.
LEMMA PrintedKids ==
  ASSUME NEW t, Graded(t), Formed(t), NEW a \in DOMAIN t, NEW b \in DOMAIN t,
         Printed(t)[a] = Printed(t)[b],
         t[a].kind # "Ident", t[b].kind # "Ident"
  PROVE  /\ t[a].kind = "FieldList" <=> t[b].kind = "FieldList"
         /\ t[a].kind # "FieldList" => t[a].kind = t[b].kind
         /\ t[a].kind = "FieldList" =>
              /\ t[a].role = t[b].role
              /\ \A k \in 1..Len(t[a].kids) :
                   ShownNames(t, a, t[a].kids[k]) = ShownNames(t, b, t[b].kids[k])
         /\ Len(t[a].kids) = Len(t[b].kids)
         /\ \A k \in 1..Len(t[a].kids) : Printed(t)[t[a].kids[k]] = Printed(t)[t[b].kids[k]]
<1> DEFINE P == Printed(t)
<1>1. /\ P[a] = PrintedAs(t, a, KidsIn(P, t, a)) /\ P[b] = PrintedAs(t, b, KidsIn(P, t, b))
      /\ \A n \in DOMAIN t : P[n] = PrintedAs(t, n, KidsIn(P, t, n))
  BY PrintedIs
<1>2. P[a] = P[b]
  OBVIOUS
<1>3. /\ Len(t[a].kids) \in Nat /\ Len(t[b].kids) \in Nat
      /\ \A k \in 1..Len(t[a].kids) : t[a].kids[k] \in DOMAIN t
      /\ \A k \in 1..Len(t[b].kids) : t[b].kids[k] \in DOMAIN t
  BY DEF Graded
<1>4. /\ t[a].kind \in Kinds /\ t[a].role \in Roles /\ t[b].kind \in Kinds /\ t[b].role \in Roles
      /\ t[a].kind = "FieldList" =>
           \A k \in 1..Len(t[a].kids) : t[t[a].kids[k]].kind = "Field"
      /\ t[b].kind = "FieldList" =>
           \A k \in 1..Len(t[b].kids) : t[t[b].kids[k]].kind = "Field"
  BY DEF Formed
<1> HIDE DEF P
<1>5. Kinds \intersect Roles = {}
  BY DEF Kinds, Roles, Funcs, Others
<1>6. CASE t[a].kind = "FieldList" /\ t[b].kind = "FieldList"
  <2> DEFINE mine  == [k \in 1..Len(t[a].kids) |-> <<ShownNames(t, a, t[a].kids[k]), P[t[a].kids[k]][2]>>]
             yours == [k \in 1..Len(t[b].kids) |-> <<ShownNames(t, b, t[b].kids[k]), P[t[b].kids[k]][2]>>]
  <2>1. P[a] = <<t[a].role, mine>>
    <3>1. \A k \in 1..Len(t[a].kids) : KidsIn(P, t, a)[k] = P[t[a].kids[k]]
      BY DEF KidsIn
    <3> QED  BY <1>1, <1>6, <3>1 DEF PrintedAs
  <2>2. P[b] = <<t[b].role, yours>>
    <3>1. \A k \in 1..Len(t[b].kids) : KidsIn(P, t, b)[k] = P[t[b].kids[k]]
      BY DEF KidsIn
    <3> QED  BY <1>1, <1>6, <3>1 DEF PrintedAs
  <2>3. DOMAIN mine = 1..Len(t[a].kids) /\ DOMAIN yours = 1..Len(t[b].kids)
    OBVIOUS
  <2>4. /\ \A k \in 1..Len(t[a].kids) : mine[k] = <<ShownNames(t, a, t[a].kids[k]), P[t[a].kids[k]][2]>>
        /\ \A k \in 1..Len(t[b].kids) : yours[k] = <<ShownNames(t, b, t[b].kids[k]), P[t[b].kids[k]][2]>>
    OBVIOUS
  <2> HIDE DEF mine, yours
  <2>5. t[a].role = t[b].role /\ mine = yours
    <3>1. <<t[a].role, mine>> = <<t[b].role, yours>>
      BY <1>2, <2>1, <2>2
    <3> QED  BY ONLY <3>1, PairParts
  <2>6. Len(t[a].kids) = Len(t[b].kids)
    <3>1. 1..Len(t[a].kids) = 1..Len(t[b].kids)
      BY <2>3, <2>5
    <3> QED  BY <1>3, <3>1
  <2>7. ASSUME NEW k \in 1..Len(t[a].kids)
        PROVE  /\ ShownNames(t, a, t[a].kids[k]) = ShownNames(t, b, t[b].kids[k])
               /\ P[t[a].kids[k]] = P[t[b].kids[k]]
    <3>1. k \in 1..Len(t[b].kids)
      BY <2>6
    <3>2. /\ ShownNames(t, a, t[a].kids[k]) = ShownNames(t, b, t[b].kids[k])
          /\ P[t[a].kids[k]][2] = P[t[b].kids[k]][2]
      BY <2>4, <2>5, <3>1
    <3>3. t[t[a].kids[k]].kind = "Field" /\ t[t[b].kids[k]].kind = "Field"
      BY <1>4, <1>6, <3>1
    <3>4. P[t[a].kids[k]] = PrintedAs(t, t[a].kids[k], KidsIn(P, t, t[a].kids[k]))
      BY <1>1, <1>3
    <3>5. P[t[b].kids[k]] = PrintedAs(t, t[b].kids[k], KidsIn(P, t, t[b].kids[k]))
      BY <1>1, <1>3, <3>1
    <3>6. /\ P[t[a].kids[k]] = <<"Field", KidsIn(P, t, t[a].kids[k])>>
          /\ P[t[b].kids[k]] = <<"Field", KidsIn(P, t, t[b].kids[k])>>
      BY <3>3, <3>4, <3>5 DEF PrintedAs
    <3> QED  BY <3>2, <3>6
  <2> QED  BY <1>6, <2>5, <2>6, <2>7 DEF P
<1>7. CASE t[a].kind # "FieldList" /\ t[b].kind # "FieldList"
  <2>1. P[a] = <<t[a].kind, KidsIn(P, t, a)>> /\ P[b] = <<t[b].kind, KidsIn(P, t, b)>>
    BY <1>1, <1>7 DEF PrintedAs
  <2>2. t[a].kind = t[b].kind /\ KidsIn(P, t, a) = KidsIn(P, t, b)
    <3>1. <<t[a].kind, KidsIn(P, t, a)>> = <<t[b].kind, KidsIn(P, t, b)>>
      BY <1>2, <2>1
    <3> QED  BY ONLY <3>1, PairParts
  <2>3. /\ Len(t[a].kids) = Len(t[b].kids)
        /\ \A k \in 1..Len(t[a].kids) : P[t[a].kids[k]] = P[t[b].kids[k]]
    BY <1>3, <2>2, KidsSame
  <2> QED  BY <1>7, <2>2, <2>3 DEF P
<1>8. CASE t[a].kind = "FieldList" /\ t[b].kind # "FieldList"
  <2>1. P[a][1] = t[a].role /\ P[b][1] = t[b].kind
    BY <1>1, <1>8 DEF PrintedAs
  <2> QED  BY <1>2, <1>4, <1>5, <2>1
<1>9. CASE t[a].kind # "FieldList" /\ t[b].kind = "FieldList"
  <2>1. P[a][1] = t[a].kind /\ P[b][1] = t[b].role
    BY <1>1, <1>9 DEF PrintedAs
  <2> QED  BY <1>2, <1>4, <1>5, <2>1
<1> QED  BY <1>6, <1>7, <1>8, <1>9

\* What an identifier is printed as is what it declares, and so is what is
\* printed the same.
LEMMA PrintedIdent ==
  ASSUME NEW t, Graded(t), NEW a \in DOMAIN t, NEW b \in DOMAIN t,
         Printed(t)[a] = Printed(t)[b], t[a].kind = "Ident"
  PROVE  Declared(t)[b] = Printed(t)[b] /\ Declared(t)[a] = Printed(t)[a]
<1> DEFINE P == Printed(t)
           D == Declared(t)
<1>1. P[a] = PrintedAs(t, a, KidsIn(P, t, a)) /\ P[b] = PrintedAs(t, b, KidsIn(P, t, b))
  BY PrintedIs
<1>2. D[a] = DeclaredAs(t, a, KidsIn(D, t, a)) /\ D[b] = DeclaredAs(t, b, KidsIn(D, t, b))
  BY DeclaredIs
<1>3. P[a] = P[b]
  OBVIOUS
<1>4. Len(t[b].kids) \in Nat
  BY DEF Graded
<1> HIDE DEF P, D
<1>5. P[a] = <<t[a].names[1], <<>>>> /\ D[a] = P[a]
  BY <1>1, <1>2 DEF PrintedAs, DeclaredAs
<1>6. CASE t[b].kind = "Ident"
  BY <1>1, <1>2, <1>5, <1>6 DEF PrintedAs, DeclaredAs, P, D
<1>7. CASE t[b].kind = "FieldList"
  <2> DEFINE mine == [k \in 1..Len(t[b].kids) |-> <<ShownNames(t, b, t[b].kids[k]), KidsIn(P, t, b)[k][2]>>]
             said == [k \in 1..Len(t[b].kids) |-> One(t, b, t[b].kids[k], KidsIn(D, t, b)[k][2])]
  <2>1. P[b] = <<t[b].role, mine>> /\ D[b] = <<t[b].role, FlattenSeq(said)>>
    BY <1>1, <1>2, <1>7 DEF PrintedAs, DeclaredAs
  <2>2. DOMAIN mine = 1..Len(t[b].kids)
    OBVIOUS
  <2>3. mine = <<>>
    <3> HIDE DEF mine, said
    <3>1. <<t[b].role, mine>> = <<t[a].names[1], <<>>>>
      BY <1>3, <1>5, <2>1
    <3> QED  BY ONLY <3>1, PairParts
  <2>4. Len(t[b].kids) = 0
    <3> HIDE DEF mine, said
    <3>1. DOMAIN mine = {}
      BY <2>3
    <3>2. 1..Len(t[b].kids) = {}
      BY <2>2, <3>1
    <3>3. Len(t[b].kids) # 0 => 1 \in 1..Len(t[b].kids)
      BY <1>4
    <3> QED  BY <3>2, <3>3
  <2>5. said = <<>> /\ Len(said) = 0
    BY <2>4
  <2>6. FlattenSeq(said) = <<>>
    <3> HIDE DEF said
    <3> QED  BY <2>5 DEF FlattenSeq
  <2> HIDE DEF mine, said
  <2> QED  BY <1>5, <2>1, <2>3, <2>6 DEF P, D
<1>8. CASE t[b].kind # "Ident" /\ t[b].kind # "FieldList"
  <2>1. P[b] = <<t[b].kind, KidsIn(P, t, b)>> /\ D[b] = <<t[b].kind, KidsIn(D, t, b)>>
    BY <1>1, <1>2, <1>8 DEF PrintedAs, DeclaredAs
  <2>2. KidsIn(P, t, b) = <<>>
    <3>1. <<t[b].kind, KidsIn(P, t, b)>> = <<t[a].names[1], <<>>>>
      BY <1>3, <1>5, <2>1
    <3> QED  BY ONLY <3>1, PairParts
  <2>3. 1..Len(t[b].kids) = {}
    BY <2>2 DEF KidsIn
  <2>4. KidsIn(D, t, b) = KidsIn(P, t, b)
    BY <2>3 DEF KidsIn
  <2> QED  BY <1>5, <2>1, <2>4 DEF P, D
<1> QED  BY <1>6, <1>7, <1>8

\* What is printed the same declares the same.
LEMMA PrintedSays ==
  ASSUME NEW t, Graded(t), Formed(t)
  PROVE  \A a, b \in DOMAIN t : Printed(t)[a] = Printed(t)[b] => Declared(t)[a] = Declared(t)[b]
<1> DEFINE P == Printed(t)
           D == Declared(t)
           Differ(a, b) == /\ a \in DOMAIN t /\ b \in DOMAIN t
                           /\ P[a] = P[b] /\ D[a] # D[b]
<1> SUFFICES ASSUME NEW m, NEW l, Differ(m, l)  PROVE FALSE
  OBVIOUS
<1>1. PICK top \in Nat : \A n \in DOMAIN t : Len(n) <= top
  BY DEF Graded
<1>2. \A n \in DOMAIN t :
        /\ Len(n) \in Nat /\ Len(t[n].kids) \in Nat
        /\ \A k \in 1..Len(t[n].kids) :
             t[n].kids[k] \in DOMAIN t /\ Len(t[n].kids[k]) > Len(n)
  BY DEF Graded
<1> DEFINE bad == {j \in Nat : \E a, b : Differ(a, b) /\ j = top - Len(a)}
<1>3. bad # {}
  <2>1. top - Len(m) \in Nat
    BY <1>1, <1>2
  <2> QED  BY <2>1
<1>4. PICK j \in bad : \A y \in bad : j <= y
  <2>1. bad \subseteq Nat
    OBVIOUS
  <2> HIDE DEF bad
  <2> QED  BY <1>3, <2>1, LeastNatural
<1>5. PICK a, b : Differ(a, b) /\ j = top - Len(a)
  BY <1>4
<1>6. a \in DOMAIN t /\ b \in DOMAIN t /\ P[a] = P[b] /\ D[a] # D[b]
  BY <1>5
<1>7. t[a].kind # "Ident" /\ t[b].kind # "Ident"
  BY <1>6, PrintedIdent
<1>8. /\ t[a].kind = "FieldList" <=> t[b].kind = "FieldList"
      /\ t[a].kind # "FieldList" => t[a].kind = t[b].kind
      /\ t[a].kind = "FieldList" =>
           /\ t[a].role = t[b].role
           /\ \A k \in 1..Len(t[a].kids) :
                ShownNames(t, a, t[a].kids[k]) = ShownNames(t, b, t[b].kids[k])
      /\ Len(t[a].kids) = Len(t[b].kids)
      /\ \A k \in 1..Len(t[a].kids) : P[t[a].kids[k]] = P[t[b].kids[k]]
  BY <1>6, <1>7, PrintedKids
<1>9. D[a] = DeclaredAs(t, a, KidsIn(D, t, a)) /\ D[b] = DeclaredAs(t, b, KidsIn(D, t, b))
  BY <1>6, DeclaredIs
<1>10. ASSUME NEW k \in 1..Len(t[a].kids)  PROVE D[t[a].kids[k]] = D[t[b].kids[k]]
  <2> SUFFICES ASSUME D[t[a].kids[k]] # D[t[b].kids[k]]  PROVE FALSE
    OBVIOUS
  <2> DEFINE c == t[a].kids[k]
             e == t[b].kids[k]
  <2>1. c \in DOMAIN t /\ Len(c) > Len(a) /\ Len(c) \in Nat /\ Len(a) \in Nat
    BY <1>2, <1>6
  <2>2. e \in DOMAIN t
    <3>1. k \in 1..Len(t[b].kids)
      BY <1>8
    <3> QED  BY <1>2, <1>6, <3>1
  <2>3. P[c] = P[e] /\ D[c] # D[e]
    BY <1>8
  <2> HIDE DEF c, e
  <2>4. Differ(c, e)
    BY <2>1, <2>2, <2>3
  <2>5. top - Len(c) \in Nat /\ top - Len(c) < j
    BY <1>1, <1>5, <2>1
  <2> HIDE DEF Differ
  <2>6. top - Len(c) \in bad
    BY <2>4, <2>5
  <2>7. j \in Int
    BY <1>4
  <2> HIDE DEF bad
  <2>8. j <= top - Len(c)
    BY <1>4, <2>6
  <2> QED  BY <2>5, <2>7, <2>8
<1> HIDE DEF P, D
<1>11. KidsIn(D, t, a) = KidsIn(D, t, b)
  BY <1>8, <1>10 DEF KidsIn
<1>12. CASE t[a].kind = "FieldList"
  <2> DEFINE mine  == [k \in 1..Len(t[a].kids) |-> One(t, a, t[a].kids[k], KidsIn(D, t, a)[k][2])]
             yours == [k \in 1..Len(t[b].kids) |-> One(t, b, t[b].kids[k], KidsIn(D, t, b)[k][2])]
  <2>1. D[a] = <<t[a].role, FlattenSeq(mine)>> /\ D[b] = <<t[b].role, FlattenSeq(yours)>>
    BY <1>8, <1>9, <1>12 DEF DeclaredAs
  <2>2. ASSUME NEW k \in 1..Len(t[a].kids)
        PROVE  One(t, a, t[a].kids[k], KidsIn(D, t, a)[k][2])
                 = One(t, b, t[b].kids[k], KidsIn(D, t, b)[k][2])
    <3>1. ShownNames(t, a, t[a].kids[k]) = ShownNames(t, b, t[b].kids[k])
      BY <1>8, <1>12
    <3> QED  BY <1>11, <3>1 DEF One
  <2>3. mine = yours
    BY <1>8, <2>2
  <2> HIDE DEF mine, yours
  <2> QED  BY <1>6, <1>8, <1>12, <2>1, <2>3
<1>13. CASE t[a].kind # "FieldList"
  <2>1. D[a] = <<t[a].kind, KidsIn(D, t, a)>> /\ D[b] = <<t[b].kind, KidsIn(D, t, b)>>
    BY <1>7, <1>8, <1>9, <1>13 DEF DeclaredAs
  <2> QED  BY <1>6, <1>8, <1>11, <1>13, <2>1
<1> QED  BY <1>12, <1>13

------------------------------------------------------------------------------
(* What a merged list declares *)

\* Fields of a list: those that merging may name.
InList(t, list, touched) ==
  \A x \in touched : x \in DOMAIN t /\ t[x].kind = "Field" /\ Len(x) = Len(list) + 1

\* Naming the fields of a list changes nothing in them.
LEMMA NamedSays ==
  ASSUME NEW t, Graded(t), Formed(t), NEW list, Len(list) \in Nat,
         NEW touched, InList(t, list, touched), NEW u, OnlyNames(t, u, touched)
  PROVE  /\ Graded(u) /\ Formed(u) /\ DOMAIN u = DOMAIN t
         /\ \A n \in Deep(t, Len(list) + 1) : Declared(t)[n] = Declared(u)[n]
<1>1. /\ DOMAIN u = DOMAIN t
      /\ \A n \in DOMAIN t :
           /\ u[n].kind = t[n].kind /\ u[n].kids = t[n].kids /\ u[n].role = t[n].role
           /\ n \notin touched => u[n].names = t[n].names
  BY DEF OnlyNames
<1>2. Graded(u)
  BY <1>1 DEF Graded
<1>3. Formed(u)
  <2> SUFFICES ASSUME NEW n \in DOMAIN t
               PROVE  /\ u[n].kind \in Kinds /\ u[n].role \in Roles
                      /\ u[n].kind = "FieldList" =>
                           \A k \in 1..Len(u[n].kids) : u[u[n].kids[k]].kind = "Field"
    BY <1>1 DEF Formed
  <2>1. \A k \in 1..Len(t[n].kids) : t[n].kids[k] \in DOMAIN t
    BY DEF Graded
  <2>2. \A k \in 1..Len(t[n].kids) : u[t[n].kids[k]].kind = t[t[n].kids[k]].kind
    BY <1>1, <2>1
  <2> QED  BY <1>1, <2>2 DEF Formed
<1>4. ASSUME NEW n \in Deep(t, Len(list) + 1)  PROVE Alike(t, u, n)
  <2>1. n \in DOMAIN t /\ Len(n) \in Nat /\ Len(n) >= Len(list) + 1
    BY DEF Deep, Graded
  <2>2. u[n].kind = t[n].kind /\ u[n].kids = t[n].kids /\ u[n].role = t[n].role
    BY <1>1, <2>1
  <2>3. t[n].kind = "Ident" => t[n].names = u[n].names
    <3>1. t[n].kind = "Ident" => n \notin touched
      BY DEF InList
    <3> QED  BY <1>1, <2>1, <3>1
  <2>4. ASSUME NEW k \in 1..Len(t[n].kids)
        PROVE  ShownNames(t, n, t[n].kids[k]) = ShownNames(u, n, t[n].kids[k])
    <3> DEFINE c == t[n].kids[k]
    <3>1. c \in DOMAIN t /\ Len(c) > Len(n) /\ Len(c) \in Nat
      BY <2>1 DEF Graded
    <3>2. c \notin touched
      BY <2>1, <3>1 DEF InList
    <3>3. u[c].names = t[c].names
      BY <1>1, <3>1, <3>2
    <3> HIDE DEF c
    <3>4. ShownNames(t, n, c) = ShownNames(u, n, c)
      BY <2>2, <3>3 DEF ShownNames
    <3> QED  BY <3>4 DEF c
  <2> QED  BY <2>2, <2>3, <2>4 DEF Alike
<1>5. \A n \in Deep(t, Len(list) + 1) : Declared(t)[n] = Declared(u)[n]
  <2>1. Len(list) + 1 \in Nat
    OBVIOUS
  <2> QED  BY <1>1, <1>2, <1>4, <2>1, DeclaredSame
<1> QED  BY <1>1, <1>2, <1>3, <1>5

\* Two fields whose types print the same, whatever their names are by now, have
\* types that declare the same.
LEMMA TypesSay ==
  ASSUME NEW t, Graded(t), Formed(t), NEW list, Len(list) \in Nat,
         NEW touched, InList(t, list, touched), NEW u, OnlyNames(t, u, touched),
         NEW l, NEW f, InList(t, list, {l, f}), Printed(u)[l][2] = Printed(u)[f][2]
  PROVE  Declared(t)[l][2] = Declared(t)[f][2]
<1>1. /\ Graded(u) /\ Formed(u) /\ DOMAIN u = DOMAIN t
      /\ \A n \in Deep(t, Len(list) + 1) : Declared(t)[n] = Declared(u)[n]
  BY NamedSays
<1>2. /\ l \in DOMAIN t /\ f \in DOMAIN t /\ t[l].kind = "Field" /\ t[f].kind = "Field"
      /\ Len(l) = Len(list) + 1 /\ Len(f) = Len(list) + 1
  BY DEF InList
<1>3. u[l].kind = "Field" /\ u[f].kind = "Field"
  BY <1>2 DEF OnlyNames
<1> DEFINE P == Printed(u)
<1>4. P[l] = PrintedAs(u, l, KidsIn(P, u, l)) /\ P[f] = PrintedAs(u, f, KidsIn(P, u, f))
  BY <1>1, <1>2, PrintedIs
<1>5. P[l] = <<"Field", KidsIn(P, u, l)>> /\ P[f] = <<"Field", KidsIn(P, u, f)>>
  <2> HIDE DEF P
  <2> QED  BY <1>3, <1>4 DEF PrintedAs
<1>6. P[l][2] = P[f][2]
  OBVIOUS
<1>7. P[l] = P[f]
  <2> HIDE DEF P
  <2> QED  BY <1>5, <1>6
<1>8. Declared(u)[l] = Declared(u)[f]
  BY <1>1, <1>2, <1>7, PrintedSays
<1>9. l \in Deep(t, Len(list) + 1) /\ f \in Deep(t, Len(list) + 1)
  BY <1>2 DEF Deep
<1>10. Declared(t)[l] = Declared(u)[l] /\ Declared(t)[f] = Declared(u)[f]
  BY <1>1, <1>9
<1> QED  BY <1>8, <1>10

\* Names, and what stands for one that is not given.
Words == STRING \union {""}

\* Names of a type.
Each(names, type) == [j \in 1..Len(names) |-> <<names[j], type>>]

LEMMA EachTyped ==
  ASSUME NEW Y, NEW y \in Y, NEW names \in Seq(STRING)
  PROVE  /\ Each(names, y) \in Seq(Words \X Y) /\ Len(Each(names, y)) = Len(names)
         /\ \A j \in 1..Len(names) : Each(names, y)[j] = <<names[j], y>>
<1>1. Len(names) \in Nat /\ \A j \in 1..Len(names) : names[j] \in Words
  BY LenProperties, ElementOfSeq DEF Words
<1>2. Each(names, y) \in [1..Len(names) -> Words \X Y]
  BY <1>1 DEF Each
<1>3. \A j \in 1..Len(names) : Each(names, y)[j] = <<names[j], y>>
  BY DEF Each
<1>4. Each(names, y) \in Seq(Words \X Y) /\ Len(Each(names, y)) = Len(names)
  BY <1>1, <1>2, FunctionIsSeq
<1> QED  BY <1>3, <1>4

\* Names of one type, together or apart.
LEMMA EachMore ==
  ASSUME NEW Y, NEW y \in Y, NEW a \in Seq(STRING), NEW b \in Seq(STRING)
  PROVE  Each(a \o b, y) = Each(a, y) \o Each(b, y)
<1> DEFINE c == a \o b
           r == Each(c, y)
           p == Each(a, y)
           q == Each(b, y)
           s == p \o q
<1>1. /\ c \in Seq(STRING) /\ Len(c) = Len(a) + Len(b) /\ Len(a) \in Nat /\ Len(b) \in Nat
      /\ \A j \in 1..(Len(a) + Len(b)) : c[j] = IF j <= Len(a) THEN a[j] ELSE b[j - Len(a)]
  BY ConcatProperties, LenProperties
<1> HIDE DEF c
<1>2. /\ r \in Seq(Words \X Y) /\ Len(r) = Len(c)
      /\ \A j \in 1..Len(c) : r[j] = <<c[j], y>>
  BY <1>1, EachTyped
<1>3. /\ p \in Seq(Words \X Y) /\ Len(p) = Len(a)
      /\ \A j \in 1..Len(a) : p[j] = <<a[j], y>>
  BY EachTyped
<1>4. /\ q \in Seq(Words \X Y) /\ Len(q) = Len(b)
      /\ \A j \in 1..Len(b) : q[j] = <<b[j], y>>
  BY EachTyped
<1> HIDE DEF r, p, q
<1>5. /\ s \in Seq(Words \X Y) /\ Len(s) = Len(p) + Len(q)
      /\ \A j \in 1..(Len(p) + Len(q)) : s[j] = IF j <= Len(p) THEN p[j] ELSE q[j - Len(p)]
  <2> DEFINE S == Words \X Y
  <2>1. p \in Seq(S) /\ q \in Seq(S)
    BY <1>3, <1>4
  <2> HIDE DEF S
  <2>2. /\ s \in Seq(S) /\ Len(s) = Len(p) + Len(q)
        /\ \A j \in 1..(Len(p) + Len(q)) : s[j] = IF j <= Len(p) THEN p[j] ELSE q[j - Len(p)]
    BY ONLY <2>1, ConcatProperties
  <2> QED  BY <2>2 DEF S
<1> HIDE DEF s
<1>6. Len(r) = Len(s)
  BY <1>1, <1>2, <1>3, <1>4, <1>5
<1>7. ASSUME NEW j \in 1..Len(r)  PROVE r[j] = s[j]
  <2>1. j \in Nat /\ j \in 1..(Len(a) + Len(b)) /\ j \in 1..Len(c) /\ j \in 1..(Len(p) + Len(q))
    BY <1>1, <1>2, <1>3, <1>4
  <2>2. CASE j <= Len(a)
    <3>1. j \in 1..Len(a)
      BY <1>1, <2>1, <2>2
    <3>2. c[j] = a[j] /\ r[j] = <<c[j], y>>
      BY <1>1, <1>2, <2>1, <2>2
    <3>3. s[j] = p[j] /\ p[j] = <<a[j], y>>
      BY <1>3, <1>5, <2>1, <2>2, <3>1
    <3> QED  BY <3>2, <3>3
  <2>3. CASE ~ (j <= Len(a))
    <3>1. j - Len(a) \in 1..Len(b)
      BY <1>1, <2>1, <2>3
    <3>2. c[j] = b[j - Len(a)] /\ r[j] = <<c[j], y>>
      BY <1>1, <1>2, <2>1, <2>3
    <3>3. s[j] = q[j - Len(a)]
      BY <1>3, <1>5, <2>1, <2>3
    <3>4. q[j - Len(a)] = <<b[j - Len(a)], y>>
      BY <1>4, <3>1
    <3> QED  BY <3>2, <3>3, <3>4
  <2> QED  BY <2>2, <2>3
<1>8. r = s
  BY <1>2, <1>5, <1>6, <1>7, SeqEqual
<1> QED  BY <1>8 DEF r, s, p, q, c

\* What a list declares, of fields named as in u and typed as in t.
Of(t, field) == Declared(t)[field][2]
Said(u, t, list, fields, n) == FlattenSeq([k \in 1..n |-> One(u, list, fields[k], Of(t, fields[k]))])
Pairs(t) == Words \X {Of(t, n) : n \in DOMAIN t}

\* What a field declares, in a list that is not of an interface.
LEMMA OneIs ==
  ASSUME NEW u, NEW list, NEW field, u[list].role # "methods", NEW type
  PROVE  /\ u[field].names = <<>> => One(u, list, field, type) = << <<"", type>> >>
         /\ u[field].names # <<>> => One(u, list, field, type) = Each(u[field].names, type)
BY DEF One, ShownNames, Each

LEMMA OneTyped ==
  ASSUME NEW u, NEW list, NEW field, u[list].role # "methods",
         NEW Y, NEW type \in Y, u[field].names \in Seq(STRING)
  PROVE  One(u, list, field, type) \in Seq(Words \X Y)
<1>1. CASE u[field].names = <<>>
  <2>1. <<"", type>> \in Words \X Y
    <3>1. \A x \in Words : <<x, type>> \in Words \X Y
      OBVIOUS
    <3>2. "" \in Words
      BY DEF Words
    <3> QED  BY <3>1, <3>2, Zenon
  <2>2. << <<"", type>> >> \in Seq(Words \X Y)
    <3> DEFINE S == Words \X Y
               x == <<"", type>>
    <3>1. x \in S
      BY <2>1
    <3> HIDE DEF S, x
    <3>2. <<x>> \in Seq(S)
      BY <3>1
    <3> QED  BY <3>2 DEF S, x
  <2> QED  BY <1>1, <2>2, OneIs
<1>2. CASE u[field].names # <<>>
  <2>1. Each(u[field].names, type) \in Seq(Words \X Y)
    BY EachTyped
  <2> QED  BY <1>2, <2>1, OneIs, ZenonT(30)
<1> QED  BY <1>1, <1>2

\* One more field adds what it declares.
LEMMA SaidMore ==
  ASSUME NEW t, NEW u, NEW list, u[list].role # "methods", NEW fields, NEW n \in Nat,
         \A k \in 1..(n + 1) : fields[k] \in DOMAIN t /\ u[fields[k]].names \in Seq(STRING)
  PROVE  /\ Said(u, t, list, fields, n + 1)
              = Said(u, t, list, fields, n) \o One(u, list, fields[n + 1], Of(t, fields[n + 1]))
         /\ One(u, list, fields[n + 1], Of(t, fields[n + 1])) \in Seq(Pairs(t))
<1> DEFINE e == [k \in 1..(n + 1) |-> One(u, list, fields[k], Of(t, fields[k]))]
           Y == {Of(t, x) : x \in DOMAIN t}
           S == Words \X Y
<1>1. ASSUME NEW k \in 1..(n + 1)  PROVE One(u, list, fields[k], Of(t, fields[k])) \in Seq(S)
  <2>1. Of(t, fields[k]) \in Y /\ u[fields[k]].names \in Seq(STRING)
    OBVIOUS
  <2> HIDE DEF Y
  <2> QED  BY <2>1, OneTyped
<1>2. /\ \A k \in 1..(n + 1) : e[k] \in Seq(S)
      /\ n + 1 \in 1..(n + 1)
      /\ e[n + 1] = One(u, list, fields[n + 1], Of(t, fields[n + 1]))
  BY <1>1
<1>3. /\ [k \in 1..(n + 1) |-> e[k]] = [k \in 1..(n + 1) |-> One(u, list, fields[k], Of(t, fields[k]))]
      /\ [k \in 1..n |-> e[k]] = [k \in 1..n |-> One(u, list, fields[k], Of(t, fields[k]))]
  OBVIOUS
<1>4. S = Pairs(t)
  BY DEF Pairs
<1> HIDE DEF e, S
<1>5. FlattenSeq([k \in 1..(n + 1) |-> e[k]]) = FlattenSeq([k \in 1..n |-> e[k]]) \o e[n + 1]
  BY <1>2, FlattenMore
<1> QED  BY <1>1, <1>2, <1>3, <1>4, <1>5 DEF Said

\* It is said by pairs of a name and a type.
LEMMA SaidTyped ==
  ASSUME NEW t, NEW u, NEW list, u[list].role # "methods", NEW fields, NEW n \in Nat,
         \A k \in 1..n : fields[k] \in DOMAIN t /\ u[fields[k]].names \in Seq(STRING)
  PROVE  Said(u, t, list, fields, n) \in Seq(Pairs(t))
<1> DEFINE bad == {m \in 0..n : ~ (Said(u, t, list, fields, m) \in Seq(Pairs(t)))}
<1> SUFFICES ASSUME bad # {}  PROVE FALSE
  <2>1. n \in 0..n
    OBVIOUS
  <2> QED  BY <2>1
<1>1. bad \subseteq Nat
  OBVIOUS
<1>2. PICK m \in bad : \A y \in bad : m <= y
  BY <1>1, LeastNatural
<1>3. m # 0
  <2> DEFINE none == [k \in 1..0 |-> One(u, list, fields[k], Of(t, fields[k]))]
  <2>1. none = <<>> /\ Len(none) = 0
    OBVIOUS
  <2> HIDE DEF none
  <2>2. FlattenSeq(none) = <<>>
    BY <2>1 DEF FlattenSeq
  <2>3. Said(u, t, list, fields, 0) = <<>>
    BY <2>2 DEF Said, none
  <2>4. <<>> \in Seq(Pairs(t))
    BY EmptySeq
  <2> QED  BY <1>2, <2>3, <2>4
<1> DEFINE j == m - 1
<1>4. j \in Nat /\ j \in 0..n /\ ~ (m <= j) /\ m = j + 1 /\ j + 1 <= n
  BY <1>2, <1>3
<1> HIDE DEF j
<1>5. Said(u, t, list, fields, j) \in Seq(Pairs(t))
  BY <1>2, <1>4
<1>6. \A k \in 1..(j + 1) : fields[k] \in DOMAIN t /\ u[fields[k]].names \in Seq(STRING)
  BY <1>4
<1> DEFINE one == One(u, list, fields[j + 1], Of(t, fields[j + 1]))
<1>7. Said(u, t, list, fields, j + 1) = Said(u, t, list, fields, j) \o one /\ one \in Seq(Pairs(t))
  BY <1>4, <1>6, SaidMore
<1> HIDE DEF one
<1>8. Said(u, t, list, fields, j) \o one \in Seq(Pairs(t))
  BY <1>5, <1>7, ConcatProperties
<1> QED  BY <1>2, <1>4, <1>7, <1>8

\* Only the names of the fields count.
LEMMA SaidSame ==
  ASSUME NEW t, NEW u, NEW v, NEW list, u[list].role = v[list].role, NEW fields, NEW others,
         NEW n \in Nat,
         \A k \in 1..n : fields[k] = others[k] /\ u[fields[k]].names = v[fields[k]].names
  PROVE  Said(u, t, list, fields, n) = Said(v, t, list, others, n)
<1>1. ASSUME NEW k \in 1..n
      PROVE  One(u, list, fields[k], Of(t, fields[k])) = One(v, list, others[k], Of(t, others[k]))
  <2>1. fields[k] = others[k] /\ ShownNames(u, list, fields[k]) = ShownNames(v, list, fields[k])
    BY DEF ShownNames
  <2> QED  BY <2>1 DEF One
<1>2. [k \in 1..n |-> One(u, list, fields[k], Of(t, fields[k]))]
        = [k \in 1..n |-> One(v, list, others[k], Of(t, others[k]))]
  BY <1>1
<1> QED  BY <1>2 DEF Said

\* A list in a tree, one level below it its fields.
IsList(t, list) ==
  /\ t \in [DOMAIN t -> NodesOver(DOMAIN t)] /\ Graded(t) /\ Formed(t)
  /\ list \in DOMAIN t /\ t[list].kind = "FieldList" /\ Len(list) \in Nat
  /\ Fields(DOMAIN t, t[list].kids) /\ Len(t[list].kids) \in Nat
  /\ InList(t, list, Range(t[list].kids))

\* After k fields: what is left declares what they did.
MergedSays(t, list, k, m) ==
  Said(m.tree, t, list, m.fields, Len(m.fields)) = Said(t, t, list, t[list].kids, k)

\* The first fields are in the list.
LEMMA FirstIn ==
  ASSUME NEW t, NEW list, IsList(t, list), NEW k \in 0..Len(t[list].kids)
  PROVE  /\ First(t[list].kids, k) \subseteq DOMAIN t
         /\ InList(t, list, First(t[list].kids, k))
         /\ \A j \in 1..Len(t[list].kids) :
              /\ t[list].kids[j] \in DOMAIN t /\ InList(t, list, {t[list].kids[j]})
              /\ t[list].kids[j] \in First(t[list].kids, k) <=> j <= k
<1> DEFINE kids == t[list].kids
<1>1. /\ kids \in Seq(DOMAIN t) /\ Len(kids) \in Nat
      /\ \A i, j \in 1..Len(kids) : i # j => kids[i] # kids[j]
      /\ InList(t, list, Range(kids))
  BY DEF IsList, Fields
<1> HIDE DEF kids
<1>2. ASSUME NEW j \in 1..Len(kids)
      PROVE  /\ kids[j] \in DOMAIN t /\ InList(t, list, {kids[j]})
             /\ kids[j] \in First(kids, k) <=> j <= k
  <2>1. kids[j] \in DOMAIN t
    BY <1>1, ElementOfSeq
  <2>2. kids[j] \in Range(kids)
    BY <1>1, LenProperties DEF Range
  <2>3. InList(t, list, {kids[j]})
    BY <1>1, <2>2 DEF InList
  <2>4. k \in 0..Len(kids)
    BY DEF kids
  <2>5. j <= k => kids[j] \in First(kids, k)
    <3>1. j <= k => j \in 1..k
      BY <2>4
    <3> QED  BY <3>1 DEF First
  <2>6. kids[j] \in First(kids, k) => j <= k
    <3> SUFFICES ASSUME NEW i \in 1..k, kids[j] = kids[i]  PROVE j <= k
      BY DEF First
    <3>1. i \in 1..Len(kids)
      BY <1>1, <2>4
    <3>2. i = j
      BY <1>1, <3>1
    <3> QED  BY <2>4, <3>2
  <2> QED  BY <2>1, <2>3, <2>5, <2>6
<1>3. \A j \in 1..k : j \in 1..Len(kids)
  BY <1>1 DEF kids
<1>4. First(kids, k) \subseteq DOMAIN t
  BY <1>2, <1>3 DEF First
<1>5. InList(t, list, First(kids, k))
  BY <1>2, <1>3 DEF First, InList
<1> QED  BY <1>2, <1>4, <1>5 DEF kids

\* Names after names are names, and some.
LEMMA ConcatMore ==
  ASSUME NEW a \in Seq(STRING), NEW b \in Seq(STRING), a # <<>>
  PROVE  a \o b \in Seq(STRING) /\ a \o b # <<>>
<1>1. a \o b \in Seq(STRING) /\ Len(a \o b) = Len(a) + Len(b)
  BY ConcatProperties
<1>2. Len(a) \in Nat /\ Len(a) # 0 /\ Len(b) \in Nat
  BY EmptySeq, LenProperties
<1>3. Len(<<>>) = 0
  BY EmptySeq
<1> DEFINE c == a \o b
<1> HIDE DEF c
<1>4. Len(c) # 0
  BY <1>1, <1>2 DEF c
<1> QED  BY <1>1, <1>3, <1>4 DEF c

\* Merging a field keeps what is declared, but in an interface.
LEMMA MergeSays ==
  ASSUME NEW t, NEW list, IsList(t, list), t[list].role # "methods",
         NEW k \in 1..Len(t[list].kids), NEW m,
         MergedWell(t, t[list].kids, k - 1, m), MergedSays(t, list, k - 1, m)
  PROVE  MergedSays(t, list, k, Merge(m, t, t[list].kids[k]))
<1> DEFINE kids == t[list].kids
           f    == kids[k]
           fs   == m.fields
           n    == Len(fs)
           l    == Last(fs)
           u    == m.tree
           old  == First(kids, k - 1)
           S    == Pairs(t)
<1>1. /\ t \in [DOMAIN t -> NodesOver(DOMAIN t)] /\ Graded(t) /\ Formed(t)
      /\ Len(list) \in Nat /\ Len(kids) \in Nat /\ list \in DOMAIN t
      /\ t[list].kind = "FieldList"
  BY DEF IsList
<1>2. k - 1 \in 0..Len(kids) /\ k \in 1..Len(kids) /\ k - 1 \in Nat /\ (k - 1) + 1 = k
  BY <1>1
<1>3. /\ old \subseteq DOMAIN t /\ InList(t, list, old)
      /\ \A j \in 1..Len(kids) : kids[j] \in DOMAIN t /\ InList(t, list, {kids[j]})
      /\ f \notin old
  <2>1. /\ old \subseteq DOMAIN t /\ InList(t, list, old)
        /\ \A j \in 1..Len(kids) :
             kids[j] \in DOMAIN t /\ InList(t, list, {kids[j]}) /\ (kids[j] \in old <=> j <= k - 1)
    BY <1>2, FirstIn
  <2>2. ~ (k <= k - 1)
    BY <1>2
  <2> HIDE DEF old, kids
  <2>3. kids[k] \notin old
    BY <1>2, <2>1, <2>2
  <2> QED  BY <2>1, <2>3
<1>4. /\ m = [fields |-> fs, tree |-> u] /\ OnlyNames(t, u, old)
      /\ fs \in Seq(old) /\ n \in Nat /\ \A i, j \in 1..n : i # j => fs[i] # fs[j]
  BY LenProperties DEF MergedWell, Fields
<1>5. Said(u, t, list, fs, n) = Said(t, t, list, kids, k - 1)
  BY DEF MergedSays
<1>6. \A x \in DOMAIN t : t[x].names \in Seq(STRING)
  BY <1>1 DEF NodesOver
<1>7. \A x \in DOMAIN t : u[x].names \in Seq(STRING) /\ (x \notin old => u[x].names = t[x].names)
  BY <1>4 DEF OnlyNames, NodesOver
<1>8. u[list].role = t[list].role /\ u[list].role # "methods"
  BY <1>1, <1>4 DEF OnlyNames
<1>9. \A j \in 1..n : fs[j] \in DOMAIN t /\ fs[j] \in old
  BY <1>3, <1>4, ElementOfSeq
<1>10. Merge(m, t, f) = IF fs # <<>> /\ shouldMergeAdjacentFields(u, l, f)
                        THEN [m EXCEPT !.tree[l].names = @ \o t[f].names]
                        ELSE [m EXCEPT !.fields = Append(@, f)]
  BY DEF Merge
<1> DEFINE one == One(t, list, f, Of(t, f))
<1>11. /\ Said(t, t, list, kids, k) = Said(t, t, list, kids, k - 1) \o one
       /\ one \in Seq(S)
  <2>1. \A j \in 1..k : j \in 1..Len(kids)
    BY <1>1, <1>2
  <2>2. \A j \in 1..((k - 1) + 1) : kids[j] \in DOMAIN t /\ t[kids[j]].names \in Seq(STRING)
    BY <1>2, <1>3, <1>6, <2>1
  <2> HIDE DEF kids
  <2>3. /\ Said(t, t, list, kids, (k - 1) + 1)
              = Said(t, t, list, kids, k - 1) \o One(t, list, kids[(k - 1) + 1], Of(t, kids[(k - 1) + 1]))
        /\ One(t, list, kids[(k - 1) + 1], Of(t, kids[(k - 1) + 1])) \in Seq(S)
    BY <1>2, <2>2, SaidMore
  <2> QED  BY <1>2, <2>3
<1> HIDE DEF kids, one, S
<1>12. CASE fs # <<>> /\ shouldMergeAdjacentFields(u, l, f)
  <2> DEFINE new  == u[l].names \o t[f].names
             v    == [u EXCEPT ![l].names = new]
             type == Of(t, l)
             h    == n - 1
  <2>1. n >= 1 /\ l = fs[n] /\ n \in 1..n /\ h \in Nat /\ h + 1 = n
    BY <1>4, <1>12, EmptySeq DEF Last
  <2>2. /\ l \in DOMAIN t /\ l \in old /\ \A j \in 1..h : j \in 1..n /\ fs[j] # l
    BY <1>4, <1>9, <2>1
  <2>3. /\ v[l].names = new /\ \A x \in DOMAIN t : x # l => v[x].names = u[x].names
        /\ v[list].role = u[list].role
    <3>1. u \in [DOMAIN t -> NodesOver(DOMAIN t)]
      BY <1>4 DEF OnlyNames
    <3>2. u[l] \in NodesOver(DOMAIN t)
      BY <2>2, <3>1
    <3>3. [u[l] EXCEPT !.names = new].names = new /\ [u[l] EXCEPT !.names = new].role = u[l].role
      BY <3>2 DEF NodesOver
    <3> QED  BY <1>1, <2>2, <3>1, <3>3
  <2>4. Merge(m, t, f).fields = fs /\ Merge(m, t, f).tree = v
    BY <1>4, <1>10, <1>12
  <2>5. Of(t, l) = Of(t, f)
    <3>1. Printed(u)[l][2] = Printed(u)[f][2]
      BY <1>12 DEF shouldMergeAdjacentFields
    <3>2. InList(t, list, {l, f})
      BY <1>2, <1>3, <2>2 DEF InList
    <3> HIDE DEF u, l, f, old
    <3>3. Declared(t)[l][2] = Declared(t)[f][2]
      BY <1>1, <1>3, <1>4, <3>1, <3>2, TypesSay
    <3> QED  BY <3>3 DEF Of
  <2>6. /\ u[l].names # <<>> /\ t[f].names # <<>>
        /\ u[l].names \in Seq(STRING) /\ t[f].names \in Seq(STRING)
    <3>1. f \in DOMAIN t
      BY <1>2, <1>3
    <3> QED  BY <1>3, <1>6, <1>7, <1>12, <2>2, <3>1 DEF shouldMergeAdjacentFields
  <2>7. new \in Seq(STRING) /\ new # <<>>
    <3> HIDE DEF u, l, f
    <3> QED  BY <2>6, ConcatMore
  <2> HIDE DEF v, new, h
  <2>8. One(v, list, l, type) = Each(new, type)
    <3>1. v[list].role # "methods" /\ v[l].names # <<>>
      BY <1>8, <2>3, <2>7
    <3> HIDE DEF l, type
    <3>2. One(v, list, l, type) = Each(v[l].names, type)
      BY <3>1, OneIs, ZenonT(30)
    <3> QED  BY <2>3, <3>2
  <2>9. One(u, list, l, type) = Each(u[l].names, type)
    <3> HIDE DEF u, l, type
    <3>1. u[list].role # "methods" /\ u[l].names # <<>>
      BY <1>8, <2>6
    <3> QED  BY ONLY <3>1, OneIs, ZenonT(30)
  <2>10. one = Each(t[f].names, type)
    <3>1. One(t, list, f, type) = Each(t[f].names, type)
      BY <2>6, OneIs, ZenonT(30)
    <3> QED  BY <2>5, <3>1 DEF one
  <2>11. Each(new, type) = Each(u[l].names, type) \o Each(t[f].names, type)
    BY <2>2, <2>6, EachMore DEF new
  <2>12. /\ Said(v, t, list, fs, h + 1) = Said(v, t, list, fs, h) \o One(v, list, l, type)
         /\ One(v, list, l, type) \in Seq(S)
    <3>1. \A j \in 1..(h + 1) : fs[j] \in DOMAIN t /\ v[fs[j]].names \in Seq(STRING)
      BY <1>7, <1>9, <2>1, <2>3, <2>7
    <3>2. v[list].role # "methods"
      BY <1>8, <2>3
    <3> HIDE DEF fs
    <3>3. /\ Said(v, t, list, fs, h + 1) = Said(v, t, list, fs, h) \o One(v, list, fs[h + 1], Of(t, fs[h + 1]))
          /\ One(v, list, fs[h + 1], Of(t, fs[h + 1])) \in Seq(Pairs(t))
      BY <2>1, <3>1, <3>2, SaidMore
    <3> QED  BY <2>1, <3>3 DEF fs, S
  <2>13. /\ Said(u, t, list, fs, h + 1) = Said(u, t, list, fs, h) \o One(u, list, l, type)
         /\ One(u, list, l, type) \in Seq(S)
    <3>1. \A j \in 1..(h + 1) : fs[j] \in DOMAIN t /\ u[fs[j]].names \in Seq(STRING)
      BY <1>7, <1>9, <2>1
    <3>2. u[list].role # "methods"
      BY <1>8
    <3> HIDE DEF fs, u
    <3>3. /\ Said(u, t, list, fs, h + 1) = Said(u, t, list, fs, h) \o One(u, list, fs[h + 1], Of(t, fs[h + 1]))
          /\ One(u, list, fs[h + 1], Of(t, fs[h + 1])) \in Seq(Pairs(t))
      BY <2>1, <3>1, <3>2, SaidMore
    <3> QED  BY <2>1, <3>3 DEF fs, S, u
  <2>14. Said(v, t, list, fs, h) = Said(u, t, list, fs, h)
    <3>1. \A j \in 1..h : fs[j] = fs[j] /\ v[fs[j]].names = u[fs[j]].names
      BY <1>9, <2>2, <2>3
    <3> HIDE DEF fs, u
    <3> QED  BY <2>1, <2>3, <3>1, SaidSame
  <2>15. Said(u, t, list, fs, h) \in Seq(S)
    <3>1. \A j \in 1..h : fs[j] \in DOMAIN t /\ u[fs[j]].names \in Seq(STRING)
      BY <1>7, <1>9, <2>2
    <3> HIDE DEF fs, u
    <3>2. Said(u, t, list, fs, h) \in Seq(Pairs(t))
      BY <1>8, <2>1, <3>1, SaidTyped
    <3> QED  BY <3>2 DEF S
  <2>16. Said(v, t, list, fs, n) = Said(u, t, list, fs, n) \o one
    <3> DEFINE a == Said(u, t, list, fs, h)
               b == One(u, list, l, type)
    <3>1. a \in Seq(S) /\ b \in Seq(S) /\ one \in Seq(S)
      BY <1>11, <2>13, <2>15
    <3>2. One(v, list, l, type) = b \o one
      BY <2>8, <2>9, <2>10, <2>11
    <3>3. Said(v, t, list, fs, n) = a \o (b \o one) /\ Said(u, t, list, fs, n) = a \o b
      BY <2>1, <2>12, <2>13, <2>14, <3>2
    <3> HIDE DEF a, b
    <3>4. (a \o b) \o one = a \o (b \o one)
      BY ONLY <3>1, ConcatAssociative, SMTT(30)
    <3> QED  BY <3>3, <3>4
  <2> QED  BY <1>5, <1>11, <2>4, <2>16 DEF MergedSays, kids
<1>13. CASE ~ (fs # <<>> /\ shouldMergeAdjacentFields(u, l, f))
  <2> DEFINE gs == Append(fs, f)
  <2>1. Merge(m, t, f).fields = gs /\ Merge(m, t, f).tree = u
    BY <1>4, <1>10, <1>13
  <2>2. Len(gs) = n + 1 /\ gs[n + 1] = f /\ \A j \in 1..n : gs[j] = fs[j]
    <3>1. fs \in Seq(DOMAIN t) /\ f \in DOMAIN t
      BY <1>2, <1>3, <1>4, SeqMonotonic
    <3> QED  BY <3>1, AppendProperties
  <2> HIDE DEF gs
  <2>3. /\ Said(u, t, list, gs, n + 1) = Said(u, t, list, gs, n) \o One(u, list, gs[n + 1], Of(t, gs[n + 1]))
    <3>1. \A j \in 1..(n + 1) : gs[j] \in DOMAIN t
      <4>1. \A j \in 1..(n + 1) : j \in 1..n \/ j = n + 1
        BY <1>4
      <4>2. f \in DOMAIN t
        BY <1>2, <1>3
      <4> QED  BY <1>9, <2>2, <4>1, <4>2
    <3>2. \A j \in 1..(n + 1) : gs[j] \in DOMAIN t /\ u[gs[j]].names \in Seq(STRING)
      BY <1>7, <3>1
    <3> HIDE DEF u, n
    <3>3. n \in Nat /\ u[list].role # "methods"
      BY <1>4, <1>8
    <3> QED  BY <3>2, <3>3, SaidMore
  <2>4. Said(u, t, list, gs, n) = Said(u, t, list, fs, n)
    <3>1. \A j \in 1..n : gs[j] = fs[j] /\ u[gs[j]].names = u[gs[j]].names
      BY <2>2
    <3> HIDE DEF u, n, fs
    <3>2. n \in Nat
      BY <1>4
    <3> QED  BY <3>1, <3>2, SaidSame
  <2>5. One(u, list, f, Of(t, f)) = one
    <3>1. u[f].names = t[f].names
      BY <1>2, <1>3, <1>7
    <3>2. ShownNames(u, list, f) = ShownNames(t, list, f)
      BY <1>8, <3>1 DEF ShownNames
    <3> QED  BY <3>2 DEF One, one
  <2> QED  BY <1>5, <1>11, <2>1, <2>2, <2>3, <2>4, <2>5 DEF MergedSays, kids
<1> QED  BY <1>12, <1>13 DEF kids

\* Merging a list declares what it declared, but for an interface's.
LEMMA ListSays ==
  ASSUME NEW t, NEW list, IsList(t, list), t[list].role # "methods"
  PROVE  MergedSays(t, list, Len(t[list].kids), mergeAdjacentFields(t, t[list].kids))
<1> DEFINE kids == t[list].kids
           M    == Merging(t, kids)
           Well(k) == MergedWell(t, kids, k, M[k]) /\ MergedSays(t, list, k, M[k])
           bad == {k \in 0..Len(kids) : ~ Well(k)}
<1>1. t \in [DOMAIN t -> NodesOver(DOMAIN t)] /\ Fields(DOMAIN t, kids) /\ Len(kids) \in Nat
  BY DEF IsList
<1>2. /\ M[0] = Start(t)
      /\ \A k \in 1..Len(kids) : M[k] = Merge(M[k - 1], t, kids[k])
  BY <1>1, MergingStep
<1> HIDE DEF M, kids
<1>3. Well(0)
  <2>1. First(kids, 0) = {}
    BY DEF First
  <2>2. Start(t).fields = <<>> /\ Start(t).tree = t /\ Start(t) = [fields |-> <<>>, tree |-> t]
    BY DEF Start
  <2>3. Fields({}, <<>>)
    BY EmptySeq DEF Fields
  <2>4. OnlyNames(t, t, {})
    BY <1>1 DEF OnlyNames
  <2>5. Len(<<>>) = 0
    BY EmptySeq
  <2>6. Naming(t, <<>>)[0] = <<>> /\ Naming(t, kids)[0] = <<>>
    BY <1>1, <2>5, NamingStep
  <2>7. MergedWell(t, kids, 0, M[0])
    BY <1>2, <2>1, <2>2, <2>3, <2>4, <2>5, <2>6 DEF MergedWell, Start
  <2>8. Said(t, t, list, <<>>, 0) = Said(t, t, list, kids, 0)
    <3>1. \A k \in 1..0 : <<>>[k] = kids[k] /\ t[<<>>[k]].names = t[<<>>[k]].names
      OBVIOUS
    <3>2. 0 \in Nat
      OBVIOUS
    <3> QED  BY <3>1, <3>2, SaidSame
  <2>9. MergedSays(t, list, 0, M[0])
    BY <1>2, <2>2, <2>5, <2>8 DEF MergedSays, kids
  <2> QED  BY <2>7, <2>9
<1>4. bad = {}
  <2> SUFFICES ASSUME bad # {}  PROVE FALSE
    OBVIOUS
  <2>1. bad \subseteq Nat
    BY <1>1
  <2>2. PICK k \in bad : \A y \in bad : k <= y
    BY <2>1, LeastNatural
  <2>3. k \in 1..Len(kids) /\ k - 1 \in 0..Len(kids) /\ ~ (k <= k - 1)
    BY <1>1, <1>3, <2>2
  <2>4. MergedWell(t, kids, k - 1, M[k - 1]) /\ MergedSays(t, list, k - 1, M[k - 1])
    BY <2>2, <2>3
  <2>5. MergedWell(t, kids, k, Merge(M[k - 1], t, kids[k]))
    BY <1>1, <2>3, <2>4, MergeKeeps
  <2>6. MergedSays(t, list, k, Merge(M[k - 1], t, kids[k]))
    BY <2>3, <2>4, MergeSays DEF kids
  <2> QED  BY <1>2, <2>2, <2>3, <2>5, <2>6
<1>5. Len(kids) \in 0..Len(kids)
  BY <1>1
<1>6. Well(Len(kids))
  BY <1>4, <1>5
<1> QED  BY <1>6 DEF mergeAdjacentFields, M, kids

\* Fields of a list that would be merged, if there are any next to each other, are
\* of different types.
Distinct(t, list) ==
  \A k \in 2..Len(t[list].kids) :
    LET l == t[list].kids[k - 1]
        f == t[list].kids[k]
    IN \/ t[l].names = <<>> \/ t[f].names = <<>> \/ t[l].line # t[f].line
       \/ Of(t, l) # Of(t, f)

\* Nothing is merged then.
LEMMA ListStays ==
  ASSUME NEW t, NEW list, IsList(t, list), Distinct(t, list)
  PROVE  /\ mergeAdjacentFields(t, t[list].kids).tree = t
         /\ mergeAdjacentFields(t, t[list].kids).fields = t[list].kids
<1> DEFINE kids == t[list].kids
           M    == Merging(t, kids)
           None(k) == /\ M[k] = [fields |-> M[k].fields, tree |-> t]
                      /\ M[k].fields \in Seq(DOMAIN t) /\ Len(M[k].fields) = k
                      /\ \A j \in 1..k : M[k].fields[j] = kids[j]
           bad == {k \in 0..Len(kids) : ~ None(k)}
<1>1. /\ t \in [DOMAIN t -> NodesOver(DOMAIN t)] /\ kids \in Seq(DOMAIN t) /\ Len(kids) \in Nat
      /\ Graded(t) /\ Formed(t) /\ Len(list) \in Nat
  BY DEF IsList, Fields
<1>2. /\ M[0] = Start(t)
      /\ \A k \in 1..Len(kids) : M[k] = Merge(M[k - 1], t, kids[k])
  BY <1>1, MergingStep
<1> HIDE DEF M
<1>3. None(0)
  <2>1. <<>> \in Seq(DOMAIN t) /\ Len(<<>>) = 0
    BY EmptySeq
  <2> QED  BY <1>2, <2>1 DEF Start
<1>4. ASSUME NEW k \in 1..Len(kids), None(k - 1)  PROVE None(k)
  <2> DEFINE m  == M[k - 1]
             fs == m.fields
             f  == kids[k]
             l  == Last(fs)
             gs == Append(fs, f)
  <2>1. /\ m = [fields |-> fs, tree |-> t] /\ fs \in Seq(DOMAIN t) /\ Len(fs) = k - 1
        /\ \A j \in 1..(k - 1) : fs[j] = kids[j]
    BY <1>4
  <2>2. k \in Nat /\ k - 1 \in Nat
    BY <1>1
  <2>3. f \in DOMAIN t
    BY <1>1, ElementOfSeq
  <2> HIDE DEF None
  <2>4. ~ (fs # <<>> /\ shouldMergeAdjacentFields(t, l, f))
    <3> SUFFICES ASSUME fs # <<>>, shouldMergeAdjacentFields(t, l, f)  PROVE FALSE
      OBVIOUS
    <3>1. k - 1 # 0
      BY <2>1, EmptySeq
    <3>2. l = kids[k - 1] /\ k - 1 \in 1..Len(kids) /\ k \in 2..Len(kids)
      <4>1. l = fs[k - 1] /\ k - 1 \in 1..(k - 1)
        BY <2>1, <2>2, <3>1 DEF Last
      <4> QED  BY <1>1, <2>1, <2>2, <3>1, <4>1
    <3>3. /\ t[l].names # <<>> /\ t[f].names # <<>> /\ t[l].line = t[f].line
          /\ Printed(t)[l][2] = Printed(t)[f][2]
      BY DEF shouldMergeAdjacentFields
    <3>4. Of(t, l) # Of(t, f)
      BY <3>2, <3>3 DEF Distinct
    <3>5. InList(t, list, {l, f})
      <4>1. InList(t, list, Range(kids))
        BY DEF IsList
      <4>2. l \in Range(kids) /\ f \in Range(kids)
        BY <1>1, <3>2, LenProperties DEF Range
      <4> QED  BY <4>1, <4>2 DEF InList
    <3>6. OnlyNames(t, t, {}) /\ InList(t, list, {})
      BY <1>1 DEF OnlyNames, InList
    <3> HIDE DEF l, f
    <3>7. Declared(t)[l][2] = Declared(t)[f][2]
      <4>1. Graded(t) /\ Formed(t) /\ Len(list) \in Nat /\ Printed(t)[l][2] = Printed(t)[f][2]
        BY <1>1, <3>3
      <4> QED  BY ONLY <3>5, <3>6, <4>1, TypesSay
    <3> QED  BY <3>4, <3>7 DEF Of
  <2>5. Merge(m, t, f) = [fields |-> gs, tree |-> t]
    <3> HIDE DEF m, l, f
    <3>1. m.fields = fs /\ m.tree = t
      BY <2>1
    <3>2. Merge(m, t, f) = [m EXCEPT !.fields = Append(@, f)]
      BY <2>4, <3>1 DEF Merge, l
    <3> QED  BY <2>1, <3>1, <3>2
  <2>6. gs \in Seq(DOMAIN t) /\ Len(gs) = (k - 1) + 1 /\ gs[(k - 1) + 1] = f /\ \A j \in 1..(k - 1) : gs[j] = fs[j]
    <3> HIDE DEF fs, f
    <3>1. fs \in Seq(DOMAIN t) /\ f \in DOMAIN t
      BY <2>1, <2>3
    <3>2. /\ Append(fs, f) \in Seq(DOMAIN t) /\ Len(Append(fs, f)) = Len(fs) + 1
          /\ Append(fs, f)[Len(fs) + 1] = f /\ \A j \in 1..Len(fs) : Append(fs, f)[j] = fs[j]
      BY ONLY <3>1, AppendProperties
    <3> QED  BY <2>1, <3>2
  <2>7. M[k] = [fields |-> gs, tree |-> t]
    BY <1>2, <2>5
  <2> HIDE DEF gs
  <2>8. \A j \in 1..k : gs[j] = kids[j]
    <3>1. (k - 1) + 1 = k /\ \A j \in 1..k : j \in 1..(k - 1) \/ j = k
      BY <2>2
    <3> QED  BY <2>1, <2>6, <3>1
  <2>9. M[k].fields = gs /\ (k - 1) + 1 = k
    BY <2>2, <2>7
  <2> QED  BY <2>6, <2>7, <2>8, <2>9 DEF None
<1>5. None(Len(kids))
  <2> HIDE DEF None
  <2>1. bad = {}
    <3> SUFFICES ASSUME bad # {}  PROVE FALSE
      OBVIOUS
    <3>1. bad \subseteq Nat
      BY <1>1
    <3>2. PICK k \in bad : \A y \in bad : k <= y
      BY <3>1, LeastNatural
    <3>3. k \in 1..Len(kids) /\ k - 1 \in 0..Len(kids) /\ ~ (k <= k - 1)
      BY <1>1, <1>3, <3>2
    <3> QED  BY <1>4, <3>2, <3>3
  <2>2. Len(kids) \in 0..Len(kids)
    BY <1>1
  <2> QED  BY <2>1, <2>2
<1>6. M[Len(kids)].fields = kids
  <2> HIDE DEF kids
  <2> QED  BY <1>1, <1>5, SeqEqual
<1> QED  BY <1>5, <1>6 DEF mergeAdjacentFields, M

------------------------------------------------------------------------------
(* What the tree declares *)

\* A tree that has the nodes of another, with other names or fewer fields.
SameAs(s, t) ==
  /\ IsTree(s) /\ IsSyntax(s) /\ t \in [DOMAIN s -> NodesOver(DOMAIN s)]
  /\ \A n \in DOMAIN s :
       /\ t[n].kind = s[n].kind /\ t[n].role = s[n].role
       /\ Fields(Range(s[n].kids), t[n].kids)

\* Its lists are lists.
LEMMA SameIs ==
  ASSUME NEW s, NEW t, SameAs(s, t)
  PROVE  /\ Graded(t) /\ Formed(t) /\ DOMAIN t = DOMAIN s
         /\ \A list \in DOMAIN t : t[list].kind = "FieldList" => IsList(t, list)
<1>1. /\ DOMAIN t = DOMAIN s /\ t \in [DOMAIN t -> NodesOver(DOMAIN t)]
      /\ \A n \in DOMAIN s :
           /\ t[n].kind = s[n].kind /\ t[n].role = s[n].role
           /\ Fields(Range(s[n].kids), t[n].kids)
  BY DEF SameAs
<1>2. ASSUME NEW n \in DOMAIN s, NEW c \in Range(s[n].kids)
      PROVE  c \in DOMAIN s /\ Len(n) \in Nat /\ Len(c) = Len(n) + 1
  <2>1. /\ n \in Seq(Nat) /\ s[n] \in NodesOver(DOMAIN s)
        /\ \A k \in 1..Len(s[n].kids) : s[n].kids[k] = Append(n, k)
    BY DEF SameAs, IsTree
  <2>2. s[n].kids \in Seq(DOMAIN s)
    BY <2>1 DEF NodesOver
  <2>3. PICK k \in 1..Len(s[n].kids) : c = s[n].kids[k]
    BY <2>2, LenProperties DEF Range
  <2>4. c \in DOMAIN s /\ c = Append(n, k) /\ k \in Nat
    BY <2>1, <2>2, <2>3, ElementOfSeq
  <2>5. Len(n) \in Nat
    BY <2>1, LenProperties
  <2> QED  BY <2>1, <2>4, <2>5, UpChild
<1>3. ASSUME NEW n \in DOMAIN s
      PROVE  /\ Len(n) \in Nat /\ Len(t[n].kids) \in Nat
             /\ \A k \in 1..Len(t[n].kids) :
                  /\ t[n].kids[k] \in Range(s[n].kids) /\ t[n].kids[k] \in DOMAIN s
                  /\ Len(t[n].kids[k]) = Len(n) + 1
             /\ Fields(DOMAIN s, t[n].kids)
  <2>1. n \in Seq(Nat) /\ Fields(Range(s[n].kids), t[n].kids)
    BY <1>1 DEF SameAs, IsTree
  <2>2. Len(n) \in Nat
    BY <2>1, LenProperties
  <2>3. t[n].kids \in Seq(Range(s[n].kids))
    BY <2>1 DEF Fields
  <2>4. Len(t[n].kids) \in Nat /\ \A k \in 1..Len(t[n].kids) : t[n].kids[k] \in Range(s[n].kids)
    BY <2>3, LenProperties, ElementOfSeq
  <2>5. Range(s[n].kids) \subseteq DOMAIN s
    BY <1>2
  <2>6. t[n].kids \in Seq(DOMAIN s)
    BY <2>3, <2>5, SeqMonotonic
  <2>7. Fields(DOMAIN s, t[n].kids)
    BY <2>1, <2>6 DEF Fields
  <2> QED  BY <1>2, <2>2, <2>4, <2>7
<1>4. Graded(t)
  <2>1. PICK n \in DOMAIN s : \A m \in DOMAIN s : Len(m) <= Len(n)
    BY DEF SameAs, IsTree
  <2>2. Len(n) \in Nat
    BY <1>3
  <2>3. \E d \in Nat : \A m \in DOMAIN t : Len(m) <= d
    BY <1>1, <2>1, <2>2
  <2>4. \A m \in DOMAIN t :
          /\ Len(m) \in Nat /\ Len(t[m].kids) \in Nat
          /\ \A k \in 1..Len(t[m].kids) :
               t[m].kids[k] \in DOMAIN t /\ Len(t[m].kids[k]) > Len(m)
    BY <1>1, <1>3
  <2> QED  BY <2>3, <2>4 DEF Graded
<1>5. ASSUME NEW n \in DOMAIN s, t[n].kind = "FieldList", NEW c \in Range(s[n].kids)
      PROVE  t[c].kind = "Field"
  <2>1. s[n].kind = "FieldList" => \A k \in Range(s[n].kids) : s[k].kind = "Field"
    BY Zenon DEF SameAs, IsSyntax
  <2> QED  BY <1>1, <1>2, <1>5, <2>1
<1>6. Formed(t)
  <2> SUFFICES ASSUME NEW n \in DOMAIN t
               PROVE  /\ t[n].kind \in Kinds /\ t[n].role \in Roles
                      /\ t[n].kind = "FieldList" =>
                           \A k \in 1..Len(t[n].kids) : t[t[n].kids[k]].kind = "Field"
    BY DEF Formed
  <2>1. t[n] \in NodesOver(DOMAIN t)
    BY <1>1
  <2>2. t[n].kind \in Kinds /\ t[n].role \in Roles
    BY <2>1 DEF NodesOver
  <2> QED  BY <1>1, <1>3, <1>5, <2>2
<1>7. ASSUME NEW list \in DOMAIN t, t[list].kind = "FieldList"  PROVE IsList(t, list)
  <2>1. /\ Len(list) \in Nat /\ Len(t[list].kids) \in Nat /\ Fields(DOMAIN t, t[list].kids)
        /\ \A k \in 1..Len(t[list].kids) :
             /\ t[list].kids[k] \in Range(s[list].kids) /\ t[list].kids[k] \in DOMAIN t
             /\ Len(t[list].kids[k]) = Len(list) + 1
    BY <1>1, <1>3
  <2>2. \A x \in Range(t[list].kids) : \E k \in 1..Len(t[list].kids) : x = t[list].kids[k]
    BY <2>1, LenProperties DEF Range, Fields
  <2>3. InList(t, list, Range(t[list].kids))
    BY <1>1, <1>5, <1>7, <2>1, <2>2 DEF InList
  <2> QED  BY <1>1, <1>4, <1>6, <1>7, <2>1, <2>3 DEF IsList
<1> QED  BY <1>1, <1>4, <1>6, <1>7

\* The tree is such a one, now and next.
LEMMA TreeIs == SameTree => SameAs(source, tree)
BY FilesAssumption DEF SameTree, SameAs, Places

LEMMA TreeIsNext == SameTree' => SameAs(source', tree')
BY FilesAssumption DEF SameTree, SameAs, Places

\* Nodes of two trees that are alike from a depth, but for one list that declares
\* the same, declare the same.
LEMMA DeclaredStays ==
  ASSUME NEW s, NEW t, NEW u, SameAs(s, t), SameAs(s, u),
         NEW list \in DOMAIN s, t[list].kind = "FieldList",
         \A n \in DOMAIN s : n # list =>
           Alike(t, u, n),
         (\A n \in Deep(t, Len(list) + 1) : Declared(t)[n] = Declared(u)[n])
           => Declared(t)[list] = Declared(u)[list]
  PROVE  \A n \in DOMAIN s : Declared(t)[n] = Declared(u)[n]
<1>1. Graded(t) /\ Graded(u) /\ DOMAIN t = DOMAIN s /\ DOMAIN u = DOMAIN s
  BY SameIs
<1>2. \A n \in DOMAIN t : Len(n) \in Nat
  BY <1>1 DEF Graded
<1>3. Len(list) \in Nat /\ Len(list) + 1 \in Nat /\ ~ (Len(list) >= Len(list) + 1) /\ 0 \in Nat
  BY <1>1, <1>2
<1>4. \A n \in Deep(t, Len(list) + 1) : Alike(t, u, n)
  BY <1>1, <1>3 DEF Deep
<1>5. \A n \in Deep(t, Len(list) + 1) : Declared(t)[n] = Declared(u)[n]
  BY <1>1, <1>3, <1>4, DeclaredSame
<1>6. Declared(t)[list] = Declared(u)[list]
  BY <1>5
<1>7. \A n \in Deep(t, 0) : Alike(t, u, n) \/ Declared(t)[n] = Declared(u)[n]
  BY <1>1, <1>6 DEF Deep
<1>8. \A n \in Deep(t, 0) : Declared(t)[n] = Declared(u)[n]
  BY <1>1, <1>3, <1>7, DeclaredSame
<1>9. \A n \in DOMAIN s : n \in Deep(t, 0)
  BY <1>1, <1>2 DEF Deep
<1> QED  BY <1>8, <1>9

\* A list declares what its fields do.
LEMMA ListDeclares ==
  ASSUME NEW t, NEW u, Graded(u), NEW list \in DOMAIN u, u[list].kind = "FieldList",
         \A k \in 1..Len(u[list].kids) : Declared(u)[u[list].kids[k]] = Declared(t)[u[list].kids[k]]
  PROVE  Declared(u)[list]
           = <<u[list].role, Said(u, t, list, u[list].kids, Len(u[list].kids))>>
<1> DEFINE D    == Declared(u)
           kids == u[list].kids
           mine == [k \in 1..Len(kids) |-> One(u, list, kids[k], KidsIn(D, u, list)[k][2])]
           said == [k \in 1..Len(kids) |-> One(u, list, kids[k], Of(t, kids[k]))]
<1>1. D[list] = DeclaredAs(u, list, KidsIn(D, u, list))
  BY DeclaredIs
<1>2. DeclaredAs(u, list, KidsIn(D, u, list)) = <<u[list].role, FlattenSeq(mine)>>
  BY DEF DeclaredAs
<1>3. ASSUME NEW k \in 1..Len(kids)  PROVE KidsIn(D, u, list)[k][2] = Of(t, kids[k])
  BY DEF KidsIn, Of
<1>4. mine = said
  BY <1>3
<1> HIDE DEF mine
<1> QED  BY <1>1, <1>2, <1>4 DEF Said

\* Nodes with the same names, on them and in them, are alike.
LEMMA NamesAlike ==
  ASSUME SameTree, SameTree', UNCHANGED source, NEW n \in Places, tree'[n].kids = tree[n].kids,
         tree[n].kind = "Ident" => tree'[n].names = tree[n].names,
         tree[n].kind = "FieldList" =>
           \A x \in Range(tree[n].kids) : tree'[x].names = tree[x].names
  PROVE  Alike(tree, tree', n)
<1>1. tree'[n].kind = tree[n].kind /\ tree'[n].role = tree[n].role
  BY DEF SameTree, Places
<1>2. ASSUME tree[n].kind = "FieldList", NEW k \in 1..Len(tree[n].kids)
      PROVE  ShownNames(tree, n, tree[n].kids[k]) = ShownNames(tree', n, tree[n].kids[k])
  <2> DEFINE x == tree[n].kids[k]
  <2>1. x \in Range(tree[n].kids)
    <3>1. tree[n].kids \in Seq(Places)
      BY KidsAre DEF Fields
    <3> QED  BY <3>1, LenProperties DEF Range
  <2>2. tree'[x].names = tree[x].names
    BY <1>2, <2>1
  <2> HIDE DEF x
  <2>3. ShownNames(tree, n, x) = ShownNames(tree', n, x)
    BY <1>1, <2>2 DEF ShownNames
  <2> QED  BY <2>3 DEF x
<1> QED  BY <1>1, <1>2 DEF Alike

\* Merging a list that is not an interface's changes nothing that is declared.
LEMMA MergedDeclares ==
  ASSUME SameTree, SameTree', UNCHANGED source, NEW c \in Places, tree[c].kind = "FieldList",
         tree[c].role # "methods",
         LET merged == mergeAdjacentFields(tree, tree[c].kids)
         IN  tree' = [merged.tree EXCEPT ![c].kids = merged.fields]
  PROVE  \A n \in Places : Declared(tree')[n] = Declared(tree)[n]
<1> DEFINE kids   == tree[c].kids
           merged == mergeAdjacentFields(tree, kids)
           t      == merged.tree
           fs     == merged.fields
<1>1. /\ SameAs(source, tree) /\ SameAs(source, tree') /\ DOMAIN source = Places
      /\ Graded(tree) /\ Graded(tree') /\ DOMAIN tree = Places /\ DOMAIN tree' = Places
      /\ IsList(tree, c)
  <2>1. SameAs(source, tree) /\ SameAs(source, tree')
    BY TreeIs, TreeIsNext
  <2> QED  BY <2>1, SameIs DEF Places
<1>2. /\ \A x \in Places : x # c => tree'[x].kids = tree[x].kids
      /\ \A x \in Places : x \notin Range(kids) => tree'[x].names = tree[x].names
  BY TreeMerged
<1>3. ASSUME NEW n \in Places, n # c  PROVE Alike(tree, tree', n)
  <2>1. tree[n].kind = "Ident" => n \notin Range(kids)
    BY FieldIs DEF SameTree
  <2>2. \A x \in Range(tree[n].kids) : x \in Places /\ x \notin Range(kids)
    BY <1>3, ParentIs, KidsAre
  <2> QED  BY <1>2, <1>3, <2>1, <2>2, NamesAlike
<1>4. /\ Fields(Places, kids) /\ Len(kids) \in Nat
      /\ tree \in [DOMAIN tree -> NodesOver(DOMAIN tree)]
  BY KidsAre DEF SameTree
<1> HIDE DEF kids
<1>5. MergedWell(tree, kids, Len(kids), merged)
  BY <1>1, <1>4, MergeRight
<1>6. MergedSays(tree, c, Len(kids), merged)
  BY <1>1, ListSays DEF kids
<1> HIDE DEF merged
<1>7. /\ t \in [Places -> NodesOver(Places)] /\ t[c].role = tree[c].role
      /\ fs \in Seq(First(kids, Len(kids)))
  BY <1>1, <1>5 DEF MergedWell, OnlyNames, Fields
<1>8. /\ tree'[c].kids = fs /\ tree'[c].role = t[c].role
      /\ \A x \in Places : tree'[x].names = t[x].names
  <2>1. tree' = [t EXCEPT ![c] = [t[c] EXCEPT !.kids = fs]]
    BY DEF merged, kids
  <2>2. t[c] \in NodesOver(Places)
    BY <1>7
  <2> HIDE DEF t, fs
  <2>3. /\ [t[c] EXCEPT !.kids = fs].kids = fs
        /\ [t[c] EXCEPT !.kids = fs].role = t[c].role
        /\ [t[c] EXCEPT !.kids = fs].names = t[c].names
    BY <2>2 DEF NodesOver
  <2> QED  BY <1>7, <2>1, <2>3
<1>9. /\ tree'[c].kind = "FieldList" /\ tree'[c].role = tree[c].role
      /\ tree'[c].kids = fs /\ fs \in Seq(Places) /\ Len(fs) \in Nat
      /\ \A k \in 1..Len(fs) : fs[k] \in Places /\ Len(fs[k]) = Len(c) + 1
  <2>2. tree'[c].kind = "FieldList" /\ tree'[c].role = tree[c].role
    BY ZenonT(30) DEF SameTree, Places
  <2>3. IsList(tree', c)
    BY <1>1, <2>2, SameIs
  <2>4. /\ fs \in Seq(Places) /\ Len(fs) \in Nat /\ InList(tree', c, Range(fs))
    BY <1>1, <1>8, <2>3 DEF IsList, Fields
  <2>5. \A k \in 1..Len(fs) : fs[k] \in Range(fs)
    BY <2>4, LenProperties DEF Range
  <2> QED  BY <1>1, <1>8, <2>2, <2>4, <2>5 DEF InList
<1> HIDE DEF t, fs
<1>10. ASSUME \A n \in Deep(tree, Len(c) + 1) : Declared(tree)[n] = Declared(tree')[n]
       PROVE  Declared(tree)[c] = Declared(tree')[c]
  <2>1. Len(c) \in Nat
    BY <1>1 DEF IsList
  <2>2. \A k \in 1..Len(fs) : Declared(tree')[fs[k]] = Declared(tree)[fs[k]]
    <3>1. ASSUME NEW k \in 1..Len(fs)  PROVE fs[k] \in Deep(tree, Len(c) + 1)
      <4>1. fs[k] \in DOMAIN tree /\ Len(fs[k]) = Len(c) + 1 /\ Len(c) + 1 \in Nat
        BY <1>1, <1>9, <2>1
      <4> QED  BY <4>1 DEF Deep
    <3> QED  BY <1>10, <3>1
  <2>3. Declared(tree')[c] = <<tree[c].role, Said(tree', tree, c, fs, Len(fs))>>
    <3>1. \A k \in 1..Len(tree'[c].kids) :
            Declared(tree')[tree'[c].kids[k]] = Declared(tree)[tree'[c].kids[k]]
      BY <1>9, <2>2
    <3>2. ASSUME NEW u, Graded(u), c \in DOMAIN u, u[c].kind = "FieldList",
                 \A k \in 1..Len(u[c].kids) : Declared(u)[u[c].kids[k]] = Declared(tree)[u[c].kids[k]]
          PROVE  Declared(u)[c] = <<u[c].role, Said(u, tree, c, u[c].kids, Len(u[c].kids))>>
      BY <3>2, ListDeclares
    <3>3. Declared(tree')[c]
            = <<tree'[c].role, Said(tree', tree, c, tree'[c].kids, Len(tree'[c].kids))>>
      <4>1. Graded(tree') /\ c \in DOMAIN tree'
        BY <1>1
      <4>2. tree'[c].kind = "FieldList"
        BY <1>9
      <4> QED  BY <3>1, <3>2, <4>1, <4>2, ZenonT(60)
    <3> QED  BY <1>9, <3>3
  <2>4. Declared(tree)[c] = <<tree[c].role, Said(tree, tree, c, kids, Len(kids))>>
    BY <1>1, ListDeclares DEF kids
  <2>5. Said(tree', tree, c, fs, Len(fs)) = Said(t, tree, c, fs, Len(fs))
    <3>1. \A k \in 1..Len(fs) : fs[k] = fs[k] /\ tree'[fs[k]].names = t[fs[k]].names
      BY <1>8, <1>9
    <3>2. tree'[c].role = t[c].role /\ Len(fs) \in Nat
      BY <1>8, <1>9
    <3> DEFINE u == tree'
    <3>3. /\ u[c].role = t[c].role /\ Len(fs) \in Nat
          /\ \A k \in 1..Len(fs) : fs[k] = fs[k] /\ u[fs[k]].names = t[fs[k]].names
      BY <3>1, <3>2
    <3> HIDE DEF u
    <3>4. Said(u, tree, c, fs, Len(fs)) = Said(t, tree, c, fs, Len(fs))
      BY ONLY <3>3, SaidSame
    <3> QED  BY <3>4 DEF u
  <2>6. Said(t, tree, c, fs, Len(fs)) = Said(tree, tree, c, kids, Len(kids))
    BY <1>6 DEF MergedSays, t, fs, kids
  <2> QED  BY <2>3, <2>4, <2>5, <2>6
<1>11. \A n \in DOMAIN source : Declared(tree)[n] = Declared(tree')[n]
  <2>1. c \in DOMAIN source /\ \A n \in DOMAIN source : n # c => Alike(tree, tree', n)
    BY <1>1, <1>3
  <2> QED  BY <1>1, <1>10, <2>1, DeclaredStays
<1> QED  BY <1>1, <1>11

------------------------------------------------------------------------------
(* The inductive invariant of FieldsKept *)

\* Every node declares what it did.
DeclaredHeld == \A n \in Places : Declared(tree)[n] = Declared(source)[n]

\* An interface has its methods, and those that had a name have one.
MethodsHeld ==
  \A list \in Nodes(tree, {"FieldList"}) : tree[list].role = "methods" =>
    /\ tree[list].kids = source[list].kids
    /\ \A x \in Range(tree[list].kids) : tree[x].names = <<>> <=> source[x].names = <<>>

\* So did what was put out.
OutputsDeclare == \A k \in 1..Len(outputs) : Declared(outputs[k])[File] = Declared(source)[File]

FieldsInv == DeclaredHeld /\ MethodsHeld /\ OutputsDeclare

\* No interface has methods of one type next to each other on a line.
AreDistinct(t) ==
  \A list \in Nodes(t, {"FieldList"}) : t[list].role = "methods" => Distinct(t, list)

LEMMA FieldsInit == Init => FieldsInv
<1> SUFFICES ASSUME Init  PROVE FieldsInv
  OBVIOUS
<1>1. tree = source /\ outputs = <<>> /\ Len(outputs) = 0
  BY EmptySeq DEF Init
<1> QED  BY <1>1 DEF FieldsInv, DeclaredHeld, MethodsHeld, OutputsDeclare, Nodes

\* What is declared depends on the tree only.
LEMMA FieldsSame ==
  ASSUME FieldsInv, UNCHANGED <<source, tree, outputs>>
  PROVE  FieldsInv'
BY DEF FieldsInv, DeclaredHeld, MethodsHeld, OutputsDeclare, Places, Nodes

\* Trees that are alike declare the same.
LEMMA AlikeTrees ==
  ASSUME SameTree, SameTree', UNCHANGED source, \A n \in Places : Alike(tree, tree', n)
  PROVE  \A n \in Places : Declared(tree)[n] = Declared(tree')[n]
<1>1. /\ Graded(tree) /\ Graded(tree') /\ DOMAIN tree = Places /\ DOMAIN tree' = Places
      /\ DOMAIN tree' = DOMAIN tree
  <2>1. SameAs(source, tree) /\ SameAs(source, tree')
    BY TreeIs, TreeIsNext
  <2> QED  BY <2>1, SameIs DEF Places
<1>2. \A n \in Deep(tree, 0) : Alike(tree, tree', n)
  BY <1>1 DEF Deep
<1>3. 0 \in Nat
  OBVIOUS
<1>4. \A n \in Deep(tree, 0) : Declared(tree)[n] = Declared(tree')[n]
  BY <1>1, <1>2, <1>3, DeclaredSame
<1>5. \A n \in Places : n \in Deep(tree, 0)
  BY <1>1 DEF Deep, Graded
<1> QED  BY <1>4, <1>5

\* An interface's list is as it was: nothing is merged in it.
LEMMA InterfaceStays ==
  ASSUME SameTree, DeclaredHeld, MethodsHeld, \A t \in Files : AreDistinct(t),
         NEW c \in Places, tree[c].kind = "FieldList", tree[c].role = "methods"
  PROVE  /\ mergeAdjacentFields(tree, tree[c].kids).tree = tree
         /\ mergeAdjacentFields(tree, tree[c].kids).fields = tree[c].kids
<1> DEFINE kids == tree[c].kids
<1>1. source \in Files /\ c \in Nodes(source, {"FieldList"}) /\ source[c].role = "methods"
  BY DEF SameTree, Nodes, Places
<1>2. AreDistinct(source)
  BY <1>1
<1>3. Distinct(source, c)
  BY <1>1, <1>2 DEF AreDistinct
<1>4. /\ kids = source[c].kids
      /\ \A x \in Range(kids) : tree[x].names = <<>> <=> source[x].names = <<>>
  BY DEF MethodsHeld, Nodes, SameTree
<1>5. kids \in Seq(Places) /\ Len(kids) \in Nat
  BY KidsAre DEF Fields
<1> HIDE DEF kids
<1>6. \A k \in 1..Len(kids) : kids[k] \in Range(kids) /\ kids[k] \in Places
  BY <1>5, LenProperties, ElementOfSeq DEF Range
<1>7. ASSUME NEW k \in 2..Len(kids)
      PROVE  \/ tree[kids[k - 1]].names = <<>> \/ tree[kids[k]].names = <<>>
             \/ tree[kids[k - 1]].line # tree[kids[k]].line
             \/ Of(tree, kids[k - 1]) # Of(tree, kids[k])
  <2>1. k \in 1..Len(kids) /\ k - 1 \in 1..Len(kids)
    BY <1>5
  <2>2. \/ source[kids[k - 1]].names = <<>> \/ source[kids[k]].names = <<>>
        \/ source[kids[k - 1]].line # source[kids[k]].line
        \/ Of(source, kids[k - 1]) # Of(source, kids[k])
    BY <1>3, <1>4 DEF Distinct
  <2>3. \A x \in Places : tree[x].line = source[x].line /\ Of(tree, x) = Of(source, x)
    BY DEF SameTree, DeclaredHeld, Of
  <2> QED  BY <1>4, <1>6, <2>1, <2>2, <2>3
<1>8. Distinct(tree, c)
  BY <1>7 DEF Distinct, kids
<1>9. IsList(tree, c)
  <2>1. SameAs(source, tree) /\ DOMAIN tree = Places
    BY TreeIs DEF SameTree
  <2> QED  BY <2>1, SameIs
<1> QED  BY <1>8, <1>9, ListStays

\* Merging a list.
LEMMA EnterFieldListFields ==
  ASSUME Inv, Inv', FieldsInv, EnterFieldList, \A t \in Files : AreDistinct(t)
  PROVE  FieldsInv'
<1>1. /\ SameTree /\ OnPath /\ SameTree' /\ DeclaredHeld /\ MethodsHeld /\ OutputsDeclare
      /\ CanEnter({"FieldList"}) /\ Descend /\ UNCHANGED outputs /\ UNCHANGED source
  BY DEF Inv, FieldsInv, EnterFieldList, given
<1>2. Child \in Places /\ tree[Child].kind = "FieldList"
  BY <1>1, ChildIn DEF Kind
<1>3. CASE ~ Groups(Child)
  <2>1. UNCHANGED tree
    BY <1>3 DEF EnterFieldList
  <2> QED  BY <1>1, <2>1, FieldsSame
<1>4. CASE Groups(Child) /\ tree[Child].role = "methods"
  <2>1. LET merged == mergeAdjacentFields(tree, tree[Child].kids)
        IN  tree' = [merged.tree EXCEPT ![Child].kids = merged.fields]
    BY <1>4 DEF EnterFieldList
  <2>2. tree' = [tree EXCEPT ![Child].kids = tree[Child].kids]
    BY <1>1, <1>2, <1>4, <2>1, InterfaceStays
  <2>3. UNCHANGED tree
    <3>1. tree \in [Places -> NodesOver(Places)] /\ tree[Child] \in NodesOver(Places)
      BY <1>1, <1>2 DEF SameTree
    <3>2. [tree[Child] EXCEPT !.kids = tree[Child].kids] = tree[Child]
      BY <3>1 DEF NodesOver
    <3> QED  BY <2>2, <3>1, <3>2
  <2> QED  BY <1>1, <2>3, FieldsSame
<1>5. CASE Groups(Child) /\ tree[Child].role # "methods"
  <2>1. LET merged == mergeAdjacentFields(tree, tree[Child].kids)
        IN  tree' = [merged.tree EXCEPT ![Child].kids = merged.fields]
    BY <1>5 DEF EnterFieldList
  <2>2. /\ \A x \in Places : x # Child => tree'[x].kids = tree[x].kids
        /\ \A x \in Places : x \notin Range(tree[Child].kids) => tree'[x].names = tree[x].names
    BY <1>1, <1>2, <2>1, TreeMerged
  <2>3. \A n \in Places : Declared(tree')[n] = Declared(tree)[n]
    BY <1>1, <1>2, <1>5, <2>1, MergedDeclares
  <2>4. DeclaredHeld'
    BY <1>1, <2>3 DEF DeclaredHeld, Places
  <2>5. ASSUME NEW list \in Places, tree[list].kind = "FieldList", tree[list].role = "methods"
        PROVE  /\ tree'[list].kids = source[list].kids
               /\ \A x \in Range(tree'[list].kids) : tree'[x].names = <<>> <=> source[x].names = <<>>
    <3>1. list # Child
      BY <1>5, <2>5
    <3>2. \A x \in Range(tree[list].kids) : x \in Places /\ x \notin Range(tree[Child].kids)
      BY <1>1, <1>2, <2>5, <3>1, ParentIs, KidsAre
    <3>3. /\ tree[list].kids = source[list].kids
          /\ \A x \in Range(tree[list].kids) : tree[x].names = <<>> <=> source[x].names = <<>>
      BY <1>1, <2>5 DEF MethodsHeld, Nodes, SameTree
    <3> QED  BY <2>2, <3>1, <3>2, <3>3
  <2>6. \A x \in Places : tree'[x].kind = tree[x].kind /\ tree'[x].role = tree[x].role
    BY <1>1 DEF SameTree, Places
  <2>7. DOMAIN tree' = Places /\ source' = source
    BY <1>1 DEF SameTree, Places
  <2>8. MethodsHeld'
    BY <2>5, <2>6, <2>7 DEF MethodsHeld, Nodes
  <2> QED  BY <1>1, <2>4, <2>8 DEF FieldsInv, OutputsDeclare
<1> QED  BY <1>3, <1>4, <1>5

\* Nothing declared is in a return.
LEMMA EnterReturnFields ==
  ASSUME Inv, Inv', FieldsInv, EnterReturn
  PROVE  FieldsInv'
<1>1. /\ SameTree /\ OnPath /\ FuncStack /\ SameTree' /\ DeclaredHeld /\ MethodsHeld
      /\ OutputsDeclare /\ CanEnter({"ReturnStmt"}) /\ UNCHANGED outputs /\ UNCHANGED source
  BY DEF Inv, FieldsInv, EnterReturn, given
<1>2. Child \in Places /\ tree[Child].kind = "ReturnStmt" /\ source[Child].kind = "ReturnStmt"
  BY <1>1, ChildIn DEF Kind, SameTree
<1>3. /\ \A x \in Places : tree'[x].kids = tree[x].kids
      /\ \A x \in Places : x # Child => tree'[x] = tree[x]
  <2>1. CASE tree[Child].names = <<>> /\ "clothe_returns" \in extra
    <3>1. Clothes(tree, Last(parentFuncTypes)) \in Seq(STRING)
      BY <1>1, Innermost, ClothesTyped
    <3>2. tree' = [tree EXCEPT ![Child].names = Clothes(tree, Last(parentFuncTypes))]
      BY <2>1 DEF EnterReturn
    <3> QED  BY <1>1, <1>2, <3>1, <3>2, TreeNamed
  <2>2. CASE ~ (tree[Child].names = <<>> /\ "clothe_returns" \in extra)
    BY <2>2 DEF EnterReturn
  <2> QED  BY <2>1, <2>2
<1>4. ASSUME NEW n \in Places, tree[n].kind = "FieldList", NEW x \in Range(tree[n].kids)
      PROVE  x \in Places /\ tree'[x].names = tree[x].names
  <2>1. x \in Places /\ x # Child
    BY <1>1, <1>2, <1>4, FieldIs
  <2> QED  BY <1>3, <2>1
<1>5. ASSUME NEW n \in Places  PROVE Alike(tree, tree', n)
  <2>1. tree[n].kind = "Ident" => tree'[n].names = tree[n].names
    BY <1>2, <1>3
  <2> QED  BY <1>1, <1>3, <1>4, <2>1, NamesAlike
<1>6. DeclaredHeld'
  <2>1. \A n \in Places : Declared(tree)[n] = Declared(tree')[n]
    BY <1>1, <1>5, AlikeTrees
  <2> QED  BY <1>1, <2>1 DEF DeclaredHeld, Places
<1>7. MethodsHeld'
  <2>1. \A x \in Places : tree'[x].kind = tree[x].kind /\ tree'[x].role = tree[x].role
    BY <1>1 DEF SameTree, Places
  <2>2. DOMAIN tree' = Places /\ DOMAIN tree = Places /\ source' = source
    BY <1>1 DEF SameTree, Places
  <2> QED  BY <1>1, <1>3, <1>4, <2>1, <2>2 DEF MethodsHeld, Nodes
<1> QED  BY <1>1, <1>6, <1>7 DEF FieldsInv, OutputsDeclare

\* What is read again of a name.
LEMMA NamesReread ==
  ASSUME SameTree, tree' = Reread(tree), NEW list \in Places, tree[list].kind = "FieldList",
         tree[list].role = "methods", NEW x \in Range(tree[list].kids)
  PROVE  tree'[x].names = IF tree[x].names = <<>> THEN <<>> ELSE <<tree[x].names[1]>>
<1>1. tree \in [Places -> NodesOver(Places)] /\ DOMAIN tree = Places /\ x \in Places
  BY KidsAre DEF SameTree
<1>2. list \in Nodes(tree, {"FieldList"})
  BY <1>1 DEF Nodes
<1>3. tree'[x] = [tree[x] EXCEPT !.names = IF @ = <<>> THEN @ ELSE <<@[1]>>]
  BY <1>1, <1>2 DEF Reread
<1>4. tree[x] \in NodesOver(Places)
  BY <1>1
<1> QED  BY <1>3, <1>4 DEF NodesOver

\* What is read again declares what was printed.
LEMMA FinishFields ==
  ASSUME Inv, Inv', ReturnsInv, FieldsInv, Finish
  PROVE  FieldsInv'
<1>1. /\ SameTree /\ SameTree' /\ DeclaredHeld /\ MethodsHeld /\ OutputsDeclare /\ Outputs
      /\ UNCHANGED source /\ outputs' = Append(outputs, tree)
  BY DEF Inv, FieldsInv, ReturnsInv, Finish, given
<1>2. OutputsDeclare'
  <2>1. tree \in [Places -> NodesOver(Places)] /\ outputs \in Seq([Places -> NodesOver(Places)])
    BY <1>1 DEF SameTree, Outputs
  <2>2. /\ Len(outputs) \in Nat
        /\ Len(outputs') = Len(outputs) + 1 /\ outputs'[Len(outputs) + 1] = tree
        /\ \A k \in 1..Len(outputs) : outputs'[k] = outputs[k]
    BY <1>1, <2>1, AppendProperties, LenProperties
  <2>3. Declared(tree)[File] = Declared(source)[File]
    <3>1. File \in Places
      BY <1>1, FilesAssumption DEF SameTree, IsTree, Places
    <3> QED  BY <1>1, <3>1 DEF DeclaredHeld
  <2>4. ASSUME NEW k \in 1..Len(outputs')
        PROVE  Declared(outputs'[k])[File] = Declared(source)[File]
    <3>1. CASE k \in 1..Len(outputs)
      BY <1>1, <2>2, <3>1 DEF OutputsDeclare
    <3>2. CASE k = Len(outputs) + 1
      BY <2>2, <2>3, <3>2
    <3>3. k \in 1..Len(outputs) \/ k = Len(outputs) + 1
      BY <2>2
    <3> QED  BY <3>1, <3>2, <3>3
  <2> QED  BY <1>1, <2>4 DEF OutputsDeclare
<1>3. CASE outputs = <<>>
  <2>1. tree' = Reread(tree) /\ DOMAIN tree = Places /\ DOMAIN tree' = Places /\ source' = source
    BY <1>1, <1>3 DEF Finish, SameTree, Places
  <2>2. /\ \A x \in Places : tree'[x].kids = tree[x].kids
        /\ \A x \in Places :
             (\A list \in Nodes(tree, {"FieldList"}) :
                tree[list].role = "methods" => x \notin Range(tree[list].kids))
             => tree'[x].names = tree[x].names
    BY <1>1, <2>1, TreeReread
  <2>3. \A x \in Places : tree'[x].kind = tree[x].kind /\ tree'[x].role = tree[x].role
    BY <1>1 DEF SameTree, Places
  <2>4. ASSUME NEW list \in Places, tree[list].kind = "FieldList", tree[list].role = "methods",
               NEW x \in Range(tree[list].kids)
        PROVE  /\ tree'[x].names = <<>> <=> tree[x].names = <<>>
               /\ tree[x].names # <<>> => tree'[x].names[1] = tree[x].names[1]
    <3>1. tree'[x].names = IF tree[x].names = <<>> THEN <<>> ELSE <<tree[x].names[1]>>
      BY <1>1, <2>1, <2>4, NamesReread
    <3>2. \A a : <<a>> # <<>> /\ <<a>>[1] = a
      OBVIOUS
    <3> QED  BY <3>1, <3>2
  <2>5. ASSUME NEW list \in Places, tree[list].kind = "FieldList", tree[list].role # "methods",
               NEW x \in Range(tree[list].kids)
        PROVE  tree'[x].names = tree[x].names
    <3>1. x \in Places
      BY <1>1, <2>5, FieldIs
    <3>2. \A other \in Nodes(tree, {"FieldList"}) :
            tree[other].role = "methods" => x \notin Range(tree[other].kids)
      BY <1>1, <2>1, <2>5, ParentIs DEF Nodes
    <3> QED  BY <2>2, <3>1, <3>2
  <2>6. ASSUME NEW n \in Places  PROVE Alike(tree, tree', n)
    <3>1. CASE tree[n].kind = "FieldList" /\ tree[n].role = "methods"
      <4>1. ASSUME NEW k \in 1..Len(tree[n].kids)
            PROVE  ShownNames(tree, n, tree[n].kids[k]) = ShownNames(tree', n, tree[n].kids[k])
        <5> DEFINE x == tree[n].kids[k]
        <5>1. x \in Range(tree[n].kids)
          <6>1. tree[n].kids \in Seq(Places)
            BY <1>1, KidsAre DEF Fields
          <6> QED  BY <6>1, LenProperties DEF Range
        <5> HIDE DEF x
        <5>2. tree'[x].names = IF tree[x].names = <<>> THEN <<>> ELSE <<tree[x].names[1]>>
          BY <1>1, <2>1, <3>1, <5>1, NamesReread
        <5>3. /\ tree'[x].names = <<>> <=> tree[x].names = <<>>
              /\ tree[x].names # <<>> => tree'[x].names[1] = tree[x].names[1]
          BY <2>4, <3>1, <5>1
        <5>4. ShownNames(tree, n, x) = ShownNames(tree', n, x)
          BY <2>3, <3>1, <5>2, <5>3 DEF ShownNames
        <5> QED  BY <5>4 DEF x
      <4> QED  BY <2>2, <2>3, <3>1, <4>1 DEF Alike
    <3>2. CASE ~ (tree[n].kind = "FieldList" /\ tree[n].role = "methods")
      <4>1. tree[n].kind = "Ident" => tree'[n].names = tree[n].names
        <5>1. \A list \in Nodes(tree, {"FieldList"}) :
                tree[n].kind = "Ident" => n \notin Range(tree[list].kids)
          BY <1>1, <2>1, FieldIs DEF Nodes, SameTree
        <5> QED  BY <2>2, <5>1
      <4>2. tree[n].kind = "FieldList" =>
              \A x \in Range(tree[n].kids) : tree'[x].names = tree[x].names
        BY <2>5, <3>2
      <4> QED  BY <1>1, <2>2, <4>1, <4>2, NamesAlike
    <3> QED  BY <3>1, <3>2
  <2>7. DeclaredHeld'
    <3>1. \A n \in Places : Declared(tree)[n] = Declared(tree')[n]
      BY <1>1, <2>6, AlikeTrees
    <3> QED  BY <1>1, <3>1 DEF DeclaredHeld, Places
  <2>8. MethodsHeld'
    BY <1>1, <2>1, <2>2, <2>3, <2>4 DEF MethodsHeld, Nodes
  <2> QED  BY <1>2, <2>7, <2>8 DEF FieldsInv
<1>4. CASE outputs # <<>>
  <2>1. UNCHANGED <<source, tree>>
    BY <1>1, <1>4 DEF Finish
  <2>2. DeclaredHeld' /\ MethodsHeld'
    BY <1>1, <2>1 DEF DeclaredHeld, MethodsHeld, Places, Nodes
  <2> QED  BY <1>2, <2>2 DEF FieldsInv
<1> QED  BY <1>3, <1>4

\* Every step keeps them.
LEMMA FieldsStep ==
  ASSUME \A t \in Files : AreDistinct(t)
  PROVE  Inv /\ Inv' /\ ReturnsInv /\ FieldsInv /\ [Next]_vars => FieldsInv'
<1> SUFFICES ASSUME Inv, Inv', ReturnsInv, FieldsInv, [Next]_vars  PROVE FieldsInv'
  OBVIOUS
<1>1. CASE EnterFieldList
  BY <1>1, EnterFieldListFields
<1>2. CASE EnterReturn
  BY <1>2, EnterReturnFields
<1>3. CASE Finish
  BY <1>3, FinishFields
<1>4. CASE EnterFunc \/ EnterBlock \/ EnterOther
  <2>1. UNCHANGED <<source, tree, outputs>>
    BY <1>4 DEF EnterFunc, EnterBlock, EnterOther, given
  <2> QED  BY <2>1, FieldsSame
<1>5. CASE LeaveFunc \/ LeaveFuncType \/ LeaveBlock \/ LeaveOther
  <2>1. UNCHANGED <<source, tree, outputs>>
    BY <1>5 DEF LeaveFunc, LeaveFuncType, LeaveBlock, LeaveOther, given
  <2> QED  BY <2>1, FieldsSame
<1>6. CASE Done \/ UNCHANGED vars
  <2>1. UNCHANGED <<source, tree, outputs>>
    BY <1>6 DEF Done, vars, given
  <2> QED  BY <2>1, FieldsSame
<1> QED  BY <1>1, <1>2, <1>3, <1>4, <1>5, <1>6 DEF Next

\* Formatting declares what was declared, in both runs (format.go:147-149): however
\* fields are grouped (format.go:843-848, 1296-1350) and returns are clothed, no
\* parameter, result, method or type of the file is lost, renamed or given another
\* type.  No interface is to have methods of one type next to each other on a line:
\* those are merged too, and the printer shows the first of them.
THEOREM FieldsStay ==
  ASSUME \A t \in Files : AreDistinct(t)
  PROVE  Spec => []FieldsKept
<1>1. FieldsInv => FieldsKept
  BY DEF FieldsInv, OutputsDeclare, FieldsKept
<1>2. Inv /\ Inv' /\ ReturnsInv /\ FieldsInv /\ [Next]_vars => FieldsInv'
  BY FieldsStep
<1> QED  BY <1>1, <1>2, InvHolds, ReturnsInit, ReturnsStep, FieldsInit, PTL DEF Spec

===============================================================================
