------------------------------ MODULE WalkProofs ------------------------------
(***************************************************************************)
(* Proofs about the walk of the arguments (gofmt.go:563-594), for trees of *)
(* any files and directories, any names, any directives and arguments: a   *)
(* walk adds what is wanted (AddsWanted) and fails only for what it gets   *)
(* to (FailsOnlyIfReached).                                                *)
(*                                                                         *)
(* First, that matching the text of a path with that of a directive is     *)
(* matching their names (Agree): no name has a slash, so that the slashes  *)
(* normalizePath puts around both are between names.  Then the invariant:  *)
(* whatever the walk of an argument should reach is beneath a path it has  *)
(* yet to visit, or has been visited.                                      *)
(***************************************************************************)
EXTENDS Walk, TLAPS, WellFoundedInduction, SequenceTheorems

------------------------------------------------------------------------------
(* Beginnings and ends of sequences *)

\* A set of natural numbers has a least one.
LEMMA LeastNatural ==
  ASSUME NEW S, S \subseteq Nat, S # {}
  PROVE  \E x \in S : \A y \in S : x <= y
<1>1. PICK x \in S : \A y \in S : ~ (<<y, x>> \in OpToRel(<, Nat))
  BY NatLessThanWellFounded, WFMin
<1>2. \A y \in S : ~ (y < x)
  BY <1>1 DEF OpToRel
<1>3. \A y \in S : x <= y
  BY <1>2
<1> QED  BY <1>3

\* A part of a sequence, place by place.
LEMMA PartIs ==
  ASSUME NEW S, NEW s \in Seq(S), NEW m \in 1..(Len(s) + 1), NEW n \in 0..Len(s), m <= n + 1
  PROVE  /\ SubSeq(s, m, n) \in Seq(S)
         /\ Len(SubSeq(s, m, n)) = n - m + 1
         /\ \A i \in 1..(n - m + 1) : SubSeq(s, m, n)[i] = s[m + i - 1]
<1>1. Len(s) \in Nat /\ \A i \in m..n : s[i] \in S
  BY ElementOfSeq, LenProperties
<1>2. m \in Int /\ n \in Int
  BY <1>1
<1>3. /\ SubSeq(s, m, n) \in Seq(S)
      /\ Len(SubSeq(s, m, n)) = IF m <= n THEN n - m + 1 ELSE 0
      /\ \A i \in 1..(n - m + 1) : SubSeq(s, m, n)[i] = s[m + i - 1]
  BY <1>1, <1>2, SubSeqProperties
<1> QED  BY <1>2, <1>3

\* The characters of paths.
Chars == STRING \union {"/", "."}

\* A sequence of one thing.
LEMMA SingleIs ==
  ASSUME NEW S, NEW c \in S
  PROVE  <<c>> \in Seq(S) /\ Len(<<c>>) = 1 /\ <<c>>[1] = c
OBVIOUS

\* strings.HasPrefix, place by place.
LEMMA PrefixIs ==
  ASSUME NEW S, NEW s \in Seq(S), NEW p \in Seq(S)
  PROVE  HasPrefix(s, p) <=> Len(p) <= Len(s) /\ \A i \in 1..Len(p) : s[i] = p[i]
<1> DEFINE n == Len(p)
<1>1. n \in Nat /\ Len(s) \in Nat
  BY LenProperties
<1>2. CASE n <= Len(s)
  <2>1. n \in 0..Len(s) /\ 1 \in 1..(Len(s) + 1) /\ 1 <= n + 1
    BY <1>1, <1>2
  <2>2. /\ SubSeq(s, 1, n) \in Seq(S) /\ Len(SubSeq(s, 1, n)) = n - 1 + 1
        /\ \A i \in 1..(n - 1 + 1) : SubSeq(s, 1, n)[i] = s[1 + i - 1]
    BY <2>1, PartIs
  <2> HIDE DEF n
  <2>3. Len(SubSeq(s, 1, n)) = n /\ \A i \in 1..n : SubSeq(s, 1, n)[i] = s[i]
    BY <1>1, <2>2
  <2>4. SubSeq(s, 1, n) = p <=> \A i \in 1..n : s[i] = p[i]
    <3>1. ASSUME \A i \in 1..n : s[i] = p[i]  PROVE SubSeq(s, 1, n) = p
      <4>1. Len(SubSeq(s, 1, n)) = Len(p)
        BY <2>3 DEF n
      <4>2. \A i \in 1..Len(SubSeq(s, 1, n)) : SubSeq(s, 1, n)[i] = p[i]
        BY <2>3, <3>1
      <4> QED  BY <2>2, <4>1, <4>2, SeqEqual
    <3>2. ASSUME SubSeq(s, 1, n) = p  PROVE \A i \in 1..n : s[i] = p[i]
      BY <2>3, <3>2
    <3> QED  BY <3>1, <3>2
  <2> QED  BY <1>2, <2>4 DEF HasPrefix, n
<1>3. CASE ~ (n <= Len(s))
  BY <1>3 DEF HasPrefix
<1> QED  BY <1>2, <1>3

\* strings.HasSuffix, place by place.
LEMMA SuffixIs ==
  ASSUME NEW S, NEW s \in Seq(S), NEW p \in Seq(S)
  PROVE  HasSuffix(s, p) <=> Len(p) <= Len(s) /\ \A i \in 1..Len(p) : s[Len(s) - Len(p) + i] = p[i]
<1> DEFINE n == Len(p)
           l == Len(s)
           e == SubSeq(s, l - n + 1, l)
<1>1. n \in Nat /\ l \in Nat
  BY LenProperties
<1>2. CASE n <= l
  <2>1. l \in 0..Len(s) /\ l - n + 1 \in 1..(Len(s) + 1) /\ l - n + 1 <= l + 1
    BY <1>1, <1>2
  <2>2. /\ e \in Seq(S) /\ Len(e) = l - (l - n + 1) + 1
        /\ \A i \in 1..(l - (l - n + 1) + 1) : e[i] = s[l - n + 1 + i - 1]
    BY <2>1, PartIs, Zenon
  <2>a. e = SubSeq(s, l - n + 1, l)
    OBVIOUS
  <2> HIDE DEF n, l, e
  <2>3. Len(e) = n /\ \A i \in 1..n : e[i] = s[l - n + i]
    <3>1. l - (l - n + 1) + 1 = n /\ \A i \in 1..n : l - n + 1 + i - 1 = l - n + i
      BY <1>1
    <3> QED  BY <2>2, <3>1
  <2>4. e = p <=> \A i \in 1..n : s[l - n + i] = p[i]
    <3>1. ASSUME \A i \in 1..n : s[l - n + i] = p[i]  PROVE e = p
      <4>1. Len(e) = Len(p)
        BY <2>3 DEF n
      <4>2. \A i \in 1..Len(e) : e[i] = p[i]
        BY <2>3, <3>1
      <4> QED  BY <2>2, <4>1, <4>2, SeqEqual
    <3>2. ASSUME e = p  PROVE \A i \in 1..n : s[l - n + i] = p[i]
      BY <2>3, <3>2
    <3> QED  BY <3>1, <3>2
  <2> QED  BY <1>2, <2>4 DEF HasSuffix, n, l, e
<1>3. CASE ~ (n <= l)
  BY <1>3 DEF HasSuffix
<1> QED  BY <1>2, <1>3

\* Two sequences with a slash between, place by place.
LEMMA JoinIs ==
  ASSUME NEW A \in Seq(Chars), NEW x \in Seq(Chars)
  PROVE  LET s == A \o <<"/">> \o x IN
         /\ s \in Seq(Chars)
         /\ Len(s) = Len(A) + 1 + Len(x)
         /\ \A i \in 1..Len(A) : s[i] = A[i]
         /\ s[Len(A) + 1] = "/"
         /\ \A i \in 1..Len(x) : s[Len(A) + 1 + i] = x[i]
<1> DEFINE slash == <<"/">>
           B == A \o slash
           s == B \o x
           a == Len(A)
           b == Len(x)
<1>1. slash \in Seq(Chars) /\ Len(slash) = 1 /\ slash[1] = "/"
  <2>1. "/" \in Chars
    BY DEF Chars
  <2> QED  BY <2>1, SingleIs
<1>2. a \in Nat /\ b \in Nat
  BY LenProperties
<1> HIDE DEF slash
<1> HIDE DEF B
<1>3. /\ B \in Seq(Chars) /\ Len(B) = a + 1
      /\ \A i \in 1..(a + 1) : B[i] = IF i <= a THEN A[i] ELSE slash[i - a]
  <2>1. /\ B \in Seq(Chars)
        /\ Len(B) = Len(A) + Len(slash)
        /\ \A i \in 1..(Len(A) + Len(slash)) :
              B[i] = IF i <= Len(A) THEN A[i] ELSE slash[i - Len(A)]
    BY <1>1, ConcatProperties, Zenon DEF B
  <2> QED  BY <1>1, <2>1, Zenon
<1>4. /\ s \in Seq(Chars) /\ Len(s) = Len(B) + b
      /\ \A i \in 1..(Len(B) + b) : s[i] = IF i <= Len(B) THEN B[i] ELSE x[i - Len(B)]
  <2>1. B \in Seq(Chars)
    BY <1>3
  <2> QED  BY <2>1, ConcatProperties, Zenon
<1>a. s = A \o <<"/">> \o x
  BY DEF B, slash
<1> HIDE DEF s, a, b
<1>5. s \in Seq(Chars) /\ Len(s) = a + 1 + b
  BY <1>3, <1>4
<1>6. \A i \in 1..(a + 1 + b) : s[i] = IF i <= a + 1 THEN B[i] ELSE x[i - (a + 1)]
  <2>1. Len(B) = a + 1
    BY <1>3
  <2> QED  BY <1>4, <2>1, Zenon
<1>7. \A i \in 1..a : s[i] = A[i]
  BY <1>2, <1>3, <1>6
<1>8. s[a + 1] = "/"
  <2>1. a + 1 \in 1..(a + 1) /\ a + 1 \in 1..(a + 1 + b) /\ ~ (a + 1 <= a) /\ a + 1 - a = 1
    BY <1>2
  <2>2. s[a + 1] = B[a + 1] /\ B[a + 1] = slash[a + 1 - a]
    <3>1. s[a + 1] = B[a + 1]
      BY <1>2, <1>6, <2>1
    <3>2. B[a + 1] = slash[a + 1 - a]
      <4>1. B[a + 1] = IF a + 1 <= a THEN A[a + 1] ELSE slash[a + 1 - a]
        <5>1. a + 1 \in 1..(a + 1)
          BY <2>1
        <5> QED  BY <1>2, <1>3, <5>1
      <4> QED  BY <2>1, <4>1
    <3> QED  BY <3>1, <3>2
  <2> QED  BY <1>1, <2>1, <2>2
<1>9. ASSUME NEW i \in 1..b  PROVE s[a + 1 + i] = x[i]
  <2>1. a + 1 + i \in 1..(a + 1 + b) /\ ~ (a + 1 + i <= a + 1) /\ a + 1 + i - (a + 1) = i
    BY <1>2
  <2>2. s[a + 1 + i] = IF a + 1 + i <= a + 1 THEN B[a + 1 + i] ELSE x[a + 1 + i - (a + 1)]
    <3>1. a + 1 + i \in 1..(a + 1 + b)
      BY <2>1
    <3> QED  BY <1>2, <1>6, <3>1
  <2> QED  BY <2>1, <2>2
<1> QED  BY <1>5, <1>7, <1>8, <1>9, <1>a, Zenon DEF a, b

\* What ends in a slash and a name, and what it is the end of, have the same name.
LEMMA SameName ==
  ASSUME NEW A \in Seq(Chars), NEW B \in Seq(Chars),
         NEW x \in Seq(Chars), NEW y \in Seq(Chars),
         "/" \notin Range(x), "/" \notin Range(y)
  PROVE  HasSuffix(A \o <<"/">> \o x, B \o <<"/">> \o y) <=> x = y /\ HasSuffix(A, B)
<1> DEFINE s == A \o <<"/">> \o x
           p == B \o <<"/">> \o y
           la == Len(A)
           lb == Len(B)
           lx == Len(x)
           ly == Len(y)
<1>1. la \in Nat /\ lb \in Nat /\ lx \in Nat /\ ly \in Nat
  BY LenProperties
<1>2. /\ s \in Seq(Chars) /\ Len(s) = la + 1 + lx
      /\ \A i \in 1..la : s[i] = A[i]
      /\ s[la + 1] = "/"
      /\ \A i \in 1..lx : s[la + 1 + i] = x[i]
  BY JoinIs, Zenon
<1>3. /\ p \in Seq(Chars) /\ Len(p) = lb + 1 + ly
      /\ \A i \in 1..lb : p[i] = B[i]
      /\ p[lb + 1] = "/"
      /\ \A i \in 1..ly : p[lb + 1 + i] = y[i]
  BY JoinIs, Zenon
<1>4. (\A i \in 1..lx : x[i] # "/") /\ (\A i \in 1..ly : y[i] # "/")
  <2>1. DOMAIN x = 1..lx /\ DOMAIN y = 1..ly
    BY LenProperties
  <2> QED  BY <2>1 DEF Range
<1>a. HasSuffix(s, p) <=>
        Len(p) <= Len(s) /\ \A i \in 1..Len(p) : s[Len(s) - Len(p) + i] = p[i]
  <2>1. s \in Seq(Chars) /\ p \in Seq(Chars)
    BY <1>2, <1>3
  <2> HIDE DEF s, p
  <2> QED  BY <2>1, SuffixIs
<1>b. HasSuffix(A, B) <=> lb <= la /\ \A i \in 1..lb : A[la - lb + i] = B[i]
  BY SuffixIs
<1>c. x = y <=> lx = ly /\ \A i \in 1..lx : x[i] = y[i]
  BY SeqEqual
<1> HIDE DEF s, p, la, lb, lx, ly
<1>5. ASSUME HasSuffix(s, p)  PROVE x = y /\ HasSuffix(A, B)
  <2>1. /\ lb + 1 + ly <= la + 1 + lx
        /\ \A i \in 1..(lb + 1 + ly) : s[la + 1 + lx - (lb + 1 + ly) + i] = p[i]
    <3>1. Len(p) = lb + 1 + ly /\ Len(s) = la + 1 + lx
      BY <1>2, <1>3
    <3>2. Len(p) <= Len(s) /\ \A i \in 1..Len(p) : s[Len(s) - Len(p) + i] = p[i]
      BY <1>5, <1>a
    <3>3. lb + 1 + ly <= la + 1 + lx
      BY <3>1, <3>2
    <3>4. ASSUME NEW i \in 1..(lb + 1 + ly)
          PROVE  s[la + 1 + lx - (lb + 1 + ly) + i] = p[i]
      <4>1. i \in 1..Len(p)
        BY <3>1
      <4>2. s[Len(s) - Len(p) + i] = p[i]
        BY <3>2, <4>1
      <4> QED  BY <1>1, <3>1, <4>2
    <3> QED  BY <3>3, <3>4
  <2>2. ASSUME lx < ly  PROVE FALSE
    <3> DEFINE i == ly - lx
               j == lb + 1 + i
    <3>1. i \in 1..ly /\ j \in 1..(lb + 1 + ly) /\ la + 1 + lx - (lb + 1 + ly) + j = la + 1
      BY <1>1, <2>2
    <3>2. s[la + 1] = p[j]
      BY <2>1, <3>1
    <3>3. p[j] = y[i]
      BY <1>3, <3>1
    <3> QED  BY <1>2, <1>4, <3>1, <3>2, <3>3
  <2>3. ASSUME ly < lx  PROVE FALSE
    <3> DEFINE i == lx - ly
               j == lb + 1
    <3>1. i \in 1..lx /\ j \in 1..(lb + 1 + ly) /\ la + 1 + lx - (lb + 1 + ly) + j = la + 1 + i
      BY <1>1, <2>3
    <3>2. s[la + 1 + i] = p[j]
      BY <2>1, <3>1
    <3>3. s[la + 1 + i] = x[i]
      BY <1>2, <3>1
    <3> QED  BY <1>3, <1>4, <3>1, <3>2, <3>3
  <2>4. lx = ly /\ lb <= la
    BY <1>1, <2>1, <2>2, <2>3
  <2>5. ASSUME NEW i \in 1..lx  PROVE x[i] = y[i]
    <3>1. lb + 1 + i \in 1..(lb + 1 + ly)
          /\ la + 1 + lx - (lb + 1 + ly) + (lb + 1 + i) = la + 1 + i
      BY <1>1, <2>4
    <3>2. s[la + 1 + i] = p[lb + 1 + i]
      BY <2>1, <3>1
    <3> QED  BY <1>2, <1>3, <2>4, <3>2
  <2>6. ASSUME NEW i \in 1..lb  PROVE A[la - lb + i] = B[i]
    <3>1. i \in 1..(lb + 1 + ly) /\ la + 1 + lx - (lb + 1 + ly) + i = la - lb + i
          /\ la - lb + i \in 1..la
      BY <1>1, <2>4
    <3>2. s[la - lb + i] = p[i]
      BY <2>1, <3>1
    <3> QED  BY <1>2, <1>3, <3>1, <3>2
  <2> QED  BY <1>b, <1>c, <2>4, <2>5, <2>6
<1>6. ASSUME x = y, HasSuffix(A, B)  PROVE HasSuffix(s, p)
  <2>1. lx = ly /\ (\A i \in 1..lx : x[i] = y[i])
    BY <1>c, <1>6
  <2>2. lb <= la /\ (\A i \in 1..lb : A[la - lb + i] = B[i])
    BY <1>b, <1>6
  <2>3. lb + 1 + ly <= la + 1 + lx
    BY <1>1, <2>1, <2>2
  <2>4. ASSUME NEW i \in 1..(lb + 1 + ly)  PROVE s[la + 1 + lx - (lb + 1 + ly) + i] = p[i]
    <3>1. i \in Int /\ la + 1 + lx - (lb + 1 + ly) + i = la - lb + i
      BY <1>1, <2>1
    <3>2. CASE i \in 1..lb
      <4>1. la - lb + i \in 1..la
        BY <1>1, <2>2, <3>2
      <4>2. s[la - lb + i] = A[la - lb + i]
        BY <1>2, <4>1
      <4> QED  BY <1>3, <2>2, <3>1, <3>2, <4>2
    <3>3. CASE i = lb + 1
      <4>1. la - lb + i = la + 1
        BY <1>1, <3>3
      <4> QED  BY <1>2, <1>3, <3>1, <3>3, <4>1
    <3>4. CASE i \in (lb + 2)..(lb + 1 + ly)
      <4> DEFINE j == i - (lb + 1)
      <4>1. j \in 1..lx /\ j \in 1..ly /\ la - lb + i = la + 1 + j /\ i = lb + 1 + j
        BY <1>1, <2>1, <3>1, <3>4
      <4>2. s[la + 1 + j] = x[j] /\ p[lb + 1 + j] = y[j]
        BY <1>2, <1>3, <4>1
      <4>3. x[j] = y[j]
        BY <1>6
      <4> HIDE DEF j
      <4> QED  BY <3>1, <4>1, <4>2, <4>3
    <3> QED  BY <1>1, <3>1, <3>2, <3>3, <3>4
  <2>5. Len(p) = lb + 1 + ly /\ Len(s) = la + 1 + lx
    BY <1>2, <1>3
  <2>6. Len(p) <= Len(s)
    BY <2>3, <2>5
  <2>7. ASSUME NEW i \in 1..Len(p)  PROVE s[Len(s) - Len(p) + i] = p[i]
    <3>1. i \in 1..(lb + 1 + ly)
      BY <2>5
    <3>2. s[la + 1 + lx - (lb + 1 + ly) + i] = p[i]
      BY <2>4, <3>1
    <3> QED  BY <1>1, <2>5, <3>2
  <2> QED  BY <1>a, <2>6, <2>7
<1> QED  BY <1>5, <1>6 DEF s, p

------------------------------------------------------------------------------
(* Front and last *)

\* All but the last, and the last.
LEMMA FrontIs ==
  ASSUME NEW S, NEW s \in Seq(S), s # <<>>
  PROVE  /\ Front(s) \in Seq(S) /\ Len(s) \in Nat /\ Len(s) >= 1
         /\ Len(Front(s)) = Len(s) - 1
         /\ \A i \in 1..(Len(s) - 1) : Front(s)[i] = s[i]
         /\ Last(s) = s[Len(s)] /\ Last(s) \in S
<1> DEFINE n == Len(s) - 1
<1>1. Len(s) \in Nat /\ Len(s) >= 1
  BY EmptySeq
<1>2. 1 \in 1..(Len(s) + 1) /\ n \in 0..Len(s) /\ 1 <= n + 1
  BY <1>1
<1>3. /\ SubSeq(s, 1, n) \in Seq(S) /\ Len(SubSeq(s, 1, n)) = n - 1 + 1
      /\ \A i \in 1..(n - 1 + 1) : SubSeq(s, 1, n)[i] = s[1 + i - 1]
  BY <1>2, PartIs
<1>4. n - 1 + 1 = n /\ \A i \in 1..n : 1 + i - 1 = i
  BY <1>1
<1>5. Len(SubSeq(s, 1, n)) = n /\ \A i \in 1..n : SubSeq(s, 1, n)[i] = s[i]
  BY <1>3, <1>4
<1>6. s[Len(s)] \in S
  BY <1>1, ElementOfSeq
<1> QED  BY <1>1, <1>3, <1>5, <1>6 DEF Front, Last

\* A sequence ends in another if its last is the other's, and so on.
LEMMA SuffixStep ==
  ASSUME NEW S, NEW s \in Seq(S), NEW p \in Seq(S), s # <<>>, p # <<>>
  PROVE  HasSuffix(s, p) <=> Last(s) = Last(p) /\ HasSuffix(Front(s), Front(p))
<1> DEFINE l == Len(s)
           n == Len(p)
           fs == Front(s)
           fp == Front(p)
<1>1. /\ fs \in Seq(S) /\ l \in Nat /\ l >= 1 /\ Len(fs) = l - 1
      /\ \A i \in 1..(l - 1) : fs[i] = s[i]
      /\ Last(s) = s[l]
  BY FrontIs
<1>2. /\ fp \in Seq(S) /\ n \in Nat /\ n >= 1 /\ Len(fp) = n - 1
      /\ \A i \in 1..(n - 1) : fp[i] = p[i]
      /\ Last(p) = p[n]
  BY FrontIs
<1>3. HasSuffix(s, p) <=> n <= l /\ \A i \in 1..n : s[l - n + i] = p[i]
  BY SuffixIs
<1>4. HasSuffix(fs, fp) <=> n - 1 <= l - 1 /\ \A i \in 1..(n - 1) : fs[l - 1 - (n - 1) + i] = fp[i]
  <2> HIDE DEF fs, fp, l, n
  <2>1. HasSuffix(fs, fp) <=>
          Len(fp) <= Len(fs) /\ \A i \in 1..Len(fp) : fs[Len(fs) - Len(fp) + i] = fp[i]
    <3>1. fs \in Seq(S) /\ fp \in Seq(S)
      BY <1>1, <1>2
    <3> QED  BY <3>1, SuffixIs
  <2> QED  BY <1>1, <1>2, <2>1
<1> HIDE DEF fs, fp, l, n
<1>5. ASSUME n <= l  PROVE (\A i \in 1..(n - 1) : fs[l - 1 - (n - 1) + i] = fp[i]) <=>
                           \A i \in 1..(n - 1) : s[l - n + i] = p[i]
  <2>1. ASSUME NEW i \in 1..(n - 1)
        PROVE  fs[l - 1 - (n - 1) + i] = s[l - n + i] /\ fp[i] = p[i]
    <3>1. l - 1 - (n - 1) + i = l - n + i /\ l - n + i \in 1..(l - 1)
      BY <1>1, <1>2, <1>5
    <3> QED  BY <1>1, <1>2, <3>1
  <2> QED  BY <2>1
<1>6. n <= l => l - n + n = l /\ n \in 1..n /\ 1..n = (1..(n - 1)) \union {n}
  BY <1>1, <1>2
<1>7. n <= l => ((\A i \in 1..n : s[l - n + i] = p[i]) <=>
                   s[l] = p[n] /\ \A i \in 1..(n - 1) : s[l - n + i] = p[i])
  BY <1>6
<1>8. n - 1 <= l - 1 <=> n <= l
  BY <1>1, <1>2
<1> QED  BY <1>1, <1>2, <1>3, <1>4, <1>5, <1>7, <1>8 DEF fs, fp

\* What ends in each other is the same.
LEMMA SuffixBoth ==
  ASSUME NEW S, NEW s \in Seq(S), NEW p \in Seq(S)
  PROVE  s = p <=> HasSuffix(s, p) /\ HasSuffix(p, s)
<1> DEFINE l == Len(s)
           n == Len(p)
<1>1. l \in Nat /\ n \in Nat
  BY LenProperties
<1>2. HasSuffix(s, p) <=> n <= l /\ \A i \in 1..n : s[l - n + i] = p[i]
  BY SuffixIs
<1>3. HasSuffix(p, s) <=> l <= n /\ \A i \in 1..l : p[n - l + i] = s[i]
  BY SuffixIs
<1>4. (l = n /\ \A i \in 1..l : s[i] = p[i]) => s = p
  BY SeqEqual
<1>a. s = p => l = n
  OBVIOUS
<1> HIDE DEF l, n
<1>5. ASSUME HasSuffix(s, p), HasSuffix(p, s)  PROVE s = p
  <2>1. l = n
    BY <1>1, <1>2, <1>3, <1>5
  <2>2. ASSUME NEW i \in 1..l  PROVE s[i] = p[i]
    <3>1. l - n + i = i /\ i \in 1..n
      BY <1>1, <2>1
    <3>2. s[l - n + i] = p[i]
      BY <1>2, <1>5, <3>1
    <3> QED  BY <3>1, <3>2
  <2> QED  BY <1>4, <2>1, <2>2
<1>6. ASSUME s = p  PROVE HasSuffix(s, p) /\ HasSuffix(p, s)
  <2>1. l = n /\ \A i \in 1..l : l - n + i = i /\ n - l + i = i
    BY <1>1, <1>6, <1>a
  <2>2. \A i \in 1..n : s[l - n + i] = p[i]
    BY <1>6, <2>1
  <2>3. \A i \in 1..l : p[n - l + i] = s[i]
    BY <1>6, <2>1
  <2>4. n <= l /\ l <= n
    BY <1>1, <2>1
  <2> QED  BY <1>2, <1>3, <2>2, <2>3, <2>4
<1> QED  BY <1>5, <1>6

\* Only the empty sequence is the end of the empty one, and it is one of any.
LEMMA SuffixEmpty ==
  ASSUME NEW S, NEW s \in Seq(S)
  PROVE  HasSuffix(s, <<>>) /\ (HasSuffix(<<>>, s) <=> s = <<>>)
<1>1. <<>> \in Seq(S) /\ Len(<<>>) = 0 /\ Len(s) \in Nat /\ (s # <<>> => Len(s) \in Nat \ {0})
  BY EmptySeq, LenProperties
<1>2. HasSuffix(s, <<>>)
  <2> DEFINE e == <<>>
  <2>1. e \in Seq(S) /\ Len(e) = 0
    BY <1>1
  <2> HIDE DEF e
  <2>2. HasSuffix(s, e) <=>
          Len(e) <= Len(s) /\ \A i \in 1..Len(e) : s[Len(s) - Len(e) + i] = e[i]
    <3>1. e \in Seq(S)
      BY <2>1
    <3> QED  BY <3>1, SuffixIs, Zenon
  <2>3. Len(e) <= Len(s) /\ 1..Len(e) = {}
    BY <1>1, <2>1
  <2> QED  BY <2>2, <2>3 DEF e
<1>3. HasSuffix(<<>>, s) => s = <<>>
  <2>1. HasSuffix(<<>>, s) => Len(s) <= Len(<<>>)
    BY <1>1, SuffixIs
  <2> QED  BY <1>1, <2>1
<1> QED  BY <1>2, <1>3

------------------------------------------------------------------------------
(* The spelling of paths *)

\* The names.
Names == DOMAIN Letters

\* A name more.
Longer(text, name) == text \o <<"/">> \o Letters[name]

\* Slashing's function on the first n names, whatever comes after.
SlashedUpTo(names, n) ==
  \E f : f = [k \in 0..n |-> IF k = 0 THEN <<>> ELSE Longer(f[k - 1], names[k])]

\* There is a function that spells the first n names.
LEMMA SlashingExists ==
  ASSUME NEW names, NEW n \in Nat
  PROVE  SlashedUpTo(names, n)
<1> DEFINE bad == {m \in Nat : ~ SlashedUpTo(names, m)}
<1> SUFFICES ASSUME bad # {}  PROVE FALSE
  OBVIOUS
<1>1. PICK m \in bad : \A y \in bad : m <= y
  BY LeastNatural
<1>2. SlashedUpTo(names, 0)
  <2> DEFINE f == [k \in 0..0 |-> <<>>]
  <2>1. f = [k \in 0..0 |-> IF k = 0 THEN <<>> ELSE Longer(f[k - 1], names[k])]
    OBVIOUS
  <2> QED  BY <2>1 DEF SlashedUpTo
<1>3. m # 0 /\ m - 1 \in Nat /\ m - 1 \notin bad
  BY <1>1, <1>2
<1>4. PICK f : f = [k \in 0..(m - 1) |-> IF k = 0 THEN <<>> ELSE Longer(f[k - 1], names[k])]
  BY <1>3 DEF SlashedUpTo
<1> DEFINE g == [k \in 0..m |-> IF k = m THEN Longer(f[m - 1], names[m]) ELSE f[k]]
<1>5. g = [k \in 0..m |-> IF k = 0 THEN <<>> ELSE Longer(g[k - 1], names[k])]
  <2> SUFFICES ASSUME NEW k \in 0..m
               PROVE  g[k] = IF k = 0 THEN <<>> ELSE Longer(g[k - 1], names[k])
    OBVIOUS
  <2>1. CASE k = m
    BY <2>1, <1>3
  <2>2. CASE k # m
    <3>1. k \in 0..(m - 1)  BY <2>2, <1>1
    <3>2. g[k] = f[k]  BY <2>2
    <3>3. f[k] = IF k = 0 THEN <<>> ELSE Longer(f[k - 1], names[k])
      BY <1>4, <3>1
    <3>4. k # 0 => g[k - 1] = f[k - 1]
      BY <3>1, <1>3
    <3> QED  BY <3>2, <3>3, <3>4
  <2> QED  BY <2>1, <2>2
<1>6. SlashedUpTo(names, m)
  BY <1>5 DEF SlashedUpTo
<1> QED  BY <1>1, <1>6

\* Slashing's function, by its defining equation.
LEMMA SlashingStep ==
  ASSUME NEW names, Len(names) \in Nat
  PROVE  /\ Slashing(names)[0] = <<>>
         /\ \A k \in 1..Len(names) : Slashing(names)[k] = Longer(Slashing(names)[k - 1], names[k])
<1> DEFINE f == Slashing(names)
<1>1. f = [k \in 0..Len(names) |-> IF k = 0 THEN <<>> ELSE Longer(f[k - 1], names[k])]
  <2>1. SlashedUpTo(names, Len(names))
    BY SlashingExists
  <2> QED  BY <2>1, Zenon DEF SlashedUpTo, Slashing, Longer
<1> HIDE DEF f
<1>2. 0 \in 0..Len(names)
  OBVIOUS
<1>3. f[0] = <<>>
  BY <1>1, <1>2
<1>4. ASSUME NEW k \in 1..Len(names)  PROVE f[k] = Longer(f[k - 1], names[k])
  <2>1. k \in 0..Len(names) /\ k # 0
    OBVIOUS
  <2> QED  BY <1>1, <2>1
<1> QED  BY <1>3, <1>4 DEF f

\* Names with the same beginning are spelled with the same beginning.
LEMMA SlashingSame ==
  ASSUME NEW a, NEW b, Len(a) \in Nat, Len(b) \in Nat,
         NEW n \in Nat, n <= Len(a), n <= Len(b), \A i \in 1..n : a[i] = b[i]
  PROVE  Slashing(a)[n] = Slashing(b)[n]
<1>1. /\ Slashing(a)[0] = <<>>
      /\ \A k \in 1..Len(a) : Slashing(a)[k] = Longer(Slashing(a)[k - 1], a[k])
  BY SlashingStep
<1>2. /\ Slashing(b)[0] = <<>>
      /\ \A k \in 1..Len(b) : Slashing(b)[k] = Longer(Slashing(b)[k - 1], b[k])
  BY SlashingStep
<1> DEFINE bad == {m \in 0..n : Slashing(a)[m] # Slashing(b)[m]}
<1> SUFFICES ASSUME bad # {}  PROVE FALSE
  OBVIOUS
<1>3. bad \subseteq Nat
  OBVIOUS
<1>4. PICK m \in bad : \A y \in bad : m <= y
  BY <1>3, LeastNatural
<1>5. m # 0
  BY <1>1, <1>2, <1>4
<1>6. m \in 1..n /\ m - 1 \in 0..n /\ m - 1 \notin bad
  BY <1>4, <1>5
<1>7. m \in 1..Len(a) /\ m \in 1..Len(b)
  BY <1>6
<1>8. Slashing(a)[m] = Longer(Slashing(a)[m - 1], a[m])
  BY <1>1, <1>7
<1>9. Slashing(b)[m] = Longer(Slashing(b)[m - 1], b[m])
  BY <1>2, <1>7
<1> QED  BY <1>4, <1>6, <1>8, <1>9

\* The last name is spelled after the others.
LEMMA SlashedStep ==
  /\ Slashed(<<>>) = <<>>
  /\ \A names \in Seq(Names) : names # <<>> =>
       Slashed(names) = Slashed(Front(names)) \o <<"/">> \o Letters[Last(names)]
<1>1. Slashed(<<>>) = <<>>
  <2> DEFINE e == <<>>
  <2>1. Len(e) = 0
    OBVIOUS
  <2> HIDE DEF e
  <2>2. Slashing(e)[0] = <<>>
    BY <2>1, SlashingStep
  <2> QED  BY <2>1, <2>2 DEF Slashed, e
<1>2. ASSUME NEW names \in Seq(Names), names # <<>>
      PROVE  Slashed(names) = Slashed(Front(names)) \o <<"/">> \o Letters[Last(names)]
  <2> DEFINE n == Len(names)
             f == Front(names)
  <2>1. /\ n \in Nat /\ n >= 1 /\ Len(f) = n - 1
        /\ \A i \in 1..(n - 1) : f[i] = names[i]
        /\ Last(names) = names[n]
    BY <1>2, FrontIs, Zenon
  <2>a. n = Len(names)
    OBVIOUS
  <2> HIDE DEF n, f
  <2>2. n \in 1..n /\ n - 1 \in Nat /\ n - 1 <= n
    BY <2>1
  <2>3. Slashing(names)[n] = Longer(Slashing(names)[n - 1], names[n])
    BY <2>1, <2>2, <2>a, SlashingStep
  <2>4. Slashing(names)[n - 1] = Slashing(f)[n - 1]
    <3>1. Len(names) \in Nat /\ Len(f) \in Nat /\ n - 1 <= Len(names) /\ n - 1 <= Len(f)
      BY <2>1, <2>2, <2>a
    <3>2. \A i \in 1..(n - 1) : names[i] = f[i]
      BY <2>1
    <3> QED  BY <2>2, <3>1, <3>2, SlashingSame, Zenon
  <2> QED  BY <2>1, <2>3, <2>4, <2>a DEF Slashed, Longer, f
<1> QED  BY <1>1, <1>2

\* A path is spelled in characters; it begins with a slash and the first name.
LEMMA SlashedIs ==
  \A names \in Seq(Names) :
    /\ Slashed(names) \in Seq(Chars)
    /\ names # <<>> =>
         LET text == Slashed(names)
             name == Letters[names[1]]
         IN /\ names[1] \in Names
            /\ Len(text) >= 1 + Len(name) /\ text[1] = "/"
            /\ \A i \in 1..Len(name) : text[1 + i] = name[i]
<1> DEFINE Begins(names) == LET text == Slashed(names)
                                name == Letters[names[1]]
                            IN /\ names[1] \in Names
                               /\ Len(text) >= 1 + Len(name) /\ text[1] = "/"
                               /\ \A i \in 1..Len(name) : text[1 + i] = name[i]
           Right(names) == Slashed(names) \in Seq(Chars) /\ (names # <<>> => Begins(names))
           bad == {Len(names) : names \in {m \in Seq(Names) : ~ Right(m)}}
<1> SUFFICES ASSUME \E names \in Seq(Names) : ~ Right(names)  PROVE FALSE
  OBVIOUS
<1>1. bad \subseteq Nat /\ bad # {}
  BY LenProperties
<1>2. PICK l \in bad : \A m \in bad : l <= m
  BY <1>1, LeastNatural
<1>3. PICK names \in Seq(Names) : ~ Right(names) /\ l = Len(names)
  BY <1>2
<1>4. \A m \in Seq(Names) : Len(m) < l => Right(m)
  <2> SUFFICES ASSUME NEW m \in Seq(Names), Len(m) < l, ~ Right(m)  PROVE FALSE
    OBVIOUS
  <2>1. Len(m) \in bad /\ Len(m) \in Nat /\ l \in Nat
    BY <1>1, <1>2, LenProperties
  <2> HIDE DEF bad
  <2>2. l <= Len(m)
    BY <1>2, <2>1
  <2> QED  BY <2>1, <2>2
<1> HIDE DEF bad
<1>5. <<>> \in Seq(Chars)
  OBVIOUS
<1>6. names # <<>>
  BY <1>3, <1>5, SlashedStep
<1> DEFINE f == Front(names)
           n == Len(names)
           A == Slashed(f)
           x == Letters[Last(names)]
           text == A \o <<"/">> \o x
<1>7. /\ f \in Seq(Names) /\ n \in Nat /\ n >= 1 /\ Len(f) = n - 1
      /\ \A i \in 1..(n - 1) : f[i] = names[i]
      /\ Last(names) = names[n] /\ Last(names) \in Names
  BY <1>6, FrontIs, Zenon DEF Names
<1>8. Right(f)
  <2>1. Len(f) < l
    BY <1>3, <1>7
  <2> QED  BY <1>4, <1>7, <2>1
<1>9. A \in Seq(Chars)
  BY <1>8
<1>10. x \in Seq(Chars) /\ Len(x) \in Nat
  <2>1. x \in Seq(STRING)
    BY <1>7, NamesAssumption DEF Names
  <2> QED  BY <2>1, LenProperties DEF Chars
<1>11. Slashed(names) = text
  BY <1>6, SlashedStep
<1>12. /\ text \in Seq(Chars) /\ Len(text) = Len(A) + 1 + Len(x)
       /\ \A i \in 1..Len(A) : text[i] = A[i]
       /\ text[Len(A) + 1] = "/"
       /\ \A i \in 1..Len(x) : text[Len(A) + 1 + i] = x[i]
  BY <1>9, <1>10, JoinIs, Zenon
<1>13. Len(A) \in Nat
  BY <1>9, LenProperties
<1>14. CASE f = <<>>
  <2>1. A = <<>>
    BY <1>14, SlashedStep
  <2>2. n = 1 /\ Len(A) = 0
    BY <1>7, <1>14, <2>1
  <2>3. x = Letters[names[1]] /\ names[1] \in Names
    BY <1>7, <2>2
  <2> HIDE DEF text, x, A
  <2>4. Len(text) >= 1 + Len(x) /\ text[1] = "/"
    BY <1>10, <1>12, <2>2
  <2>5. ASSUME NEW i \in 1..Len(x)  PROVE text[1 + i] = x[i]
    <3>1. Len(A) + 1 + i = 1 + i
      BY <2>2
    <3>2. text[Len(A) + 1 + i] = x[i]
      BY <1>12
    <3> QED  BY <3>1, <3>2
  <2>6. Begins(names)
    BY <1>11, <2>3, <2>4, <2>5
  <2> QED  BY <1>3, <1>11, <1>12, <2>6
<1>15. CASE f # <<>>
  <2> DEFINE y == Letters[f[1]]
  <2>1. /\ f[1] \in Names /\ Len(A) >= 1 + Len(y) /\ A[1] = "/"
        /\ \A i \in 1..Len(y) : A[1 + i] = y[i]
    BY <1>8, <1>15
  <2>2. f[1] = names[1]
    <3>1. Len(f) >= 1
      BY <1>7, <1>15, EmptySeq
    <3>2. 1 \in 1..(n - 1)
      BY <1>7, <3>1
    <3> QED  BY <1>7, <3>2
  <2>3. y \in Seq(STRING)
    BY <2>1, NamesAssumption DEF Names
  <2>4. Len(y) \in Nat
    BY <2>3, LenProperties
  <2>a. y = Letters[names[1]]
    BY <2>2
  <2> HIDE DEF text, x, A, y
  <2>5. Len(text) >= 1 + Len(y) /\ 1 \in 1..Len(A) /\ text[1] = "/"
    <3>1. Len(text) = Len(A) + 1 + Len(x) /\ Len(A) \in Nat /\ Len(x) \in Nat
      BY <1>10, <1>12, <1>13
    <3>2. Len(A) >= 1 + Len(y)
      BY <2>1
    <3>3. Len(text) >= 1 + Len(y) /\ 1 \in 1..Len(A)
      BY <2>4, <3>1, <3>2
    <3>4. text[1] = A[1]
      BY <1>12, <3>3
    <3> QED  BY <2>1, <3>3, <3>4
  <2>6. ASSUME NEW i \in 1..Len(y)  PROVE text[1 + i] = y[i]
    <3>1. 1 + i \in 1..Len(A)
      BY <1>13, <2>1, <2>4
    <3> QED  BY <1>12, <2>1, <3>1
  <2>7. Begins(names)
    BY <1>11, <2>1, <2>2, <2>5, <2>6, <2>a
  <2> QED  BY <1>3, <1>11, <1>12, <2>7
<1> QED  BY <1>14, <1>15

\* One path as it is spelled ends in another exactly if its names end in those.
LEMMA SlashedSuffix ==
  \A q, p \in Seq(Names) : HasSuffix(Slashed(q), Slashed(p)) <=> HasSuffix(q, p)
<1> DEFINE Same(q, p) == HasSuffix(Slashed(q), Slashed(p)) <=> HasSuffix(q, p)
           Right(p) == \A q \in Seq(Names) : Same(q, p)
           bad == {Len(p) : p \in {m \in Seq(Names) : ~ Right(m)}}
<1> SUFFICES ASSUME \E p \in Seq(Names) : ~ Right(p)  PROVE FALSE
  OBVIOUS
<1>1. bad \subseteq Nat /\ bad # {}
  <2> HIDE DEF Right
  <2>1. \A m \in Seq(Names) : Len(m) \in Nat
    BY LenProperties
  <2> QED  BY <2>1
<1>2. PICK l \in bad : \A m \in bad : l <= m
  BY <1>1, LeastNatural
<1>3. PICK p \in Seq(Names) : ~ Right(p) /\ l = Len(p)
  BY <1>2
<1>4. \A m \in Seq(Names) : Len(m) < l => Right(m)
  <2> SUFFICES ASSUME NEW m \in Seq(Names), Len(m) < l, ~ Right(m)  PROVE FALSE
    OBVIOUS
  <2>1. Len(m) \in bad /\ Len(m) \in Nat /\ l \in Nat
    BY <1>1, <1>2, LenProperties
  <2> HIDE DEF bad
  <2>2. l <= Len(m)
    BY <1>2, <2>1
  <2> QED  BY <2>1, <2>2
<1> HIDE DEF bad
<1>5. PICK q \in Seq(Names) : ~ Same(q, p)
  BY <1>3
<1>6. Slashed(q) \in Seq(Chars) /\ Slashed(p) \in Seq(Chars)
  BY SlashedIs, Zenon
<1>7. CASE p = <<>>
  <2>1. Slashed(p) = <<>>
    BY <1>7, SlashedStep
  <2>2. HasSuffix(Slashed(q), <<>>) /\ HasSuffix(q, <<>>)
    BY <1>6, SuffixEmpty
  <2> QED  BY <1>5, <1>7, <2>1, <2>2
<1>8. CASE q = <<>> /\ p # <<>>
  <2>1. Slashed(q) = <<>>
    BY <1>8, SlashedStep
  <2>2. Len(Slashed(p)) >= 1 + Len(Letters[p[1]]) /\ p[1] \in Names
    BY <1>8, SlashedIs, Zenon
  <2>3. Letters[p[1]] \in Seq(STRING)
    BY <2>2, NamesAssumption DEF Names
  <2>4. Len(Letters[p[1]]) \in Nat
    BY <2>3, LenProperties
  <2>5. Slashed(p) # <<>>
    BY <2>2, <2>4
  <2>6. ~ HasSuffix(<<>>, Slashed(p)) /\ ~ HasSuffix(<<>>, p)
    BY <1>6, <1>8, <2>5, SuffixEmpty
  <2> QED  BY <1>5, <1>8, <2>1, <2>6
<1>9. CASE q # <<>> /\ p # <<>>
  <2> DEFINE x == Letters[Last(q)]
             y == Letters[Last(p)]
             A == Slashed(Front(q))
             B == Slashed(Front(p))
  <2>1. Front(q) \in Seq(Names) /\ Last(q) \in Names
    BY <1>9, FrontIs, Zenon
  <2>2. Front(p) \in Seq(Names) /\ Last(p) \in Names /\ Len(Front(p)) = Len(p) - 1 /\ Len(p) \in Nat
    BY <1>9, FrontIs, Zenon
  <2>3. A \in Seq(Chars) /\ B \in Seq(Chars)
    BY <2>1, <2>2, SlashedIs, Zenon
  <2>4. x \in Seq(STRING) /\ y \in Seq(STRING) /\ "/" \notin Range(x) /\ "/" \notin Range(y)
        /\ (x = y <=> Last(q) = Last(p))
    BY <2>1, <2>2, NamesAssumption DEF Names
  <2>5. x \in Seq(Chars) /\ y \in Seq(Chars)
    BY <2>4 DEF Chars
  <2>6. Slashed(q) = A \o <<"/">> \o x /\ Slashed(p) = B \o <<"/">> \o y
    BY <1>9, SlashedStep, Zenon
  <2>7. HasSuffix(Slashed(q), Slashed(p)) <=> x = y /\ HasSuffix(A, B)
    <3> HIDE DEF x, y, A, B
    <3> QED  BY <2>3, <2>4, <2>5, <2>6, SameName
  <2>8. HasSuffix(A, B) <=> HasSuffix(Front(q), Front(p))
    <3>1. Len(Front(p)) < l
      BY <1>3, <2>2
    <3> QED  BY <1>4, <2>1, <2>2, <3>1
  <2>9. HasSuffix(q, p) <=> Last(q) = Last(p) /\ HasSuffix(Front(q), Front(p))
    BY <1>9, SuffixStep, Zenon
  <2> QED  BY <1>5, <2>4, <2>7, <2>8, <2>9
<1> QED  BY <1>7, <1>8, <1>9

\* A name is not empty, and has no slash in it.
LEMMA NameIs ==
  ASSUME NEW n \in Names
  PROVE  /\ Letters[n] \in Seq(Chars) /\ Len(Letters[n]) \in Nat /\ Len(Letters[n]) >= 1
         /\ \A i \in 1..Len(Letters[n]) : Letters[n][i] # "/"
         /\ Len(Letters[n]) = 1 => Letters[n][1] # "."
<1> DEFINE x == Letters[n]
<1>1. x \in Seq(STRING) /\ x # <<>> /\ x # <<".">> /\ "/" \notin Range(x)
  BY NamesAssumption DEF Names
<1>2. x \in Seq(Chars)
  BY <1>1 DEF Chars
<1>3. Len(x) \in Nat /\ Len(x) >= 1 /\ DOMAIN x = 1..Len(x)
  BY <1>1, <1>2, EmptySeq, LenProperties
<1>4. \A i \in 1..Len(x) : x[i] # "/"
  BY <1>1, <1>3 DEF Range
<1>5. Len(x) = 1 => x[1] # "."
  <2> SUFFICES ASSUME Len(x) = 1, x[1] = "."  PROVE FALSE
    OBVIOUS
  <2> DEFINE dot == <<".">>
  <2>1. dot \in Seq(Chars) /\ Len(dot) = 1 /\ dot[1] = "."
    <3>1. "." \in Chars
      BY DEF Chars
    <3> QED  BY <3>1, SingleIs
  <2>a. x # dot
    BY <1>1
  <2> HIDE DEF dot
  <2>2. x = dot
    <3>1. Len(x) = Len(dot)
      BY <2>1
    <3>2. \A i \in 1..Len(x) : x[i] = dot[i]
      BY <2>1
    <3> QED  BY <1>2, <2>1, <3>1, <3>2, SeqEqual
  <2> QED  BY <2>2, <2>a
<1> QED  BY <1>2, <1>3, <1>4, <1>5

\* How a path is spelled at its two ends.
LEMMA SlashedEnds ==
  ASSUME NEW names \in Seq(Names), names # <<>>
  PROVE  LET text == Slashed(names) IN
         /\ text \in Seq(Chars) /\ Len(text) \in Nat /\ Len(text) >= 2
         /\ text[1] = "/" /\ text[2] # "/" /\ text[Len(text)] # "/"
         /\ text[2] = "." => Len(text) >= 3 /\ text[3] # "/"
<1> DEFINE text == Slashed(names)
           x == Letters[names[1]]
           A == Slashed(Front(names))
           y == Letters[Last(names)]
<1>1. /\ text \in Seq(Chars) /\ names[1] \in Names
      /\ Len(text) >= 1 + Len(x) /\ text[1] = "/"
      /\ \A i \in 1..Len(x) : text[1 + i] = x[i]
  BY SlashedIs, Zenon
<1>2. Len(text) \in Nat
  BY <1>1, LenProperties
<1>3. /\ Len(x) \in Nat /\ Len(x) >= 1
      /\ \A i \in 1..Len(x) : x[i] # "/"
      /\ Len(x) = 1 => x[1] # "."
  BY <1>1, NameIs, Zenon
<1>4. Front(names) \in Seq(Names) /\ Last(names) \in Names
  BY FrontIs, Zenon
<1>5. A \in Seq(Chars)
  BY <1>4, SlashedIs, Zenon
<1>6. y \in Seq(Chars) /\ Len(y) \in Nat /\ Len(y) >= 1 /\ \A i \in 1..Len(y) : y[i] # "/"
  BY <1>4, NameIs, Zenon
<1>7. text = A \o <<"/">> \o y
  BY SlashedStep, Zenon
<1>8. /\ Len(A \o <<"/">> \o y) = Len(A) + 1 + Len(y)
      /\ \A i \in 1..Len(y) : (A \o <<"/">> \o y)[Len(A) + 1 + i] = y[i]
  BY <1>5, <1>6, JoinIs, Zenon
<1> HIDE DEF text, x, A, y
<1>9. text[Len(text)] # "/"
  <2>1. Len(y) \in 1..Len(y)
    BY <1>6
  <2>2. Len(text) = Len(A) + 1 + Len(y) /\ text[Len(A) + 1 + Len(y)] = y[Len(y)]
    BY <1>7, <1>8, <2>1
  <2> QED  BY <1>6, <2>1, <2>2
<1>10. Len(text) >= 2 /\ text[2] # "/"
  <2>1. 1 \in 1..Len(x) /\ 1 + 1 = 2
    BY <1>3
  <2>2. text[2] = x[1]
    BY <1>1, <2>1
  <2> QED  BY <1>1, <1>2, <1>3, <2>1, <2>2
<1>11. ASSUME text[2] = "."  PROVE Len(text) >= 3 /\ text[3] # "/"
  <2>1. 1 \in 1..Len(x) /\ 1 + 1 = 2
    BY <1>3
  <2>2. x[1] = "."
    BY <1>1, <1>11, <2>1
  <2>3. 2 \in 1..Len(x) /\ 1 + 2 = 3
    <3>1. Len(x) # 1
      BY <1>3, <2>2, Zenon
    <3>2. \A n \in Nat : n >= 1 /\ n # 1 => 2 \in 1..n
      OBVIOUS
    <3>3. 2 \in 1..Len(x)
      BY <1>3, <3>1, <3>2, Zenon
    <3>4. 1 + 2 = 3
      OBVIOUS
    <3> QED  BY <3>3, <3>4, Zenon
  <2>4. text[3] = x[2]
    BY <1>1, <2>3
  <2> QED  BY <1>1, <1>2, <1>3, <2>3, <2>4
<1> QED  BY <1>1, <1>2, <1>9, <1>10, <1>11 DEF text

\* What filepath.Join makes of names.
LEMMA SpellIs ==
  ASSUME NEW names \in Seq(Names), names # <<>>
  PROVE  LET text == Slashed(names)
             path == Spell(names)
         IN /\ path \in Seq(Chars) /\ Len(path) = Len(text) - 1
            /\ \A i \in 1..(Len(text) - 1) : path[i] = text[i + 1]
<1> DEFINE text == Slashed(names)
<1>1. text \in Seq(Chars) /\ Len(text) \in Nat /\ Len(text) >= 2
  BY SlashedEnds, Zenon
<1> HIDE DEF text
<1>2. text # <<>>
  BY <1>1
<1>3. /\ Tail(text) \in Seq(Chars) /\ Len(Tail(text)) = Len(text) - 1
      /\ \A i \in 1..Len(Tail(text)) : Tail(text)[i] = text[i + 1]
  BY <1>1, <1>2, HeadTailProperties
<1> QED  BY <1>3 DEF Spell, text

\* Single things at the ends of a sequence.
LEMMA SlashAtEnds ==
  ASSUME NEW s \in Seq(Chars), Len(s) >= 1
  PROVE  /\ HasPrefix(s, <<"/">>) <=> s[1] = "/"
         /\ HasSuffix(s, <<"/">>) <=> s[Len(s)] = "/"
<1> DEFINE slash == <<"/">>
<1>1. slash \in Seq(Chars) /\ Len(slash) = 1 /\ slash[1] = "/"
  <2>1. "/" \in Chars
    BY DEF Chars
  <2> QED  BY <2>1, SingleIs
<1>2. Len(s) \in Nat
  BY LenProperties
<1> HIDE DEF slash
<1>3. HasPrefix(s, slash) <=> s[1] = "/"
  <2>1. HasPrefix(s, slash) <=> Len(slash) <= Len(s) /\ \A i \in 1..Len(slash) : s[i] = slash[i]
    BY <1>1, PrefixIs, Zenon
  <2>2. (\A i \in 1..Len(slash) : s[i] = slash[i]) <=> s[1] = slash[1]
    BY <1>1
  <2> QED  BY <1>1, <2>1, <2>2
<1>4. HasSuffix(s, slash) <=> s[Len(s)] = "/"
  <2>1. HasSuffix(s, slash) <=>
          Len(slash) <= Len(s) /\ \A i \in 1..Len(slash) : s[Len(s) - Len(slash) + i] = slash[i]
    <3>1. slash \in Seq(Chars)
      BY <1>1
    <3> QED  BY <3>1, SuffixIs
  <2>2. Len(s) - Len(slash) + 1 = Len(s)
    BY <1>1, <1>2
  <2>3. (\A i \in 1..Len(slash) : s[Len(s) - Len(slash) + i] = slash[i]) <=> s[Len(s)] = slash[1]
    BY <1>1, <2>2
  <2> QED  BY <1>1, <2>1, <2>3
<1> QED  BY <1>3, <1>4 DEF slash

\* A spelled path is normalized by a slash at either end.
LEMMA NormalIs ==
  ASSUME NEW names \in Seq(Names), names # <<>>
  PROVE  normalizePath(Spell(names)) = Slashed(names) \o <<"/">>
<1> DEFINE text == Slashed(names)
           path == Spell(names)
           slash == <<"/">>
           front == slash \o path
<1>1. /\ text \in Seq(Chars) /\ Len(text) \in Nat /\ Len(text) >= 2
      /\ text[1] = "/" /\ text[2] # "/" /\ text[Len(text)] # "/"
  BY SlashedEnds, Zenon
<1>2. /\ path \in Seq(Chars) /\ Len(path) = Len(text) - 1
      /\ \A i \in 1..(Len(text) - 1) : path[i] = text[i + 1]
  BY SpellIs, Zenon
<1>3. slash \in Seq(Chars) /\ Len(slash) = 1 /\ slash[1] = "/"
  <2>1. "/" \in Chars
    BY DEF Chars
  <2> QED  BY <2>1, SingleIs
<1> HIDE DEF text, path
<1>4. ~ HasPrefix(path, slash)
  <2>1. 1 \in 1..(Len(text) - 1) /\ 1 + 1 = 2
    BY <1>1
  <2>2. Len(path) >= 1 /\ path[1] = text[2]
    BY <1>1, <1>2, <2>1
  <2> QED  BY <1>1, <1>2, <2>2, SlashAtEnds
<1>5. ~ HasSuffix(text, slash)
  BY <1>1, SlashAtEnds
<1>6. front = text
  <2> HIDE DEF slash
  <2>1. /\ front \in Seq(Chars) /\ Len(front) = Len(slash) + Len(path)
        /\ \A i \in 1..(Len(slash) + Len(path)) :
             front[i] = IF i <= Len(slash) THEN slash[i] ELSE path[i - Len(slash)]
    <3>1. slash \in Seq(Chars) /\ path \in Seq(Chars)
      BY <1>2, <1>3
    <3> QED  BY <3>1, ConcatProperties, Zenon
  <2> HIDE DEF front
  <2>2. Len(front) = Len(text)
    BY <1>1, <1>2, <1>3, <2>1
  <2>3. ASSUME NEW i \in 1..Len(front)  PROVE front[i] = text[i]
    <3>1. i \in 1..(Len(slash) + Len(path)) /\ i \in 1..Len(text)
      BY <2>1, <2>2
    <3>2. front[i] = IF i <= Len(slash) THEN slash[i] ELSE path[i - Len(slash)]
      BY <2>1, <3>1
    <3>3. CASE i = 1
      BY <1>1, <1>3, <3>2, <3>3
    <3>4. CASE i # 1
      <4>1. ~ (i <= Len(slash)) /\ i - Len(slash) = i - 1 /\ i - 1 \in 1..(Len(text) - 1) /\ i - 1 + 1 = i
        BY <1>1, <1>3, <3>1, <3>4
      <4>2. path[i - 1] = text[i - 1 + 1]
        BY <1>2, <4>1
      <4> QED  BY <3>2, <4>1, <4>2
    <3> QED  BY <3>3, <3>4
  <2> QED  BY <1>1, <2>1, <2>2, <2>3, SeqEqual
<1> QED  BY <1>4, <1>5, <1>6 DEF normalizePath, text, path

\* A slash at the end of both changes nothing.
LEMMA ClosingSlash ==
  ASSUME NEW A \in Seq(Chars), NEW B \in Seq(Chars)
  PROVE  /\ A \o <<"/">> \in Seq(Chars)
         /\ HasSuffix(A \o <<"/">>, B \o <<"/">>) <=> HasSuffix(A, B)
         /\ A \o <<"/">> = B \o <<"/">> <=> A = B
<1> DEFINE slash == <<"/">>
           e == <<>>
           As == A \o slash
           Bs == B \o slash
<1>1. slash \in Seq(Chars)
  <2>1. "/" \in Chars
    BY DEF Chars
  <2> QED  BY <2>1, SingleIs
<1>2. e \in Seq(Chars) /\ "/" \notin Range(e)
  BY DEF Range
<1> HIDE DEF slash
<1>3. As \in Seq(Chars) /\ Bs \in Seq(Chars)
  BY <1>1, ConcatProperties
<1> HIDE DEF As, Bs
<1>4. As \o <<>> = As /\ Bs \o <<>> = Bs
  BY <1>3, ConcatEmptySeq
<1>5. HasSuffix(A \o <<"/">> \o <<>>, B \o <<"/">> \o <<>>) <=> <<>> = <<>> /\ HasSuffix(A, B)
  BY <1>2, SameName, Zenon
<1>6. HasSuffix(B \o <<"/">> \o <<>>, A \o <<"/">> \o <<>>) <=> <<>> = <<>> /\ HasSuffix(B, A)
  BY <1>2, SameName, Zenon
<1>7. HasSuffix(As, Bs) <=> HasSuffix(A, B)
  BY <1>4, <1>5, Zenon DEF As, Bs, slash
<1>8. HasSuffix(Bs, As) <=> HasSuffix(B, A)
  BY <1>4, <1>6, Zenon DEF As, Bs, slash
<1>9. As = Bs <=> A = B
  <2>1. As = Bs <=> HasSuffix(As, Bs) /\ HasSuffix(Bs, As)
    BY <1>3, SuffixBoth, Zenon
  <2>2. A = B <=> HasSuffix(A, B) /\ HasSuffix(B, A)
    BY SuffixBoth, Zenon
  <2> QED  BY <1>7, <1>8, <2>1, <2>2
<1> QED  BY <1>3, <1>7, <1>9 DEF As, Bs, slash

\* The directives, of any names.
Directives == [rooted : BOOLEAN, names : Seq(Names) \ {<<>>}]

\* What a directive is compared with.
LEMMA MatchIs ==
  ASSUME NEW p \in Directives, NEW rel
  PROVE  matchIgnore(Written(p), rel) <=>
           IF p.rooted THEN rel = Slashed(p.names) \o <<"/">>
           ELSE HasSuffix(rel, Slashed(p.names) \o <<"/">>)
<1> DEFINE names == p.names
           text == Slashed(names)
           path == Spell(names)
           dots == <<".", "/">>
<1>1. names \in Seq(Names) /\ names # <<>>
  BY DEF Directives
<1>2. /\ text \in Seq(Chars) /\ Len(text) \in Nat /\ Len(text) >= 2
      /\ text[2] = "." => Len(text) >= 3 /\ text[3] # "/"
  BY <1>1, SlashedEnds, Zenon
<1>3. /\ path \in Seq(Chars) /\ Len(path) = Len(text) - 1
      /\ \A i \in 1..(Len(text) - 1) : path[i] = text[i + 1]
  BY <1>1, SpellIs, Zenon
<1>4. normalizePath(path) = text \o <<"/">>
  BY <1>1, NormalIs, Zenon
<1>5. dots \in Seq(Chars) /\ Len(dots) = 2 /\ dots[1] = "." /\ dots[2] = "/"
  <2>1. "/" \in Chars /\ "." \in Chars
    BY DEF Chars
  <2>2. \A S, a, b : a \in S /\ b \in S => <<a, b>> \in Seq(S) /\ Len(<<a, b>>) = 2
                                           /\ <<a, b>>[1] = a /\ <<a, b>>[2] = b
    OBVIOUS
  <2> QED  BY <2>1, <2>2, Zenon
<1> HIDE DEF text, path, dots, names
<1>6. CASE p.rooted
  <2> DEFINE w == dots \o path
  <2>1. /\ w \in Seq(Chars) /\ Len(w) = Len(dots) + Len(path)
        /\ \A i \in 1..(Len(dots) + Len(path)) :
             w[i] = IF i <= Len(dots) THEN dots[i] ELSE path[i - Len(dots)]
    <3>1. dots \in Seq(Chars) /\ path \in Seq(Chars)
      BY <1>3, <1>5
    <3> QED  BY <3>1, ConcatProperties, Zenon
  <2> HIDE DEF w
  <2>2. Len(path) \in Nat /\ Len(w) = 2 + Len(path)
    BY <1>2, <1>3, <1>5, <2>1
  <2>3. HasPrefix(w, dots)
    <3>1. HasPrefix(w, dots) <=> Len(dots) <= Len(w) /\ \A i \in 1..Len(dots) : w[i] = dots[i]
      <4>1. w \in Seq(Chars) /\ dots \in Seq(Chars)
        BY <1>5, <2>1
      <4> QED  BY <4>1, PrefixIs
    <3>2. ASSUME NEW i \in 1..Len(dots)  PROVE w[i] = dots[i]
      <4>1. i \in 1..(Len(dots) + Len(path)) /\ i <= Len(dots)
        BY <1>5, <2>2
      <4> QED  BY <2>1, <4>1
    <3> QED  BY <1>5, <2>2, <3>1, <3>2
  <2>4. SubSeq(w, 3, Len(w)) = path
    <3>1. 3 \in 1..(Len(w) + 1) /\ Len(w) \in 0..Len(w) /\ 3 <= Len(w) + 1
      BY <1>2, <1>3, <2>2
    <3> DEFINE r == SubSeq(w, 3, Len(w))
    <3>2. /\ r \in Seq(Chars) /\ Len(r) = Len(w) - 3 + 1
          /\ \A i \in 1..(Len(w) - 3 + 1) : r[i] = w[3 + i - 1]
      BY <2>1, <3>1, PartIs, ZenonT(30)
    <3> HIDE DEF r
    <3>3. Len(r) = Len(path)
      BY <2>2, <3>2
    <3>4. ASSUME NEW i \in 1..Len(r)  PROVE r[i] = path[i]
      <4>1. /\ i \in 1..(Len(w) - 3 + 1) /\ 3 + i - 1 = 2 + i
            /\ 2 + i \in 1..(Len(dots) + Len(path))
            /\ ~ (2 + i <= Len(dots)) /\ 2 + i - Len(dots) = i
        BY <1>5, <2>2, <3>3
      <4>2. r[i] = w[2 + i]
        BY <3>2, <4>1
      <4>3. w[2 + i] = IF 2 + i <= Len(dots) THEN dots[2 + i] ELSE path[2 + i - Len(dots)]
        BY <2>1, <4>1
      <4> QED  BY <4>1, <4>2, <4>3
    <3>5. r = path
      BY <1>3, <3>2, <3>3, <3>4, SeqEqual
    <3> QED  BY <3>5 DEF r
  <2>5. Written(p) = w
    BY <1>6 DEF Written, w, dots, path, names
  <2>6. matchIgnore(w, rel) <=> rel = normalizePath(path)
    BY <2>3, <2>4 DEF matchIgnore, dots
  <2> QED  BY <1>4, <1>6, <2>5, <2>6 DEF text, names
<1>7. CASE ~ p.rooted
  <2>1. ~ HasPrefix(path, dots)
    <3> SUFFICES ASSUME HasPrefix(path, dots)  PROVE FALSE
      OBVIOUS
    <3>1. Len(dots) <= Len(path) /\ \A i \in 1..Len(dots) : path[i] = dots[i]
      <4>1. path \in Seq(Chars) /\ dots \in Seq(Chars)
        BY <1>3, <1>5
      <4> QED  BY <4>1, PrefixIs
    <3>2. /\ 1 \in 1..Len(dots) /\ 2 \in 1..Len(dots)
          /\ 1 \in 1..(Len(text) - 1) /\ 2 \in 1..(Len(text) - 1) /\ 1 + 1 = 2 /\ 2 + 1 = 3
      BY <1>2, <1>3, <1>5, <3>1
    <3>3. text[2] = "." /\ text[3] = "/"
      BY <1>3, <1>5, <3>1, <3>2
    <3> QED  BY <1>2, <3>3
  <2>2. Written(p) = path
    BY <1>7 DEF Written, path, names
  <2>3. matchIgnore(path, rel) <=> HasSuffix(rel, normalizePath(path))
    BY <2>1 DEF matchIgnore, dots
  <2> QED  BY <1>4, <1>7, <2>2, <2>3 DEF text, names
<1> QED  BY <1>6, <1>7

\* Matching the text is matching the names.
LEMMA MatchNames ==
  ASSUME NEW p \in Directives, NEW q \in Seq(Names), q # <<>>
  PROVE  matchIgnore(Written(p), normalizePath(Spell(q))) <=>
           IF p.rooted THEN q = p.names ELSE HasSuffix(q, p.names)
<1> DEFINE A == Slashed(q)
           B == Slashed(p.names)
<1>1. p.names \in Seq(Names)
  BY DEF Directives
<1>2. A \in Seq(Chars) /\ B \in Seq(Chars)
  BY <1>1, SlashedIs, Zenon
<1>3. normalizePath(Spell(q)) = A \o <<"/">>
  BY NormalIs, Zenon
<1>4. matchIgnore(Written(p), A \o <<"/">>) <=>
        IF p.rooted THEN A \o <<"/">> = B \o <<"/">> ELSE HasSuffix(A \o <<"/">>, B \o <<"/">>)
  BY MatchIs, Zenon
<1>5. HasSuffix(A \o <<"/">>, B \o <<"/">>) <=> HasSuffix(A, B)
  BY <1>2, ClosingSlash, Zenon
<1>6. A \o <<"/">> = B \o <<"/">> <=> A = B
  BY <1>2, ClosingSlash, Zenon
<1>7. HasSuffix(A, B) <=> HasSuffix(q, p.names)
  BY <1>1, SlashedSuffix, Zenon
<1>8. HasSuffix(B, A) <=> HasSuffix(p.names, q)
  BY <1>1, SlashedSuffix, Zenon
<1>9. (A = B <=> HasSuffix(A, B) /\ HasSuffix(B, A))
  BY <1>2, SuffixBoth, Zenon
<1>10. q = p.names <=> HasSuffix(q, p.names) /\ HasSuffix(p.names, q)
  BY <1>1, SuffixBoth, Zenon
<1> HIDE DEF A, B
<1> QED  BY <1>3, <1>4, <1>5, <1>6, <1>7, <1>8, <1>9, <1>10, Zenon

\* No directive is about the directory of the go.mod.
LEMMA MatchDot ==
  ASSUME NEW p \in Directives
  PROVE  ~ matchIgnore(Written(p), normalizePath(<<".">>))
<1> DEFINE dot == <<".">>
           slash == <<"/">>
           front == slash \o dot
           text == Slashed(p.names)
<1>1. /\ dot \in Seq(Chars) /\ Len(dot) = 1 /\ dot[1] = "."
      /\ slash \in Seq(Chars) /\ Len(slash) = 1 /\ slash[1] = "/"
  <2>1. "/" \in Chars /\ "." \in Chars
    BY DEF Chars
  <2> QED  BY <2>1, SingleIs
<1>2. p.names \in Seq(Names) /\ p.names # <<>>
  BY DEF Directives
<1>3. /\ text \in Seq(Chars) /\ Len(text) \in Nat /\ Len(text) >= 2
      /\ text[2] = "." => Len(text) >= 3 /\ text[3] # "/"
  BY <1>2, SlashedEnds, Zenon
<1>4. matchIgnore(Written(p), front \o <<"/">>) <=>
        IF p.rooted THEN front \o <<"/">> = text \o <<"/">>
        ELSE HasSuffix(front \o <<"/">>, text \o <<"/">>)
  BY MatchIs, Zenon
<1>a. slash = <<"/">> /\ dot = <<".">>
  OBVIOUS
<1> HIDE DEF dot, slash, text
<1>5. /\ front \in Seq(Chars) /\ Len(front) = Len(slash) + Len(dot)
      /\ \A i \in 1..(Len(slash) + Len(dot)) :
           front[i] = IF i <= Len(slash) THEN slash[i] ELSE dot[i - Len(slash)]
  <2>1. slash \in Seq(Chars) /\ dot \in Seq(Chars)
    BY <1>1
  <2> QED  BY <2>1, ConcatProperties, Zenon
<1>b. front = slash \o dot
  OBVIOUS
<1> HIDE DEF front
<1>6. Len(front) = 2 /\ front[2] = "."
  <2>1. 2 \in 1..(Len(slash) + Len(dot)) /\ ~ (2 <= Len(slash)) /\ 2 - Len(slash) = 1
    BY <1>1
  <2>2. front[2] = IF 2 <= Len(slash) THEN slash[2] ELSE dot[2 - Len(slash)]
    BY <1>5, <2>1
  <2> QED  BY <1>1, <1>5, <2>1, <2>2
<1>7. ~ HasPrefix(dot, slash)
  <2>1. HasPrefix(dot, <<"/">>) <=> dot[1] = "/"
    BY <1>1, SlashAtEnds
  <2> QED  BY <1>1, <1>a, <2>1
<1>8. ~ HasSuffix(front, slash)
  <2>1. HasSuffix(front, <<"/">>) <=> front[Len(front)] = "/"
    BY <1>5, <1>6, SlashAtEnds
  <2> QED  BY <1>6, <1>a, <2>1
<1>9. normalizePath(dot) = front \o slash
  BY <1>7, <1>8, <1>a, <1>b, Zenon DEF normalizePath
<1>10. ~ HasSuffix(front, text)
  <2> SUFFICES ASSUME HasSuffix(front, text)  PROVE FALSE
    OBVIOUS
  <2>1. Len(text) <= Len(front) /\ \A i \in 1..Len(text) : front[Len(front) - Len(text) + i] = text[i]
    <3>1. text \in Seq(Chars) /\ front \in Seq(Chars)
      BY <1>3, <1>5
    <3> QED  BY <3>1, SuffixIs
  <2>2. Len(text) = 2
    BY <1>3, <1>6, <2>1
  <2>3. 2 \in 1..Len(text) /\ Len(front) - Len(text) + 2 = 2
    BY <1>6, <2>2
  <2>4. front[2] = text[2]
    BY <2>1, <2>3
  <2> QED  BY <1>3, <1>6, <2>2, <2>4
<1>11. /\ HasSuffix(front \o <<"/">>, text \o <<"/">>) <=> HasSuffix(front, text)
       /\ front \o <<"/">> = text \o <<"/">> <=> front = text
  BY <1>3, <1>5, ClosingSlash, Zenon
<1>12. front # text
  <2>1. front = text => HasSuffix(front, text)
    BY <1>3, <1>5, SuffixBoth, Zenon
  <2> QED  BY <1>10, <2>1
<1> QED  BY <1>4, <1>9, <1>10, <1>11, <1>12, <1>a, <1>b DEF text

------------------------------------------------------------------------------
(* The tree *)

\* What is in the tree.
Entries == Dirs \union Files
Paths   == Seq(Names)

\* What the assumptions say of what is in the tree.
LEMMA EntryIs ==
  /\ Root = <<>> /\ Root \in Dirs /\ Dirs \intersect Files = {}
  /\ Entries \subseteq Paths
  /\ \A p \in Entries : p # <<>> => Front(p) \in Dirs /\ p \in Range(Children[Front(p)])
  /\ \A d \in Dirs :
       /\ d # <<>> => Parent[d] = Front(d)
       /\ Children[d] \in Seq(Entries)
       /\ \A c \in Range(Children[d]) : c \in Entries /\ c # <<>> /\ Front(c) = d
BY RootAssumption, TreeAssumption DEF Entries, Paths, Names

\* What is beneath a path has its names before some of its own.
LEMMA BeneathIs ==
  ASSUME NEW d \in Paths, NEW p \in Paths
  PROVE  Beneath(d, p) <=> Len(d) < Len(p) /\ \A i \in 1..Len(d) : p[i] = d[i]
<1>1. HasPrefix(p, d) <=> Len(d) <= Len(p) /\ \A i \in 1..Len(d) : p[i] = d[i]
  BY PrefixIs DEF Paths
<1>2. Len(d) \in Nat /\ Len(p) \in Nat
  BY LenProperties DEF Paths
<1> QED  BY <1>1, <1>2 DEF Beneath

\* Beneath is transitive.
LEMMA BeneathTwice ==
  ASSUME NEW a \in Paths, NEW b \in Paths, NEW c \in Paths, Beneath(a, b), Beneath(b, c)
  PROVE  Beneath(a, c)
<1>1. Len(a) \in Nat /\ Len(b) \in Nat /\ Len(c) \in Nat
  BY LenProperties DEF Paths
<1>2. Len(a) < Len(b) /\ \A i \in 1..Len(a) : b[i] = a[i]
  BY BeneathIs
<1>3. Len(b) < Len(c) /\ \A i \in 1..Len(b) : c[i] = b[i]
  BY BeneathIs
<1>4. Len(a) < Len(c)
  BY <1>1, <1>2, <1>3
<1>5. ASSUME NEW i \in 1..Len(a)  PROVE c[i] = a[i]
  <2>1. i \in 1..Len(b)
    BY <1>1, <1>2
  <2> QED  BY <1>2, <1>3, <2>1
<1> QED  BY <1>4, <1>5, BeneathIs

\* What is beneath a directory is in it, or beneath one that is.
LEMMA BeneathFront ==
  ASSUME NEW d \in Paths, NEW p \in Paths, p # <<>>
  PROVE  /\ Front(p) \in Paths /\ Len(Front(p)) < Len(p) /\ Beneath(Front(p), p)
         /\ Beneath(d, p) <=> d = Front(p) \/ Beneath(d, Front(p))
<1> DEFINE f == Front(p)
           l == Len(p)
           n == Len(d)
<1>1. /\ f \in Paths /\ l \in Nat /\ l >= 1 /\ Len(f) = l - 1
      /\ \A i \in 1..(l - 1) : f[i] = p[i]
  BY FrontIs, Zenon DEF Paths
<1>2. n \in Nat
  BY LenProperties DEF Paths
<1>3. Beneath(d, p) <=> n < l /\ \A i \in 1..n : p[i] = d[i]
  BY BeneathIs
<1>4. Beneath(d, f) <=> n < Len(f) /\ \A i \in 1..n : f[i] = d[i]
  BY <1>1, BeneathIs
<1>5. Beneath(f, p) <=> Len(f) < l /\ \A i \in 1..Len(f) : p[i] = f[i]
  BY <1>1, BeneathIs
<1>6. (n = Len(f) /\ \A i \in 1..n : d[i] = f[i]) => d = f
  BY <1>1, SeqEqual DEF Paths
<1>7. d = f => n = Len(f)
  OBVIOUS
<1> HIDE DEF f, l, n
<1>8. Len(f) < l /\ Beneath(f, p)
  BY <1>1, <1>5
<1>9. ASSUME Beneath(d, p)  PROVE d = f \/ Beneath(d, f)
  <2>1. n <= l - 1 /\ \A i \in 1..n : p[i] = d[i] /\ i \in 1..(l - 1)
    BY <1>1, <1>2, <1>3, <1>9
  <2>2. \A i \in 1..n : f[i] = d[i]
    BY <1>1, <2>1
  <2>3. n = Len(f) \/ n < Len(f)
    BY <1>1, <1>2, <2>1
  <2> QED  BY <1>4, <1>6, <2>2, <2>3
<1>10. ASSUME Beneath(d, f)  PROVE Beneath(d, p)
  <2>1. n < l /\ \A i \in 1..n : f[i] = d[i] /\ i \in 1..(l - 1)
    BY <1>1, <1>2, <1>4, <1>10
  <2> QED  BY <1>1, <1>3, <2>1
<1> QED  BY <1>1, <1>8, <1>9, <1>10 DEF f, l

\* On the way from a path to what is beneath it there is an entry of the path.
LEMMA Towards ==
  ASSUME NEW h \in Paths, NEW x \in Entries, Beneath(h, x)
  PROVE  /\ h \in Dirs
         /\ \E c \in Range(Children[h]) : c = x \/ Beneath(c, x)
<1> DEFINE way == {c \in Entries : Beneath(h, c) /\ (c = x \/ Beneath(c, x))}
           lens == {Len(c) : c \in way}
<1>1. way \subseteq Paths /\ x \in way
  BY EntryIs
<1>2. lens \subseteq Nat /\ lens # {}
  <2>1. \A c \in way : Len(c) \in Nat
    BY <1>1, LenProperties DEF Paths
  <2> HIDE DEF way
  <2> QED  BY <1>1, <2>1
<1>3. PICK l \in lens : \A m \in lens : l <= m
  BY <1>2, LeastNatural
<1>4. PICK c \in way : l = Len(c)
  BY <1>3
<1>5. c \in Entries /\ c \in Paths /\ Beneath(h, c) /\ (c = x \/ Beneath(c, x)) /\ Len(c) \in Nat
  BY <1>1, <1>4, LenProperties DEF Paths
<1>6. c # <<>>
  <2>1. Len(h) < Len(c) /\ Len(h) \in Nat
    BY <1>5, BeneathIs, LenProperties DEF Paths
  <2> QED  BY <2>1
<1> DEFINE f == Front(c)
<1>7. f \in Paths /\ Len(f) < Len(c) /\ Beneath(f, c) /\ (h = f \/ Beneath(h, f))
  BY <1>5, <1>6, BeneathFront
<1>8. f \in Dirs /\ c \in Range(Children[f])
  BY <1>5, <1>6, EntryIs
<1>9. h = f
  <2> SUFFICES ASSUME Beneath(h, f)  PROVE FALSE
    BY <1>7
  <2>1. x \in Paths
    BY EntryIs
  <2>2. Beneath(f, x)
    BY <1>5, <1>7, <2>1, BeneathTwice
  <2>3. f \in way
    BY <1>8, <2>2 DEF Entries
  <2>4. Len(f) \in lens /\ Len(f) \in Nat
    BY <1>2, <2>3
  <2> HIDE DEF lens, f
  <2>5. l <= Len(f)
    BY <1>3, <2>4
  <2> QED  BY <1>4, <1>5, <1>7, <2>4, <2>5
<1> QED  BY <1>5, <1>8, <1>9

------------------------------------------------------------------------------
(* What is ignored *)

\* A module is above what is in it.
LEMMA AboveIs ==
  ASSUME NEW d \in Dirs, NEW a \in Above[d]
  PROVE  a \in Dirs /\ HasPrefix(d, a)
<1> DEFINE S == {b \in Dirs : HasPrefix(d, b)}
<1>1. d \in Paths /\ \A b \in Dirs : b \in Paths
  BY EntryIs DEF Entries
<1>2. d \in S
  <2>1. HasPrefix(d, d) <=> Len(d) <= Len(d) /\ \A i \in 1..Len(d) : d[i] = d[i]
    BY <1>1, PrefixIs DEF Paths
  <2>2. Len(d) \in Nat
    BY <1>1, LenProperties DEF Paths
  <2> QED  BY <2>1, <2>2
<1>3. ASSUME NEW b \in S  PROVE Parent[b] \in S
  <2>1. CASE b = <<>>
    BY <2>1, ParentAssumption, EntryIs
  <2>2. CASE b # <<>>
    <3> DEFINE f == Front(b)
    <3>1. Parent[b] = f /\ f \in Dirs /\ b \in Paths /\ f \in Paths
      BY <1>1, <2>2, EntryIs DEF Entries
    <3>2. Len(b) \in Nat /\ Len(d) \in Nat /\ Len(f) = Len(b) - 1 /\ \A i \in 1..(Len(b) - 1) : f[i] = b[i]
      BY <1>1, <2>2, <3>1, FrontIs, LenProperties DEF Paths
    <3>3. Len(b) <= Len(d) /\ \A i \in 1..Len(b) : d[i] = b[i]
      BY <1>1, <3>1, PrefixIs DEF Paths
    <3> HIDE DEF f
    <3>4. Len(f) <= Len(d) /\ \A i \in 1..Len(f) : d[i] = f[i]
      BY <3>2, <3>3
    <3>5. HasPrefix(d, f)
      BY <1>1, <3>1, <3>4, PrefixIs DEF Paths
    <3> QED  BY <3>1, <3>5
  <2> QED  BY <2>1, <2>2
<1>4. S \in SUBSET Dirs
  OBVIOUS
<1>5. a \in S
  BY <1>2, <1>3, <1>4 DEF Above
<1> QED  BY <1>5

\* The module of a directory is in a directory around it, or its own.
LEMMA ModuleIs ==
  ASSUME NEW g, NEW d \in Dirs, Enclosing(g)[d] # Nil
  PROVE  Enclosing(g)[d] \in Dirs /\ HasPrefix(d, Enclosing(g)[d])
<1>1. Enclosing(g)[d] \in Closest(g, d)
  BY DEF Enclosing
<1>2. Enclosing(g)[d] \in Above[d]
  BY <1>1 DEF Closest
<1> QED  BY <1>2, AboveIs

\* The code leaves out what README.md says: matching the text of directives with
\* that of a path is matching names.
LEMMA Agree ==
  ASSUME ignore \in Ignores, NEW d \in Dirs
  PROVE  shouldIgnore(d) <=> Ignored(d)
<1> DEFINE mod == Enclosing(gomod)[d]
           names == SubSeq(d, Len(mod) + 1, Len(d))
           Matches(p) == matchIgnore(Written(p), normalizePath(Rel(mod, d)))
           Means(p) == IF p.rooted THEN names = p.names ELSE HasSuffix(names, p.names)
<1>1. \A p \in ignore : p \in Directives
  BY IgnoresAssumption DEF Directives, Names
<1>2. ASSUME mod # Nil, NEW p \in ignore  PROVE Matches(p) <=> Means(p)
  <2>1. p \in Directives /\ p.names \in Seq(Names) /\ p.names # <<>>
    BY <1>1 DEF Directives
  <2>2. mod \in Dirs /\ HasPrefix(d, mod)
    BY <1>2, ModuleIs
  <2>3. mod \in Paths /\ d \in Paths
    BY <2>2, EntryIs DEF Entries
  <2>a. mod = Enclosing(gomod)[d]
    OBVIOUS
  <2> HIDE DEF mod
  <2>4. Len(mod) <= Len(d) /\ \A i \in 1..Len(mod) : d[i] = mod[i]
    BY <2>2, <2>3, PrefixIs DEF Paths
  <2>5. Len(mod) \in Nat /\ Len(d) \in Nat
    BY <2>3, LenProperties DEF Paths
  <2>6. names \in Seq(Names) /\ Len(names) = Len(d) - Len(mod)
    <3>1. /\ Len(mod) + 1 \in 1..(Len(d) + 1) /\ Len(d) \in 0..Len(d)
          /\ Len(mod) + 1 <= Len(d) + 1
      BY <2>4, <2>5
    <3>2. names \in Seq(Names) /\ Len(names) = Len(d) - (Len(mod) + 1) + 1
      BY <2>3, <3>1, PartIs DEF Paths
    <3> QED  BY <2>5, <3>2
  <2>7. CASE mod = d
    <3> HIDE DEF names
    <3>1. names = <<>>
      <4>1. Len(names) = 0
        BY <2>5, <2>6, <2>7
      <4> QED  BY <2>6, <4>1, EmptySeq
    <3>2. ~ Means(p)
      <4>1. HasSuffix(<<>>, p.names) <=> p.names = <<>>
        BY <2>1, SuffixEmpty, Zenon
      <4> QED  BY <2>1, <3>1, <4>1
    <3>3. Rel(mod, d) = <<".">>
      BY <2>7 DEF Rel
    <3>4. ~ matchIgnore(Written(p), normalizePath(<<".">>))
      BY <2>1, MatchDot, Zenon
    <3> QED  BY <3>2, <3>3, <3>4
  <2>8. CASE mod # d
    <3>1. Len(mod) # Len(d)
      BY <2>3, <2>4, <2>8, SeqEqual DEF Paths
    <3>2. names # <<>>
      <4>1. Len(names) > 0
        BY <2>4, <2>5, <2>6, <3>1
      <4> HIDE DEF names
      <4> QED  BY <4>1, EmptySeq
    <3>3. Rel(mod, d) = Spell(names)
      BY <2>8 DEF Rel
    <3> HIDE DEF names
    <3>4. matchIgnore(Written(p), normalizePath(Spell(names))) <=> Means(p)
      BY <2>1, <2>6, <3>2, MatchNames, Zenon
    <3> QED  BY <3>3, <3>4
  <2> QED  BY <2>7, <2>8
<1>3. shouldIgnore(d) <=> Base(d) \in SkipNames \/ (mod # Nil /\ \E p \in ignore : Matches(p))
  BY DEF shouldIgnore
<1>4. Ignored(d) <=> Base(d) \in SkipNames \/ (mod # Nil /\ \E p \in ignore : Means(p))
  BY DEF Ignored
<1> HIDE DEF Matches, Means, mod, names
<1> QED  BY <1>2, <1>3, <1>4

------------------------------------------------------------------------------
(* The invariant *)

\* A call of Add or AddReport.
Task == [kind : {"file", "report"}, arg : Nat, path : Paths, rules : BOOLEAN]

\* The variables' types; nothing is added for an argument before its walk.
Typed ==
  /\ ignore \in Ignores /\ args \in Seq(Paths)
  /\ arg \in 0..Len(args) /\ todo \in Seq(Paths) /\ (arg = 0 => todo = <<>>)
  /\ tasks \in Seq(Task) /\ \A i \in 1..Len(tasks) : tasks[i].arg <= arg

\* What a walk of a is given to visit: a, and what is in directories it has read.
Offered(a, p) ==
  \/ p = a
  \/ /\ p \in Entries /\ Beneath(a, p)
     /\ \A d \in Dirs : Beneath(a, d) /\ Beneath(d, p) => ~Ignored(d)

\* What makes the walk of an argument fail.
Fails(a) ==
  \/ a \notin Entries
  \/ failing \intersect ((Wanted(a) \ {a}) \union (Reached(a) \intersect Dirs)) # {}

\* A walk still gets to x, or it was there and nothing failed.
Pending(x) == \E p \in Range(todo) : x = p \/ Beneath(p, x)
Visited(k, x) ==
  /\ x \in Entries
  /\ x \in Dirs => x \notin failing
  /\ x \in Wanted(args[k]) => x \in Added(k) /\ (x \in failing => x = args[k])

\* A walk that has ended.
Right(k) ==
  /\ Added(k) \subseteq Wanted(args[k])
  /\ Reports(k) = {} => Added(k) = Wanted(args[k])
  /\ Reports(k) # {} <=> Fails(args[k])

\* The walk that goes on.
Current(k) ==
  /\ \A p \in Range(todo) : Offered(args[k], p)
  /\ Added(k) \subseteq Wanted(args[k])
  /\ Reports(k) # {} => todo = <<>> /\ Fails(args[k])
  /\ Reports(k) = {} => \A x \in Reached(args[k]) \union {args[k]} : Pending(x) \/ Visited(k, x)

\* The walks that ended are right, and the one that goes on can become it.
Inv ==
  /\ Typed
  /\ \A k \in 1..arg : k < arg => Right(k)
  /\ arg > 0 => Current(arg)

\* Nothing changes what is ignored, wanted or fails.
LEMMA InputsKept ==
  ASSUME inputs' = inputs
  PROVE  /\ \A d : Ignored(d)' <=> Ignored(d)
         /\ \A a : Reached(a)' = Reached(a)
         /\ \A a : Wanted(a)' = Wanted(a)
         /\ \A a : Fails(a)' <=> Fails(a)
         /\ \A a, p : Offered(a, p)' <=> Offered(a, p)
<1>1. gomod' = gomod /\ ignore' = ignore /\ failing' = failing
  BY DEF inputs
<1>2. ASSUME NEW d  PROVE Ignored(d)' <=> Ignored(d)
  BY <1>1 DEF Ignored
<1>3. ASSUME NEW a  PROVE Reached(a)' = Reached(a)
  BY <1>2 DEF Reached
<1>4. ASSUME NEW a  PROVE Wanted(a)' = Wanted(a)
  BY <1>3 DEF Wanted
<1>5. ASSUME NEW a  PROVE Fails(a)' <=> Fails(a)
  BY <1>1, <1>3, <1>4 DEF Fails
<1>6. ASSUME NEW a, NEW p  PROVE Offered(a, p)' <=> Offered(a, p)
  BY <1>2 DEF Offered
<1> QED  BY <1>2, <1>3, <1>4, <1>5, <1>6

\* The first of a sequence, and the others.
LEMMA RangeTail ==
  ASSUME NEW S, NEW s \in Seq(S), s # <<>>
  PROVE  /\ Head(s) \in S /\ Tail(s) \in Seq(S)
         /\ Range(s) = {Head(s)} \union Range(Tail(s))
<1>1. /\ Head(s) \in S /\ Tail(s) \in Seq(S) /\ Len(Tail(s)) = Len(s) - 1
      /\ \A i \in 1..Len(Tail(s)) : Tail(s)[i] = s[i + 1]
  BY HeadTailProperties
<1>2. Len(s) \in Nat /\ Len(s) >= 1 /\ DOMAIN s = 1..Len(s)
  BY EmptySeq, LenProperties
<1>3. DOMAIN Tail(s) = 1..Len(Tail(s))
  BY <1>1, LenProperties
<1>4. Head(s) = s[1]
  OBVIOUS
<1> DEFINE t == Tail(s)
<1> HIDE DEF t
<1>5. ASSUME NEW x \in Range(s)  PROVE x = Head(s) \/ x \in Range(t)
  <2>1. PICK i \in 1..Len(s) : x = s[i]
    BY <1>2 DEF Range
  <2>2. CASE i = 1
    BY <1>4, <2>1, <2>2
  <2>3. CASE i # 1
    <3>1. i - 1 \in 1..Len(t) /\ i - 1 + 1 = i
      BY <1>1, <1>2, <2>3 DEF t
    <3>2. t[i - 1] = s[i]
      BY <1>1, <3>1 DEF t
    <3> QED  BY <1>3, <2>1, <3>1, <3>2 DEF Range, t
  <2> QED  BY <2>2, <2>3
<1>6. ASSUME NEW x \in Range(t)  PROVE x \in Range(s)
  <2>1. PICK i \in 1..Len(t) : x = t[i]
    BY <1>3 DEF Range, t
  <2>2. i + 1 \in 1..Len(s) /\ t[i] = s[i + 1]
    BY <1>1, <1>2 DEF t
  <2> QED  BY <1>2, <2>1, <2>2 DEF Range
<1>7. Head(s) \in Range(s)
  BY <1>2, <1>4 DEF Range
<1> QED  BY <1>1, <1>5, <1>6, <1>7 DEF t

\* What is in two sequences, one after the other.
LEMMA RangeConcat ==
  ASSUME NEW S, NEW s \in Seq(S), NEW t \in Seq(S)
  PROVE  s \o t \in Seq(S) /\ Range(s \o t) = Range(s) \union Range(t)
<1> DEFINE c == s \o t
           m == Len(s)
           n == Len(t)
<1>1. /\ c \in Seq(S) /\ Len(c) = m + n
      /\ \A i \in 1..(m + n) : c[i] = IF i <= m THEN s[i] ELSE t[i - m]
  BY ConcatProperties, Zenon
<1>2. DOMAIN s = 1..m /\ DOMAIN t = 1..n /\ m \in Nat /\ n \in Nat
  BY LenProperties
<1>3. DOMAIN c = 1..(m + n)
  <2> HIDE DEF c
  <2> QED  BY <1>1, LenProperties
<1> HIDE DEF c, m, n
<1>4. ASSUME NEW x \in Range(c)  PROVE x \in Range(s) \union Range(t)
  <2>1. PICK i \in 1..(m + n) : x = c[i]
    BY <1>3 DEF Range
  <2>2. CASE i <= m
    <3>1. i \in 1..m /\ c[i] = s[i]
      BY <1>1, <1>2, <2>2
    <3> QED  BY <1>2, <2>1, <3>1 DEF Range
  <2>3. CASE ~ (i <= m)
    <3>1. i - m \in 1..n /\ c[i] = t[i - m]
      BY <1>1, <1>2, <2>3
    <3> QED  BY <1>2, <2>1, <3>1 DEF Range
  <2> QED  BY <2>2, <2>3
<1>5. ASSUME NEW x \in Range(s)  PROVE x \in Range(c)
  <2>1. PICK i \in 1..m : x = s[i]
    BY <1>2 DEF Range
  <2>2. i \in 1..(m + n) /\ i <= m
    BY <1>2
  <2>3. c[i] = s[i]
    BY <1>1, <2>2
  <2> QED  BY <1>3, <2>1, <2>2, <2>3 DEF Range
<1>6. ASSUME NEW x \in Range(t)  PROVE x \in Range(c)
  <2>1. PICK i \in 1..n : x = t[i]
    BY <1>2 DEF Range
  <2>2. m + i \in 1..(m + n) /\ ~ (m + i <= m) /\ m + i - m = i
    BY <1>2
  <2>3. c[m + i] = IF m + i <= m THEN s[m + i] ELSE t[m + i - m]
    BY <1>1, <1>2, <2>2
  <2> QED  BY <1>3, <2>1, <2>2, <2>3 DEF Range
<1> QED  BY <1>1, <1>4, <1>5, <1>6 DEF c

\* A task more.
LEMMA AddChanges ==
  ASSUME Typed, todo # <<>>, NEW kind \in {"file", "report"}, NEW path \in Paths, Add(kind, path)
  PROVE  /\ tasks' \in Seq(Task) /\ \A i \in 1..Len(tasks') : tasks'[i].arg <= arg
         /\ \A k \in Nat :
              /\ Added(k)' = Added(k) \union
                               (IF k = arg /\ kind = "file" THEN {path} ELSE {})
              /\ k # arg \/ kind = "file" => Reports(k)' = Reports(k)
              /\ k = arg /\ kind = "report" => Reports(k)' # {}
<1> DEFINE t == [kind |-> kind, arg |-> arg, path |-> path,
                 rules |-> Explicit \/ path \notin Generated]
           n == Len(tasks)
           s == Append(tasks, t)
<1>1. arg \in Nat /\ tasks \in Seq(Task)
  BY LenProperties DEF Typed
<1>2. t \in Task
  BY <1>1 DEF Task
<1>3. tasks' = s
  BY DEF Add
<1>a. t.kind = kind /\ t.arg = arg /\ t.path = path
  OBVIOUS
<1>b. \A i \in 1..n : tasks[i].arg <= arg
  BY DEF Typed
<1> HIDE DEF t
<1>4. /\ s \in Seq(Task) /\ Len(s) = n + 1
      /\ \A i \in 1..n : s[i] = tasks[i]
      /\ s[n + 1] = t
  BY <1>1, <1>2, AppendProperties
<1>5. n \in Nat
  BY <1>1, LenProperties
<1> HIDE DEF s, n
<1>6. 1..(n + 1) = (1..n) \union {n + 1}
  BY <1>5
<1>7. \A i \in 1..(n + 1) : s[i].arg <= arg
  <2>1. \A i \in 1..n : s[i].arg <= arg
    BY <1>4, <1>b
  <2>2. s[n + 1].arg <= arg
    BY <1>1, <1>4, <1>a
  <2> QED  BY <1>6, <2>1, <2>2
<1>8. ASSUME NEW k \in Nat
      PROVE  /\ Added(k)' = Added(k) \union (IF k = arg /\ kind = "file" THEN {path} ELSE {})
             /\ k # arg \/ kind = "file" => Reports(k)' = Reports(k)
             /\ k = arg /\ kind = "report" => Reports(k)' # {}
  <2>1. Added(k)' = {s[i].path : i \in {j \in 1..(n + 1) : s[j].arg = k /\ s[j].kind = "file"}}
    BY <1>3, <1>4 DEF Added
  <2>2. Added(k) = {tasks[i].path : i \in {j \in 1..n : tasks[j].arg = k /\ tasks[j].kind = "file"}}
    BY DEF Added, n
  <2>3. Reports(k)' = {i \in 1..(n + 1) : s[i].arg = k /\ s[i].kind = "report"}
    BY <1>3, <1>4 DEF Reports
  <2>4. Reports(k) = {i \in 1..n : tasks[i].arg = k /\ tasks[i].kind = "report"}
    BY DEF Reports, n
  <2>5. Added(k)' = Added(k) \union (IF k = arg /\ kind = "file" THEN {path} ELSE {})
    <3>1. ASSUME NEW x \in Added(k)'
          PROVE  x \in Added(k) \union (IF k = arg /\ kind = "file" THEN {path} ELSE {})
      <4>1. PICK i \in 1..(n + 1) : s[i].arg = k /\ s[i].kind = "file" /\ x = s[i].path
        BY <2>1, <3>1
      <4>2. CASE i \in 1..n
        BY <1>4, <2>2, <4>1, <4>2
      <4>3. CASE i = n + 1
        BY <1>4, <1>a, <4>1, <4>3
      <4> QED  BY <1>6, <4>2, <4>3
    <3>2. ASSUME NEW x \in Added(k)  PROVE x \in Added(k)'
      <4>1. PICK i \in 1..n : tasks[i].arg = k /\ tasks[i].kind = "file" /\ x = tasks[i].path
        BY <2>2, <3>2
      <4>2. i \in 1..(n + 1) /\ s[i] = tasks[i]
        BY <1>4, <1>6
      <4> QED  BY <2>1, <4>1, <4>2
    <3>3. k = arg /\ kind = "file" => path \in Added(k)'
      <4>1. n + 1 \in 1..(n + 1)
        BY <1>6
      <4> QED  BY <1>4, <1>a, <2>1, <4>1
    <3> QED  BY <3>1, <3>2, <3>3
  <2>6. ASSUME k # arg \/ kind = "file"  PROVE Reports(k)' = Reports(k)
    <3>1. ~ (s[n + 1].arg = k /\ s[n + 1].kind = "report")
      BY <1>4, <1>a, <2>6
    <3> QED  BY <1>4, <1>6, <2>3, <2>4, <3>1
  <2>7. ASSUME k = arg, kind = "report"  PROVE Reports(k)' # {}
    <3>1. n + 1 \in 1..(n + 1)
      BY <1>6
    <3> QED  BY <1>4, <1>a, <2>3, <2>7, <3>1
  <2> QED  BY <2>5, <2>6, <2>7
<1> QED  BY <1>3, <1>4, <1>7, <1>8

------------------------------------------------------------------------------
(* The steps *)

\* What is known when a path is visited.
LEMMA VisitIs ==
  ASSUME Inv, todo # <<>>
  PROVE  /\ arg \in 1..Len(args) /\ arg > 0 /\ args[arg] \in Paths
         /\ Path \in Paths /\ Tail(todo) \in Seq(Paths)
         /\ Range(todo) = {Path} \union Range(Tail(todo))
         /\ Offered(args[arg], Path) /\ Reports(arg) = {} /\ Current(arg)
<1>1. /\ arg \in 0..Len(args) /\ arg # 0 /\ args \in Seq(Paths) /\ todo \in Seq(Paths)
      /\ Len(args) \in Nat
  BY LenProperties DEF Inv, Typed
<1>2. arg \in 1..Len(args) /\ arg > 0
  BY <1>1
<1>3. args[arg] \in Paths
  BY <1>1, <1>2, ElementOfSeq
<1>4. Path \in Paths /\ Tail(todo) \in Seq(Paths) /\ Range(todo) = {Path} \union Range(Tail(todo))
  BY <1>1, RangeTail, Zenon DEF Path
<1>5. Current(arg)
  BY <1>2 DEF Inv
<1>6. Offered(args[arg], Path) /\ Reports(arg) = {}
  BY <1>4, <1>5 DEF Current
<1> QED  BY <1>2, <1>3, <1>4, <1>5, <1>6

\* What is offered and no ignored directory is reached.
LEMMA ReachedIs ==
  ASSUME NEW a \in Paths, NEW p \in Entries, Offered(a, p),
         p \in Dirs /\ p # a => ~ Ignored(p)
  PROVE  p \in Reached(a)
<1>1. p \in Paths /\ \A d \in Dirs : d \in Paths
  BY EntryIs DEF Entries
<1>2. Len(a) \in Nat /\ ~ Beneath(a, a)
  BY LenProperties DEF Paths, Beneath
<1>3. CASE p = a
  <2>1. \A d \in Dirs : ~ (Beneath(a, d) /\ (d = p \/ Beneath(d, p)))
    <3> SUFFICES ASSUME NEW d \in Dirs, Beneath(a, d), Beneath(d, a)  PROVE FALSE
      BY <1>2, <1>3
    <3> QED  BY <1>1, <1>2, BeneathTwice
  <2> QED  BY <1>3, <2>1 DEF Reached, Entries
<1>4. CASE p # a
  BY <1>4 DEF Reached, Entries, Offered
<1> QED  BY <1>3, <1>4

\* The tasks of other arguments, and what is right about them, stay.
OthersKept ==
  \A k \in Nat : k < arg => Added(k)' = Added(k) /\ Reports(k)' = Reports(k)

\* The walks that ended before stay right.
LEMMA OthersRight ==
  ASSUME Inv, inputs' = inputs, OthersKept, NEW n \in Nat, n \in 1..arg, n < arg
  PROVE  Right(n)'
<1>1. Right(n)
  BY DEF Inv
<1>2. Added(n)' = Added(n) /\ Reports(n)' = Reports(n)
  BY DEF OthersKept
<1>3. args' = args
  BY DEF inputs
<1>4. /\ Wanted(args[n])' = Wanted(args[n])
      /\ Fails(args[n])' <=> Fails(args[n])
  BY <1>3, InputsKept
<1> QED  BY <1>1, <1>2, <1>3, <1>4 DEF Right

\* A visit of one path that leaves the walk going on.
GoesOn ==
  /\ \A p \in Range(todo') : Offered(args[arg], p)
  /\ Range(Tail(todo)) \subseteq Range(todo')
  /\ \A x \in Reached(args[arg]) \union {args[arg]} :
       x = Path \/ Beneath(Path, x) => Pending(x)' \/ Visited(arg, x)'
  /\ Reports(arg)' = {}
  /\ Added(arg) \subseteq Added(arg)' /\ Added(arg)' \subseteq Wanted(args[arg])

\* A visit after which the walk goes on keeps the invariant.
LEMMA VisitKeeps ==
  ASSUME Inv, Visiting, Typed', OthersKept, GoesOn
  PROVE  Inv'
<1> DEFINE a == args[arg]
<1>1. /\ arg \in 1..Len(args) /\ a \in Paths /\ arg \in Nat /\ arg > 0
      /\ Range(todo) = {Path} \union Range(Tail(todo))
      /\ Reports(arg) = {} /\ Current(arg)
  BY VisitIs DEF Visiting
<1>2. inputs' = inputs /\ arg' = arg /\ args' = args /\ failing' = failing
  BY DEF Visiting, inputs
<1>3. /\ Reached(a)' = Reached(a) /\ Wanted(a)' = Wanted(a)
      /\ \A p : Offered(a, p)' <=> Offered(a, p)
  BY <1>2, InputsKept
<1>4. \A k \in 1..arg' : k < arg' => Right(k)'
  BY <1>1, <1>2, OthersRight
<1>5. ASSUME NEW x \in Reached(a) \union {a}  PROVE Pending(x)' \/ Visited(arg, x)'
  <2>1. Pending(x) \/ Visited(arg, x)
    BY <1>1 DEF Current
  <2>2. CASE Visited(arg, x)
    <3>1. Visited(arg, x)'
      BY <1>2, <1>3, <2>2 DEF Visited, GoesOn
    <3> QED  BY <3>1
  <2>3. CASE Pending(x)
    <3>1. PICK p \in Range(todo) : x = p \/ Beneath(p, x)
      BY <2>3 DEF Pending
    <3>2. CASE p = Path
      BY <3>1, <3>2 DEF GoesOn
    <3>3. CASE p \in Range(Tail(todo))
      <4>1. p \in Range(todo')
        BY <3>3 DEF GoesOn
      <4> QED  BY <3>1, <4>1 DEF Pending
    <3> QED  BY <1>1, <3>2, <3>3
  <2> QED  BY <2>1, <2>2, <2>3
<1>6. Current(arg)'
  <2>1. \A p \in Range(todo)' : Offered(args[arg], p)'
    BY <1>2, <1>3 DEF GoesOn
  <2>2. Added(arg)' \subseteq Wanted(args[arg])'
    BY <1>2, <1>3 DEF GoesOn
  <2>3. Reports(arg)' = {}
    BY DEF GoesOn
  <2>4. \A x \in (Reached(args[arg]) \union {args[arg]})' : Pending(x)' \/ Visited(arg, x)'
    BY <1>2, <1>3, <1>5
  <2> QED  BY <2>1, <2>2, <2>3, <2>4 DEF Current
<1> QED  BY <1>2, <1>4, <1>6 DEF Inv

\* A visit that fails ends the walk.
LEMMA AbortKeeps ==
  ASSUME Inv, Visiting, Abort, Fails(args[arg])
  PROVE  Inv'
<1>1. /\ arg \in 1..Len(args) /\ arg \in Nat /\ arg > 0 /\ Path \in Paths /\ Current(arg)
  BY VisitIs DEF Visiting
<1>2. inputs' = inputs /\ arg' = arg /\ args' = args /\ ignore' = ignore
  BY DEF Visiting, inputs
<1>3. Typed /\ todo # <<>>
  BY DEF Inv, Visiting
<1>4. Add("report", Path) /\ todo' = <<>>
  BY DEF Abort
<1>5. /\ tasks' \in Seq(Task) /\ \A i \in 1..Len(tasks') : tasks'[i].arg <= arg
      /\ \A k \in Nat :
           /\ Added(k)' = Added(k) \union (IF k = arg /\ "report" = "file" THEN {Path} ELSE {})
           /\ k # arg \/ "report" = "file" => Reports(k)' = Reports(k)
           /\ k = arg /\ "report" = "report" => Reports(k)' # {}
  BY <1>1, <1>3, <1>4, AddChanges
<1>6. \A k \in Nat : /\ Added(k)' = Added(k)
                     /\ k # arg => Reports(k)' = Reports(k)
                     /\ k = arg => Reports(k)' # {}
  BY <1>5
<1>7. Typed'
  <2>1. todo' \in Seq(Paths)
    BY <1>4
  <2>2. ignore \in Ignores /\ args \in Seq(Paths) /\ arg \in 0..Len(args)
    BY <1>3 DEF Typed
  <2> QED  BY <1>1, <1>2, <1>4, <1>5, <2>1, <2>2 DEF Typed
<1>8. OthersKept
  BY <1>1, <1>6 DEF OthersKept
<1>9. \A k \in 1..arg' : k < arg' => Right(k)'
  BY <1>1, <1>2, <1>8, OthersRight
<1>10. Added(arg)' = Added(arg) /\ Reports(arg)' # {}
  <2>1. PICK n \in Nat : n = arg
    BY <1>1
  <2>2. Added(n)' = Added(n) /\ Reports(n)' # {}
    BY <1>6, <2>1
  <2>3. n = arg'
    BY <1>2, <2>1
  <2> QED  BY <2>1, <2>2, <2>3 DEF Added, Reports
<1>11. Current(arg)'
  <2>1. Range(todo') = {}
    BY <1>4 DEF Range
  <2>2. Added(arg)' \subseteq Wanted(args[arg])'
    <3>1. Added(arg) \subseteq Wanted(args[arg])
      BY <1>1 DEF Current
    <3>2. Wanted(args[arg])' = Wanted(args[arg])
      BY <1>2, InputsKept
    <3> QED  BY <1>10, <3>1, <3>2
  <2>3. Fails(args[arg])'
    BY <1>2, InputsKept
  <2>4. Reports(arg)' # {}
    BY <1>10
  <2> QED  BY <1>4, <2>1, <2>2, <2>3, <2>4 DEF Current
<1> QED  BY <1>2, <1>7, <1>9, <1>11 DEF Inv

\* A visit that adds no task.
LEMMA NothingAdded ==
  ASSUME Inv, Visiting, tasks' = tasks
  PROVE  OthersKept /\ Added(arg)' = Added(arg) /\ Reports(arg)' = Reports(arg)
<1>1. arg' = arg
  BY DEF Visiting
<1>2. \A k : Added(k)' = Added(k) /\ Reports(k)' = Reports(k)
  BY DEF Added, Reports
<1>3. Added(arg)' = Added(arg) /\ Reports(arg)' = Reports(arg)
  BY <1>1 DEF Added, Reports
<1> QED  BY <1>2, <1>3 DEF OthersKept

\* The types, with other paths to visit.
LEMMA TypedVisit ==
  ASSUME Inv, Visiting, tasks' = tasks, todo' \in Seq(Paths)
  PROVE  Typed'
<1>1. inputs' = inputs /\ arg' = arg /\ args' = args /\ ignore' = ignore /\ Typed
  BY DEF Visiting, inputs, Inv
<1>2. arg > 0
  BY VisitIs DEF Visiting
<1>3. arg # 0
  BY <1>2
<1> QED  BY <1>1, <1>3 DEF Typed

\* An argument that is not there.
LEMMA MissingArgInv ==
  ASSUME Inv, MissingArg  PROVE Inv'
<1>1. Visiting /\ Path \notin Entries /\ Abort
  BY DEF MissingArg, Entries
<1>2. Offered(args[arg], Path)
  BY <1>1, VisitIs DEF Visiting
<1>3. Fails(args[arg])
  BY <1>1, <1>2 DEF Offered, Fails
<1> QED  BY <1>1, <1>3, AbortKeeps

\* An ignored directory: nothing beneath it is reached, so nothing is lost.
LEMMA SkipDirInv ==
  ASSUME Inv, SkipDir  PROVE Inv'
<1> DEFINE a == args[arg]
<1>1. /\ Visiting /\ todo # <<>> /\ Path \in Dirs /\ Path # a /\ shouldIgnore(Path)
      /\ todo' = Tail(todo) /\ tasks' = tasks
  BY DEF SkipDir, Visiting, Explicit
<1>2. /\ a \in Paths /\ Path \in Paths /\ Tail(todo) \in Seq(Paths)
      /\ Range(todo) = {Path} \union Range(Tail(todo))
      /\ Offered(a, Path) /\ Reports(arg) = {} /\ Current(arg)
  BY <1>1, VisitIs
<1>3. Ignored(Path) /\ Beneath(a, Path)
  <2>1. ignore \in Ignores
    BY DEF Inv, Typed
  <2>2. Ignored(Path)
    BY <1>1, <2>1, Agree
  <2> QED  BY <1>1, <1>2, <2>2 DEF Offered
<1>4. ASSUME NEW x \in Reached(a) \union {a}, x = Path \/ Beneath(Path, x)  PROVE FALSE
  <2>1. CASE x \in Reached(a)
    BY <1>1, <1>3, <1>4, <2>1 DEF Reached
  <2>2. CASE x = a
    <3>1. Beneath(Path, a)
      BY <1>1, <1>4, <2>2
    <3>2. Len(Path) < Len(a) /\ Len(a) < Len(Path)
      BY <1>3, <3>1 DEF Beneath
    <3>3. Len(Path) \in Nat /\ Len(a) \in Nat
      BY <1>2, LenProperties DEF Paths
    <3> QED  BY <3>2, <3>3
  <2> QED  BY <2>1, <2>2
<1>5. /\ OthersKept /\ Added(arg)' = Added(arg) /\ Reports(arg)' = Reports(arg)
      /\ Typed'
  BY <1>1, <1>2, NothingAdded, TypedVisit
<1>6. GoesOn
  BY <1>1, <1>2, <1>4, <1>5 DEF GoesOn, Current
<1> QED  BY <1>1, <1>5, <1>6, VisitKeeps

\* A directory that is read: its entries stand for all that is beneath it.
LEMMA EnterDirInv ==
  ASSUME Inv, EnterDir  PROVE Inv'
<1> DEFINE a == args[arg]
           h == Path
<1>1. /\ Visiting /\ todo # <<>> /\ h \in Dirs /\ (h = a \/ ~ shouldIgnore(h))
  BY DEF EnterDir, Visiting, Explicit
<1>2. /\ a \in Paths /\ h \in Paths /\ Tail(todo) \in Seq(Paths)
      /\ Range(todo) = {h} \union Range(Tail(todo))
      /\ Offered(a, h) /\ Reports(arg) = {} /\ Current(arg)
  BY <1>1, VisitIs
<1>3. h # a => ~ Ignored(h)
  <2>1. ignore \in Ignores
    BY DEF Inv, Typed
  <2> QED  BY <1>1, <2>1, Agree
<1>4. h \in Reached(a) /\ h \in Entries
  <2>1. h \in Entries
    BY <1>1 DEF Entries
  <2> QED  BY <1>2, <1>3, <2>1, ReachedIs
<1>5. CASE h \in failing
  <2>1. Abort
    BY <1>5 DEF EnterDir
  <2>2. Fails(a)
    BY <1>1, <1>4, <1>5 DEF Fails
  <2> QED  BY <1>1, <2>1, <2>2, AbortKeeps
<1>6. CASE h \notin failing
  <2> DEFINE kids == Children[h]
  <2>1. todo' = kids \o Tail(todo) /\ tasks' = tasks
    BY <1>6 DEF EnterDir
  <2>2. kids \in Seq(Entries) /\ \A c \in Range(kids) : c \in Entries /\ c # <<>> /\ Front(c) = h
    BY <1>1, EntryIs
  <2>3. kids \in Seq(Paths)
    BY <2>2, EntryIs
  <2> HIDE DEF kids, h, a
  <2>4. todo' \in Seq(Paths) /\ Range(todo') = Range(kids) \union Range(Tail(todo))
    <3> DEFINE rest == Tail(todo)
    <3>1. rest \in Seq(Paths) /\ todo' = kids \o rest
      BY <1>2, <2>1
    <3> HIDE DEF rest
    <3>2. kids \o rest \in Seq(Paths) /\ Range(kids \o rest) = Range(kids) \union Range(rest)
      BY <2>3, <3>1, RangeConcat
    <3>3. todo' \in Seq(Paths) /\ Range(todo') = Range(kids) \union Range(rest)
      BY <3>1, <3>2
    <3> QED  BY <3>3 DEF rest
  <2>5. /\ OthersKept /\ Added(arg)' = Added(arg) /\ Reports(arg)' = Reports(arg)
        /\ Typed'
    BY <1>1, <2>1, <2>4, NothingAdded, TypedVisit
  <2>6. ASSUME NEW c \in Range(kids)  PROVE Offered(a, c)
    <3>1. c \in Entries /\ c # <<>> /\ Front(c) = h /\ c \in Paths
      BY <2>2, EntryIs
    <3>2. Beneath(h, c)
      BY <3>1, BeneathFront
    <3>3. Beneath(a, c)
      <4>1. h = a \/ Beneath(a, h)
        BY <1>2 DEF Offered
      <4> QED  BY <1>2, <3>1, <3>2, <4>1, BeneathTwice
    <3>4. ASSUME NEW d \in Dirs, Beneath(a, d), Beneath(d, c)  PROVE ~ Ignored(d)
      <4>1. d \in Paths
        BY EntryIs DEF Entries
      <4>2. d = h \/ Beneath(d, h)
        BY <3>1, <3>4, <4>1, BeneathFront
      <4>3. CASE d = h
        <5>1. h # a
          <6>1. Len(a) \in Nat
            BY <1>2, LenProperties DEF Paths
          <6>2. Len(a) < Len(d)
            BY <3>4 DEF Beneath
          <6> QED  BY <4>3, <6>1, <6>2
        <5> QED  BY <1>3, <4>3, <5>1
      <4>4. CASE Beneath(d, h)
        <5>1. h # a
          <6> SUFFICES ASSUME h = a  PROVE FALSE
            OBVIOUS
          <6>1. Len(a) < Len(d) /\ Len(d) < Len(a) /\ Len(a) \in Nat /\ Len(d) \in Nat
            BY <1>2, <3>4, <4>1, <4>4, LenProperties DEF Beneath, Paths
          <6> QED  BY <6>1
        <5> QED  BY <1>2, <3>4, <4>4, <5>1 DEF Offered
      <4> QED  BY <4>2, <4>3, <4>4
    <3> QED  BY <3>1, <3>3, <3>4 DEF Offered
  <2>7. ASSUME NEW x \in Reached(a) \union {a}, x = h \/ Beneath(h, x)
        PROVE  Pending(x)' \/ Visited(arg, x)'
    <3>1. CASE x = h
      <4>1. args' = args /\ failing' = failing /\ inputs' = inputs /\ arg' = arg
        BY <1>1 DEF Visiting, inputs
      <4>2. h \notin Wanted(a)
        BY <1>1, EntryIs DEF Wanted, h
      <4>3. Wanted(a)' = Wanted(a)
        BY <4>1, InputsKept DEF a
      <4>4. Visited(arg, x)'
        <5>1. x \in Entries /\ x \notin failing
          BY <1>4, <1>6, <3>1
        <5>2. (args[arg])' = a /\ x \notin Wanted(args[arg])'
          BY <3>1, <4>1, <4>2, <4>3 DEF a
        <5> QED  BY <4>1, <5>1, <5>2 DEF Visited
      <4> QED  BY <4>4
    <3>2. CASE Beneath(h, x)
      <4>1. x \in Entries
        <5>1. CASE x \in Reached(a)
          BY <5>1 DEF Reached, Entries
        <5>2. CASE x = a
          <6>1. h # a
            <7>1. Len(a) \in Nat
              BY <1>2, LenProperties DEF Paths
            <7>2. Len(h) < Len(a)
              BY <3>2, <5>2 DEF Beneath
            <7> QED  BY <7>1, <7>2
          <6>2. Beneath(a, h)
            BY <1>2, <6>1 DEF Offered
          <6>3. Len(a) < Len(h) /\ Len(h) < Len(a) /\ Len(a) \in Nat /\ Len(h) \in Nat
            BY <1>2, <3>2, <5>2, <6>2, LenProperties DEF Beneath, Paths
          <6> QED  BY <6>3
        <5> QED  BY <5>1, <5>2
      <4>2. PICK c \in Range(kids) : c = x \/ Beneath(c, x)
        BY <1>2, <3>2, <4>1, Towards DEF kids
      <4>3. c \in Range(todo')
        BY <2>4
      <4> QED  BY <4>2, <4>3 DEF Pending
    <3> QED  BY <2>7, <3>1, <3>2
  <2>8. GoesOn
    <3>1. \A p \in Range(todo') : Offered(args[arg], p)
      BY <1>2, <2>4, <2>6 DEF Current, a
    <3> QED  BY <1>2, <2>4, <2>5, <2>7, <3>1 DEF GoesOn, Current, a, h
  <2> QED  BY <1>1, <2>5, <2>8, VisitKeeps
<1> QED  BY <1>5, <1>6

\* Nothing is beneath a file.
LEMMA FileAlone ==
  ASSUME Inv, todo # <<>>, Path \in Files,
         NEW x \in Reached(args[arg]) \union {args[arg]}, x = Path \/ Beneath(Path, x)
  PROVE  x = Path
<1> DEFINE a == args[arg]
           h == Path
<1>1. a \in Paths /\ h \in Paths /\ Offered(a, h) /\ h \notin Dirs
  BY VisitIs, EntryIs
<1> SUFFICES ASSUME Beneath(h, x)  PROVE FALSE
  OBVIOUS
<1>2. x \in Paths
  BY <1>1, EntryIs DEF Reached, Entries
<1>3. CASE x \in Entries
  BY <1>1, <1>3, Towards
<1>4. CASE x \notin Entries
  <2>1. x = a
    BY <1>4 DEF Reached, Entries
  <2>2. Len(h) < Len(a) /\ Len(h) \in Nat /\ Len(a) \in Nat
    BY <1>1, <2>1, LenProperties DEF Beneath, Paths
  <2>3. Len(a) < Len(h) \/ h = a
    BY <1>1 DEF Offered, Beneath
  <2> HIDE DEF h, a
  <2> QED  BY <2>2, <2>3
<1> QED  BY <1>3, <1>4

\* A file that is not for gofumpt.
LEMMA SkipFileInv ==
  ASSUME Inv, SkipFile  PROVE Inv'
<1> DEFINE a == args[arg]
           h == Path
<1>1. /\ Visiting /\ todo # <<>> /\ h \in Files /\ h \notin GoFiles /\ h # a
      /\ todo' = Tail(todo) /\ tasks' = tasks
  BY DEF SkipFile, Visiting, Explicit
<1>2. /\ a \in Paths /\ Tail(todo) \in Seq(Paths)
      /\ Range(todo) = {h} \union Range(Tail(todo))
      /\ Reports(arg) = {} /\ Current(arg)
  BY <1>1, VisitIs
<1>3. /\ OthersKept /\ Added(arg)' = Added(arg) /\ Reports(arg)' = Reports(arg)
      /\ Typed'
  BY <1>1, <1>2, NothingAdded, TypedVisit
<1>4. args' = args /\ failing' = failing /\ inputs' = inputs /\ arg' = arg
  BY <1>1 DEF Visiting, inputs
<1>5. Wanted(a)' = Wanted(a)
  BY <1>4, InputsKept
<1>6. h \notin Wanted(a) /\ h \notin Dirs /\ h \in Entries
  BY <1>1, EntryIs DEF Wanted, Entries
<1>7. ASSUME NEW x \in Reached(a) \union {a}, x = h \/ Beneath(h, x)
      PROVE  Visited(arg, x)'
  <2>1. x = h
    BY <1>1, <1>7, FileAlone
  <2>2. x \notin Wanted(args[arg])'
    BY <1>4, <1>5, <1>6, <2>1
  <2> QED  BY <1>6, <2>1, <2>2 DEF Visited
<1>8. GoesOn
  BY <1>1, <1>2, <1>3, <1>7 DEF GoesOn, Current
<1> QED  BY <1>1, <1>3, <1>8, VisitKeeps

\* A file that is, or one that was lost.
LEMMA AddFileInv ==
  ASSUME Inv, AddFile  PROVE Inv'
<1> DEFINE a == args[arg]
           h == Path
<1>1. Visiting /\ todo # <<>> /\ h \in Files /\ (h = a \/ h \in GoFiles)
  BY DEF AddFile, Visiting, Explicit
<1>2. /\ a \in Paths /\ h \in Paths /\ Tail(todo) \in Seq(Paths) /\ arg \in Nat /\ arg > 0
      /\ Range(todo) = {h} \union Range(Tail(todo))
      /\ Offered(a, h) /\ Reports(arg) = {} /\ Current(arg)
  BY <1>1, VisitIs
<1>3. h \notin Dirs /\ h \in Entries
  BY <1>1, EntryIs DEF Entries
<1>4. h \in Wanted(a)
  <2>1. h \in Reached(a)
    BY <1>2, <1>3, ReachedIs
  <2> QED  BY <1>1, <2>1 DEF Wanted
<1>5. CASE h \in failing /\ h # a
  <2>1. Abort
    BY <1>5 DEF AddFile, Explicit
  <2>2. Fails(a)
    BY <1>4, <1>5 DEF Fails
  <2> QED  BY <1>1, <2>1, <2>2, AbortKeeps
<1>6. CASE h \notin failing \/ h = a
  <2>1. Add("file", h) /\ todo' = Tail(todo)
    BY <1>6 DEF AddFile, Explicit
  <2>2. Typed
    BY DEF Inv
  <2>3. /\ tasks' \in Seq(Task) /\ \A i \in 1..Len(tasks') : tasks'[i].arg <= arg
        /\ \A k \in Nat :
             /\ Added(k)' = Added(k) \union (IF k = arg /\ "file" = "file" THEN {h} ELSE {})
             /\ k # arg \/ "file" = "file" => Reports(k)' = Reports(k)
             /\ k = arg /\ "file" = "report" => Reports(k)' # {}
    BY <1>1, <1>2, <2>1, <2>2, AddChanges
  <2>4. args' = args /\ failing' = failing /\ inputs' = inputs /\ arg' = arg /\ ignore' = ignore
    BY <1>1 DEF Visiting, inputs
  <2>5. OthersKept
    <3> SUFFICES ASSUME NEW k \in Nat, k < arg
                 PROVE  Added(k)' = Added(k) /\ Reports(k)' = Reports(k)
      BY DEF OthersKept
    <3>1. k # arg
      BY <1>2
    <3> QED  BY <2>3, <3>1
  <2>6. Added(arg)' = Added(arg) \union {h} /\ Reports(arg)' = Reports(arg)
    <3>1. PICK n \in Nat : n = arg
      BY <1>2
    <3>2. Added(n)' = Added(n) \union {h} /\ Reports(n)' = Reports(n)
      BY <2>3, <3>1
    <3>3. n = arg'
      BY <2>4, <3>1
    <3> QED  BY <3>1, <3>2, <3>3 DEF Added, Reports
  <2>7. Typed'
    <3>1. ignore \in Ignores /\ args \in Seq(Paths) /\ arg \in 0..Len(args) /\ arg # 0
      BY <1>2, <2>2 DEF Typed
    <3> QED  BY <1>2, <2>1, <2>3, <2>4, <3>1 DEF Typed
  <2>8. Wanted(a)' = Wanted(a)
    BY <2>4, InputsKept
  <2>9. ASSUME NEW x \in Reached(a) \union {a}, x = h \/ Beneath(h, x)
        PROVE  Visited(arg, x)'
    <3>1. x = h
      BY <1>1, <2>9, FileAlone
    <3>2. x \in Added(arg)'
      BY <2>6, <3>1
    <3>3. (args[arg])' = a
      BY <2>4
    <3> QED  BY <1>3, <1>6, <2>4, <3>1, <3>2, <3>3 DEF Visited
  <2>10. GoesOn
    <3>1. \A p \in Range(todo') : Offered(args[arg], p)
      BY <1>2, <2>1 DEF Current
    <3>2. Added(arg)' \subseteq Wanted(args[arg])
      BY <1>2, <1>4, <2>6 DEF Current
    <3> QED  BY <1>2, <2>1, <2>6, <2>9, <3>1, <3>2 DEF GoesOn
  <2> QED  BY <1>1, <2>5, <2>7, <2>10, VisitKeeps
<1> QED  BY <1>5, <1>6

\* A walk that has ended has done what it should.
LEMMA EndsRight ==
  ASSUME Inv, todo = <<>>, arg > 0
  PROVE  Right(arg)
<1> DEFINE a == args[arg]
<1>1. Current(arg) /\ Range(todo) = {}
  BY DEF Inv, Range
<1>2. \A x : ~ Pending(x)
  BY <1>1 DEF Pending
<1>3. ASSUME Reports(arg) = {}  PROVE Added(arg) = Wanted(a) /\ ~ Fails(a)
  <2>1. \A x \in Reached(a) \union {a} : Visited(arg, x)
    BY <1>1, <1>2, <1>3 DEF Current
  <2>2. Wanted(a) \subseteq Added(arg)
    BY <2>1 DEF Wanted, Visited
  <2>3. ~ Fails(a)
    BY <2>1 DEF Fails, Wanted, Visited
  <2> QED  BY <1>1, <2>2, <2>3 DEF Current
<1> QED  BY <1>1, <1>3 DEF Right, Current

\* The next argument, when the walk of the one before has ended.
LEMMA StartArgInv ==
  ASSUME Inv, StartArg  PROVE Inv'
<1>1. /\ inputs' = inputs /\ args' = args /\ ignore' = ignore /\ tasks' = tasks
      /\ arg' = arg + 1 /\ todo' = <<args[arg + 1]>> /\ todo = <<>> /\ arg < Len(args)
  BY DEF StartArg, inputs
<1>2. Typed /\ args \in Seq(Paths) /\ Len(args) \in Nat /\ arg \in Nat
  BY LenProperties DEF Inv, Typed
<1> DEFINE n == arg + 1
           a == args[n]
<1>3. n \in 1..Len(args) /\ n \in Nat /\ n > 0 /\ n # 0 /\ a \in Paths
  <2>1. n \in 1..Len(args) /\ n \in Nat /\ n > 0 /\ n # 0
    BY <1>1, <1>2
  <2> QED  BY <1>2, <2>1, ElementOfSeq
<1>4. todo' \in Seq(Paths) /\ Range(todo') = {a}
  <2>1. <<a>> \in Seq(Paths) /\ Len(<<a>>) = 1 /\ <<a>>[1] = a
    BY <1>3, SingleIs
  <2>2. DOMAIN <<a>> = 1..1
    OBVIOUS
  <2>3. Range(<<a>>) = {a}
    BY <2>2 DEF Range
  <2> QED  BY <1>1, <2>1, <2>3
<1>5. Typed'
  <2>1. ASSUME NEW i \in 1..Len(tasks)  PROVE tasks[i].arg <= n
    <3>1. tasks[i] \in Task
      BY <1>2, ElementOfSeq DEF Typed
    <3>2. tasks[i].arg \in Nat /\ tasks[i].arg <= arg
      BY <1>2, <3>1 DEF Typed, Task
    <3> QED  BY <1>2, <3>2
  <2>2. n \in 0..Len(args)
    BY <1>3
  <2>3. ignore \in Ignores /\ tasks \in Seq(Task)
    BY <1>2 DEF Typed
  <2> QED  BY <1>1, <1>2, <1>3, <1>4, <2>1, <2>2, <2>3 DEF Typed
<1>6. \A k : Added(k)' = Added(k) /\ Reports(k)' = Reports(k)
  BY <1>1 DEF Added, Reports
<1>7. \A k \in 1..n : k < n => Right(k)'
  <2> SUFFICES ASSUME NEW k \in 1..n, k < n  PROVE Right(k)'
    OBVIOUS
  <2>1. Right(k)
    <3>1. CASE k < arg
      <4>1. k \in 1..arg
        BY <1>2, <3>1
      <4> QED  BY <3>1, <4>1 DEF Inv
    <3>2. CASE k = arg
      <4>1. arg > 0
        BY <1>2, <3>2
      <4> QED  BY <1>1, <3>2, <4>1, EndsRight
    <3> QED  BY <1>2, <3>1, <3>2
  <2>2. /\ Wanted(args[k])' = Wanted(args[k])
        /\ Fails(args[k])' <=> Fails(args[k])
    BY <1>1, InputsKept
  <2> QED  BY <1>1, <1>6, <2>1, <2>2 DEF Right
<1>8. Added(n) = {} /\ Reports(n) = {}
  <2>1. ASSUME NEW i \in 1..Len(tasks)  PROVE tasks[i].arg # n
    <3>1. tasks[i] \in Task
      BY <1>2, ElementOfSeq DEF Typed
    <3>2. tasks[i].arg \in Nat /\ tasks[i].arg <= arg
      BY <1>2, <3>1 DEF Typed, Task
    <3> QED  BY <1>2, <3>2
  <2> HIDE DEF n
  <2> QED  BY <2>1 DEF Added, Reports
<1>9. Current(arg)'
  <2>1. arg' = n /\ args'[arg'] = a
    BY <1>1
  <2>2. Added(arg)' = {} /\ Reports(arg)' = {}
    BY <1>1, <1>8 DEF Added, Reports
  <2>3. \A x \in (Reached(args[arg]) \union {args[arg]})' : Pending(x)'
    <3>1. (Reached(args[arg]) \union {args[arg]})' = Reached(a) \union {a}
      <4>1. PICK b : b = a
        OBVIOUS
      <4>2. Reached(b)' = Reached(b)
        BY <1>1, InputsKept
      <4>3. b = args'[arg']
        BY <2>1, <4>1
      <4> QED  BY <4>1, <4>2, <4>3 DEF Reached
    <3>2. ASSUME NEW x \in Reached(a) \union {a}  PROVE x = a \/ Beneath(a, x)
      BY DEF Reached
    <3>3. ASSUME NEW x \in Reached(a) \union {a}  PROVE Pending(x)'
      BY <1>4, <3>2 DEF Pending
    <3> QED  BY <3>1, <3>3
  <2>4. \A p \in Range(todo)' : Offered(args[arg], p)'
    BY <1>4, <2>1 DEF Offered
  <2> QED  BY <2>2, <2>3, <2>4 DEF Current
<1> QED  BY <1>1, <1>5, <1>7, <1>9 DEF Inv

\* Nothing is walked at first.
LEMMA InvInit == Init => Inv
<1> SUFFICES ASSUME Init  PROVE Inv
  OBVIOUS
<1>1. arg = 0 /\ todo = <<>> /\ tasks = <<>> /\ ignore \in Ignores
  BY DEF Init
<1>2. args \in Seq(Paths)
  BY ArgumentsAssumption DEF Init, Paths, Names
<1>3. arg \in 0..Len(args) /\ todo \in Seq(Paths) /\ tasks \in Seq(Task)
  BY <1>1, <1>2, LenProperties
<1>4. \A i \in 1..Len(tasks) : tasks[i].arg <= arg
  BY <1>1
<1>5. Typed
  BY <1>1, <1>2, <1>3, <1>4 DEF Typed
<1>6. \A k \in 1..arg : FALSE
  BY <1>1
<1> QED  BY <1>1, <1>5, <1>6 DEF Inv

\* Every step keeps the invariant.
LEMMA InvNext == Inv /\ [Next]_vars => Inv'
<1> SUFFICES ASSUME Inv, [Next]_vars  PROVE Inv'
  OBVIOUS
<1>1. CASE StartArg
  BY <1>1, StartArgInv
<1>2. CASE MissingArg
  BY <1>2, MissingArgInv
<1>3. CASE SkipDir
  BY <1>3, SkipDirInv
<1>4. CASE EnterDir
  BY <1>4, EnterDirInv
<1>5. CASE SkipFile
  BY <1>5, SkipFileInv
<1>6. CASE AddFile
  BY <1>6, AddFileInv
<1>7. CASE Finished \/ UNCHANGED vars
  <2>1. /\ inputs' = inputs /\ gomod' = gomod /\ ignore' = ignore
        /\ failing' = failing /\ args' = args
        /\ arg' = arg /\ todo' = todo /\ tasks' = tasks
    BY <1>7 DEF Finished, vars, inputs
  <2>2. \A k : Added(k)' = Added(k) /\ Reports(k)' = Reports(k)
    BY <2>1 DEF Added, Reports
  <2>3. ASSUME NEW k \in 1..arg, k < arg  PROVE Right(k)'
    <3>1. Right(k)
      BY <2>3 DEF Inv
    <3>2. /\ Wanted(args[k])' = Wanted(args[k])
          /\ Fails(args[k])' <=> Fails(args[k])
      BY <2>1, InputsKept
    <3> QED  BY <2>1, <2>2, <3>1, <3>2 DEF Right
  <2>4. Typed'
    BY <2>1 DEF Inv, Typed
  <2>5. arg > 0 => Current(arg)'
    <3> SUFFICES ASSUME arg > 0  PROVE Current(arg)'
      OBVIOUS
    <3>1. Current(arg)
      BY DEF Inv
    <3> DEFINE a == args[arg]
    <3>2. Wanted(a)' = Wanted(a)
      BY <2>1, InputsKept
    <3>3. \A x : Pending(x)' <=> Pending(x)
      BY <2>1 DEF Pending
    <3>4. \A x : Visited(arg, x)' <=> Visited(arg, x)
      BY <2>1, <2>2, <3>2 DEF Visited, Added
    <3>5. Added(arg)' = Added(arg) /\ Reports(arg)' = Reports(arg)
      BY <2>1 DEF Added, Reports
    <3>6. /\ (Reached(args[arg]))' = Reached(a) /\ (Wanted(args[arg]))' = Wanted(a)
          /\ (Fails(args[arg]))' <=> Fails(a)
      <4>1. PICK b : b = a
        OBVIOUS
      <4>2. Reached(b)' = Reached(b) /\ Wanted(b)' = Wanted(b) /\ (Fails(b)' <=> Fails(b))
        BY <2>1, InputsKept
      <4>3. b = args'[arg']
        BY <2>1, <4>1
      <4>4. (Reached(args[arg]))' = Reached(a)
        BY <4>1, <4>2, <4>3 DEF Reached
      <4>5. (Wanted(args[arg]))' = Wanted(a)
        BY <4>1, <4>2, <4>3, <4>4 DEF Wanted
      <4>6. (Fails(args[arg]))' <=> Fails(a)
        BY <4>1, <4>2, <4>3, <4>4, <4>5 DEF Fails
      <4> QED  BY <4>4, <4>5, <4>6
    <3>7. \A p \in Range(todo)' : (Offered(args[arg], p))'
      BY <2>1, <3>1, InputsKept DEF Current, Offered
    <3>8. (Reports(arg) # {} => todo = <<>> /\ Fails(args[arg]))'
      BY <2>1, <3>1, <3>5, <3>6 DEF Current
    <3>9. \A x \in Reached(a) \union {a} :
            Reports(arg)' = {} => Pending(x)' \/ (Visited(arg, x))'
      BY <2>1, <3>1, <3>3, <3>4, <3>5 DEF Current
    <3>10. (Added(arg) \subseteq Wanted(args[arg]))'
      BY <3>1, <3>5, <3>6 DEF Current
    <3> QED  BY <2>1, <3>6, <3>7, <3>8, <3>9, <3>10 DEF Current
  <2>6. \A k \in (1..arg)' : (k < arg)' => Right(k)'
    BY <2>1, <2>3
  <2>7. (arg > 0)' => Current(arg)'
    BY <2>1, <2>5
  <2> QED  BY <2>4, <2>6, <2>7 DEF Inv
<1> QED  BY <1>1, <1>2, <1>3, <1>4, <1>5, <1>6, <1>7 DEF Next

\* The invariant holds, for any tree, any directives and any arguments.
THEOREM InvHolds == Spec => []Inv
<1> QED  BY InvInit, InvNext, PTL DEF Spec

\* Of every walk that has ended.
LEMMA WalkedRight ==
  ASSUME Inv, NEW k \in 1..arg, Walked(k)
  PROVE  Right(k)
<1>1. CASE k < arg
  BY <1>1 DEF Inv
<1>2. CASE k = arg /\ todo = <<>>
  <2>1. arg \in Nat
    BY DEF Inv, Typed
  <2>2. arg > 0
    BY <1>2, <2>1
  <2> QED  BY <1>2, <2>2, EndsRight
<1> QED  BY <1>1, <1>2 DEF Walked

\* A walk that ends adds exactly the files that are wanted (gofmt.go:563-594), unless
\* an error ended it, and then no others.
THEOREM AddsWantedHolds == Spec => []AddsWanted
<1>1. Inv => AddsWanted
  BY WalkedRight DEF AddsWanted, Right
<1> QED  BY <1>1, InvHolds, PTL

\* A walk reports an error exactly when its argument is missing or something it gets
\* to cannot be read: never for a directory that is ignored (gofmt.go:567-581).
THEOREM FailsOnlyIfReachedHolds == Spec => []FailsOnlyIfReached
<1>1. Inv => FailsOnlyIfReached
  BY WalkedRight DEF FailsOnlyIfReached, Right, Fails, Entries
<1> QED  BY <1>1, InvHolds, PTL

===============================================================================
