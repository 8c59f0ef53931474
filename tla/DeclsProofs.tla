------------------------------ MODULE DeclsProofs ------------------------------
(***************************************************************************)
(* Proofs about what applyPre does to the top-level declarations of a file *)
(* of any length: that no spec is lost or moved (SpecsStay), that iota and *)
(* directives keep what they apply to (ConstantsStay, DirectivesStay), and *)
(* that what README.md promises of neighbouring declarations is so         *)
(* (MultilineSeparated, ContiguousGrouped).  The last four assume of the   *)
(* sources what their comments say; without it Decls does not have them.   *)
(***************************************************************************)
EXTENDS Decls, TLAPS, WellFoundedInduction, SequenceTheorems, FiniteSetTheorems

------------------------------------------------------------------------------
(* Sums and sequences *)

LEMMA LeastNatural ==
  ASSUME NEW S, S \subseteq Nat, S # {}
  PROVE  \E x \in S : \A y \in S : x <= y
<1>1. PICK x \in S : \A y \in S : ~ (<<y, x>> \in OpToRel(<, Nat))
  BY NatLessThanWellFounded, WFMin
<1>2. \A y \in S : ~ (y < x)
  BY <1>1 DEF OpToRel
<1>3. \A y \in S : x <= y
  BY <1>2
<1> QED  BY <1>3

\* Sums(f, n, base, w): f[k] is base and the first k of w.
Sums(f, n, base, w) == f = [k \in 0..n |-> IF k = 0 THEN base ELSE f[k - 1] + w[k]]

Adds(f, n, w) == \A k \in 1..n : f[k] = f[k - 1] + w[k]

\* There is such a function, because there is one for one less.
LEMMA SumsFound ==
  ASSUME NEW n \in Nat, NEW base \in Nat, NEW w \in [1..n -> Nat]
  PROVE  \E f : Sums(f, n, base, w)
<1> DEFINE Good(m) == \E f \in [0..m -> Nat] : Sums(f, m, base, w)
           Bad == {m \in 0..n : ~ Good(m)}
<1>1. Good(0)
  <2> DEFINE f == [k \in 0..0 |-> base]
  <2>1. f \in [0..0 -> Nat]
    OBVIOUS
  <2>2. f = [k \in 0..0 |-> IF k = 0 THEN base ELSE f[k - 1] + w[k]]
    OBVIOUS
  <2> QED  BY <2>1, <2>2 DEF Sums
<1>2. ASSUME NEW m \in 1..n, Good(m - 1)  PROVE Good(m)
  <2>1. PICK old \in [0..(m - 1) -> Nat] : Sums(old, m - 1, base, w)
    BY <1>2
  <2> DEFINE f == [k \in 0..m |-> IF k = m THEN old[m - 1] + w[m] ELSE old[k]]
  <2>2. old[m - 1] + w[m] \in Nat
    <3>1. m - 1 \in 0..(m - 1) /\ m \in 1..n
      OBVIOUS
    <3>2. old[m - 1] \in Nat /\ w[m] \in Nat
      BY <3>1
    <3> QED  BY <3>2
  <2>3. \A k \in 0..m : k # m => k \in 0..(m - 1)
    OBVIOUS
  <2>4. f \in [0..m -> Nat]
    BY <2>2, <2>3
  <2>5. ASSUME NEW k \in 0..m
        PROVE  f[k] = IF k = 0 THEN base ELSE f[k - 1] + w[k]
    <3>1. CASE k = m
      <4>1. k # 0 /\ k - 1 \in 0..m /\ k - 1 # m
        BY <3>1
      <4> QED  BY <3>1, <4>1
    <3>2. CASE k # m
      <4>1. f[k] = old[k] /\ k \in 0..(m - 1)
        BY <2>3, <3>2
      <4>2. old[k] = IF k = 0 THEN base ELSE old[k - 1] + w[k]
        BY <2>1, <4>1 DEF Sums
      <4>3. k # 0 => k - 1 \in 0..m /\ k - 1 # m
        BY <4>1
      <4> QED  BY <4>1, <4>2, <4>3
    <3> QED  BY <3>1, <3>2
  <2>6. f = [k \in 0..m |-> f[k]]
    OBVIOUS
  <2> HIDE DEF f
  <2>7. Sums(f, m, base, w)
    BY <2>5, <2>6 DEF Sums
  <2> QED  BY <2>4, <2>7
<1> HIDE DEF Good
<1>3. Bad = {}
  <2> SUFFICES ASSUME Bad # {}  PROVE FALSE
    OBVIOUS
  <2>1. Bad \subseteq Nat
    OBVIOUS
  <2>2. PICK m \in Bad : \A y \in Bad : m <= y
    BY <2>1, LeastNatural
  <2>3. m \in 1..n /\ ~ Good(m)
    BY <1>1, <2>2
  <2>4. m - 1 \in 0..n /\ ~ (m <= m - 1)
    BY <2>3
  <2>5. Good(m - 1)
    BY <2>2, <2>4
  <2> QED  BY <1>2, <2>3, <2>5
<1>4. n \in 0..n
  OBVIOUS
<1>5. Good(n)
  BY <1>3, <1>4
<1> QED  BY <1>5 DEF Good

\* Whichever is such a function adds up.
LEMMA SumsTyped ==
  ASSUME NEW n \in Nat, NEW base \in Nat, NEW w \in [1..n -> Nat], NEW f, Sums(f, n, base, w)
  PROVE  f \in [0..n -> Nat] /\ f[0] = base /\ Adds(f, n, w)
<1>1. /\ DOMAIN f = 0..n /\ f = [k \in 0..n |-> f[k]] /\ f[0] = base
      /\ \A k \in 1..n : f[k] = f[k - 1] + w[k]
  BY DEF Sums
<1> DEFINE Bad == {k \in 0..n : ~ (f[k] \in Nat)}
<1>2. Bad = {}
  <2> SUFFICES ASSUME Bad # {}  PROVE FALSE
    OBVIOUS
  <2>1. Bad \subseteq Nat
    OBVIOUS
  <2>2. PICK k \in Bad : \A y \in Bad : k <= y
    BY <2>1, LeastNatural
  <2>3. k \in 1..n /\ ~ (f[k] \in Nat)
    BY <1>1, <2>2
  <2>4. k - 1 \in 0..n /\ ~ (k <= k - 1)
    BY <2>3
  <2>5. f[k - 1] \in Nat
    BY <2>2, <2>4
  <2>6. w[k] \in Nat
    BY <2>3
  <2>7. f[k] = f[k - 1] + w[k]
    BY <1>1, <2>3
  <2>8. f[k - 1] + w[k] \in Nat
    BY <2>5, <2>6
  <2> QED  BY <2>3, <2>7, <2>8
<1>3. \A k \in 0..n : f[k] \in Nat
  BY <1>2
<1> QED  BY <1>1, <1>3 DEF Adds

\* What grows from each to the next grows.
LEMMA Rising ==
  ASSUME NEW n \in Nat, NEW f \in [0..n -> Nat], \A k \in 1..n : f[k - 1] <= f[k]
  PROVE  \A a \in 0..n, b \in 0..n : a <= b => f[a] <= f[b]
<1> SUFFICES ASSUME NEW a \in 0..n  PROVE \A b \in 0..n : a <= b => f[a] <= f[b]
  OBVIOUS
<1> DEFINE Bad == {b \in 0..n : a <= b /\ ~ (f[a] <= f[b])}
<1>1. Bad = {}
  <2> SUFFICES ASSUME Bad # {}  PROVE FALSE
    OBVIOUS
  <2>1. Bad \subseteq Nat
    OBVIOUS
  <2>2. PICK b \in Bad : \A y \in Bad : b <= y
    BY <2>1, LeastNatural
  <2>3. b \in 0..n /\ a <= b /\ ~ (f[a] <= f[b]) /\ f[a] \in Nat /\ f[b] \in Nat
    BY <2>2
  <2>4. a # b /\ b \in 1..n
    BY <2>3
  <2>5. b - 1 \in 0..n /\ a <= b - 1 /\ ~ (b <= b - 1)
    BY <2>3, <2>4
  <2>6. f[a] <= f[b - 1] /\ f[b - 1] \in Nat
    BY <2>2, <2>5
  <2>7. f[b - 1] <= f[b]
    BY <2>4
  <2> QED  BY <2>3, <2>6, <2>7
<1> QED  BY <1>1

\* What is known of any sequence.
LEMMA SeqFacts ==
  ASSUME NEW S, NEW seq \in Seq(S)
  PROVE  /\ Len(seq) \in Nat /\ DOMAIN seq = 1..Len(seq)
         /\ \A k \in 1..Len(seq) : seq[k] \in S
<1>1. Len(seq) \in Nat /\ DOMAIN seq = 1..Len(seq) /\ seq \in [1..Len(seq) -> S]
  BY LenProperties
<1> QED  BY <1>1

\* A function on the first numbers is a sequence.
LEMMA FunctionIsSeq ==
  ASSUME NEW S, NEW n \in Nat, NEW f \in [1..n -> S]
  PROVE  f \in Seq(S) /\ Len(f) = n
  OBVIOUS

------------------------------------------------------------------------------
(* The lines of a text *)

\* A spec has a line, and how many are above a spec in its group.
LEMMA BelowIs ==
  ASSUME NEW specs \in Seq(SpecText)
  PROVE  /\ \A j \in 1..Len(specs) : SpecLines(specs[j]) \in Nat /\ SpecLines(specs[j]) >= specs[j].h
         /\ Below(specs) \in [0..Len(specs) -> Nat] /\ Below(specs)[0] = 0
         /\ \A j \in 1..Len(specs) : Below(specs)[j] = Below(specs)[j - 1] + SpecLines(specs[j])
         /\ \A a \in 0..Len(specs), b \in 0..Len(specs) : a <= b => Below(specs)[a] <= Below(specs)[b]
<1>1. PICK n \in Nat : n = Len(specs)
  BY SeqFacts
<1>2. ASSUME NEW j \in 1..n  PROVE SpecLines(specs[j]) \in Nat /\ SpecLines(specs[j]) >= specs[j].h
  <2>1. specs[j] \in SpecText
    BY <1>1, SeqFacts
  <2>2. specs[j].h \in Nat
    BY <2>1 DEF SpecText
  <2> QED  BY <2>2 DEF SpecLines
<1> DEFINE w == [j \in 1..n |-> SpecLines(specs[j])]
           f == CHOOSE f : f = [k \in 0..n |-> IF k = 0 THEN 0 ELSE f[k - 1] + SpecLines(specs[k])]
<1>3. w \in [1..n -> Nat]
  BY <1>2
<1>4. \A g : Sums(g, n, 0, w) <=> g = [k \in 0..n |-> IF k = 0 THEN 0 ELSE g[k - 1] + SpecLines(specs[k])]
  <2> SUFFICES ASSUME NEW g
               PROVE  [k \in 0..n |-> IF k = 0 THEN 0 ELSE g[k - 1] + w[k]]
                        = [k \in 0..n |-> IF k = 0 THEN 0 ELSE g[k - 1] + SpecLines(specs[k])]
    BY DEF Sums
  <2>1. \A k \in 0..n : k # 0 => k \in 1..n
    OBVIOUS
  <2> QED  BY <2>1
<1>5. Below(specs) = f
  BY <1>1 DEF Below
<1> HIDE DEF w
<1>6. Sums(f, n, 0, w)
  <2>1. \E g : Sums(g, n, 0, w)
    BY <1>3, SumsFound
  <2>2. \E g : g = [k \in 0..n |-> IF k = 0 THEN 0 ELSE g[k - 1] + SpecLines(specs[k])]
    BY <1>4, <2>1
  <2> QED  BY <1>4, <2>2
<1> HIDE DEF f
<1>7. f \in [0..n -> Nat] /\ f[0] = 0 /\ Adds(f, n, w)
  <2>1. n \in Nat /\ 0 \in Nat
    BY <1>1
  <2> QED  BY <1>3, <1>6, <2>1, SumsTyped
<1>8. \A j \in 1..n : w[j] = SpecLines(specs[j]) /\ w[j] \in Nat
  BY <1>3 DEF w
<1>9. \A j \in 1..n : f[j - 1] <= f[j]
  <2> TAKE j \in 1..n
  <2>1. j - 1 \in 0..n /\ f[j - 1] \in Nat /\ w[j] \in Nat /\ f[j] = f[j - 1] + w[j]
    BY <1>7, <1>8 DEF Adds
  <2> QED  BY <2>1
<1>10. \A a \in 0..n, b \in 0..n : a <= b => f[a] <= f[b]
  BY <1>7, <1>9, Rising
<1> QED  BY <1>1, <1>2, <1>5, <1>7, <1>8, <1>10 DEF Adds

\* What is known of a declaration as it is on disk.
LEMMA TextFacts ==
  ASSUME NEW text, IsText(text), NEW k \in 1..Len(text)
  PROVE  /\ Len(text) \in Nat /\ DOMAIN text = 1..Len(text)
         /\ text[k].tok \in {"func", "import", "var", "const", "type"} /\ text[k].doc \in Docs
         /\ text[k].paren \in BOOLEAN /\ text[k].wide \in BOOLEAN /\ text[k].tall \in BOOLEAN
         /\ text[k].blank \in BOOLEAN
         /\ text[k].specs \in Seq(SpecText)
         /\ text[k].tok = "func" => text[k].specs = <<>> /\ ~text[k].paren /\ text[k].h \in Nat /\ text[k].h > 0
         /\ text[k].tok # "func" /\ ~text[k].paren =>
              Len(text[k].specs) = 1 /\ text[k].specs[1].doc = "none"
         /\ \A j \in 1..Len(text[k].specs) :
              /\ text[k].specs[j].id \in Int /\ text[k].specs[j].iota \in BOOLEAN
              /\ text[k].specs[j].doc \in Docs /\ text[k].specs[j].blank \in BOOLEAN
              /\ text[k].specs[j].h \in Nat /\ text[k].specs[j].h > 0
<1>1. Len(text) \in Nat /\ DOMAIN text = 1..Len(text) /\ text[k] \in DeclText
  BY SeqFacts DEF IsText
<1>2. /\ text[k].tok \in {"func", "import", "var", "const", "type"} /\ text[k].doc \in Docs
      /\ text[k].paren \in BOOLEAN /\ text[k].wide \in BOOLEAN /\ text[k].tall \in BOOLEAN
      /\ text[k].blank \in BOOLEAN /\ text[k].h \in Nat
      /\ text[k].specs \in Seq(SpecText)
  BY <1>1 DEF DeclText
<1>3. ASSUME NEW j \in 1..Len(text[k].specs)
      PROVE  /\ text[k].specs[j].id \in Int /\ text[k].specs[j].iota \in BOOLEAN
             /\ text[k].specs[j].doc \in Docs /\ text[k].specs[j].blank \in BOOLEAN
             /\ text[k].specs[j].h \in Nat /\ text[k].specs[j].h > 0
  <2>1. text[k].specs[j] \in SpecText
    BY <1>2, SeqFacts
  <2> QED  BY <2>1 DEF SpecText
<1>4. /\ text[k].tok = "func" => text[k].specs = <<>> /\ ~text[k].paren /\ text[k].h > 0
      /\ text[k].tok # "func" /\ ~text[k].paren => Len(text[k].specs) = 1 /\ text[k].specs[1].doc = "none"
  BY <1>1 DEF IsText
<1> QED  BY <1>1, <1>2, <1>3, <1>4

\* How high a declaration is.
LEMMA HeightIs ==
  ASSUME NEW text, IsText(text), NEW k \in 1..Len(text)
  PROVE  /\ Height(text[k]) \in Nat /\ Height(text[k]) > 0
         /\ Lines(text[k]) \in Nat /\ Lines(text[k]) >= Height(text[k])
         /\ text[k].doc # "none" => Lines(text[k]) > Height(text[k])
         /\ text[k].paren /\ text[k].specs # <<>> =>
              Height(text[k]) = Below(text[k].specs)[Len(text[k].specs)] + 2
         /\ text[k].tok # "func" /\ ~text[k].paren => Height(text[k]) = text[k].specs[1].h
<1> DEFINE d == text[k]
<1>1. d.specs \in Seq(SpecText) /\ Len(d.specs) \in Nat
  BY TextFacts, SeqFacts
<1>2. Height(d) \in Nat /\ Height(d) > 0
  <2>1. CASE d.tok = "func"
    BY <2>1, TextFacts DEF Height
  <2>2. CASE d.tok # "func" /\ d.specs = <<>>
    BY <2>2 DEF Height
  <2>3. CASE d.tok # "func" /\ d.specs # <<>> /\ d.paren
    <3>1. Len(d.specs) \in 0..Len(d.specs)
      BY <1>1
    <3>2. Below(d.specs)[Len(d.specs)] \in Nat
      BY <1>1, <3>1, BelowIs
    <3>3. Height(d) = Below(d.specs)[Len(d.specs)] + 2
      BY <2>3 DEF Height
    <3> QED  BY <3>2, <3>3
  <2>4. CASE d.tok # "func" /\ d.specs # <<>> /\ ~d.paren
    <3>1. 1 \in 1..Len(d.specs)
      BY <2>4, TextFacts
    <3>2. d.specs[1].h \in Nat /\ d.specs[1].h > 0
      BY <3>1, TextFacts
    <3> QED  BY <2>4, <3>2 DEF Height
  <2> QED  BY <2>1, <2>2, <2>3, <2>4
<1>3. /\ d.paren /\ d.specs # <<>> => Height(d) = Below(d.specs)[Len(d.specs)] + 2
      /\ d.tok # "func" /\ ~d.paren => Height(d) = d.specs[1].h
  <2>1. d.tok = "func" => ~d.paren
    BY TextFacts
  <2>2. d.tok # "func" /\ ~d.paren => d.specs # <<>>
    <3>1. d.tok # "func" /\ ~d.paren => Len(d.specs) = 1
      BY TextFacts
    <3> QED  BY <3>1, EmptySeq
  <2> QED  BY <2>1, <2>2 DEF Height
<1> DEFINE height == Height(d)
<1>4. height \in Nat
  BY <1>2
<1> HIDE DEF height
<1>5. Lines(d) = (IF d.blank THEN 1 ELSE 0) + (IF d.doc # "none" THEN 1 ELSE 0) + height
  BY DEF Lines, height
<1> DEFINE lines == Lines(d)
<1> HIDE DEF lines
<1>6. lines \in Nat /\ lines >= height /\ (d.doc # "none" => lines > height)
  BY <1>4, <1>5 DEF lines
<1> QED  BY <1>2, <1>3, <1>6 DEF lines, height

\* And where it ends.
LEMMA EndsAre ==
  ASSUME NEW text, IsText(text)
  PROVE  /\ EndsOf(text) \in [0..Len(text) -> Nat] /\ EndsOf(text)[0] = 1
         /\ \A k \in 1..Len(text) : EndsOf(text)[k] = EndsOf(text)[k - 1] + Lines(text[k])
         /\ \A a \in 0..Len(text), b \in 0..Len(text) : a <= b => EndsOf(text)[a] <= EndsOf(text)[b]
<1>1. PICK n \in Nat : n = Len(text)
  BY SeqFacts DEF IsText
<1>2. ASSUME NEW k \in 1..n  PROVE Lines(text[k]) \in Nat
  BY <1>1, HeightIs
<1> DEFINE w == [k \in 1..n |-> Lines(text[k])]
           f == CHOOSE f : f = [k \in 0..n |-> IF k = 0 THEN 1 ELSE f[k - 1] + Lines(text[k])]
<1>3. w \in [1..n -> Nat]
  BY <1>2
<1>4. \A g : Sums(g, n, 1, w) <=> g = [k \in 0..n |-> IF k = 0 THEN 1 ELSE g[k - 1] + Lines(text[k])]
  <2> SUFFICES ASSUME NEW g
               PROVE  [k \in 0..n |-> IF k = 0 THEN 1 ELSE g[k - 1] + w[k]]
                        = [k \in 0..n |-> IF k = 0 THEN 1 ELSE g[k - 1] + Lines(text[k])]
    BY DEF Sums
  <2>1. \A k \in 0..n : k # 0 => k \in 1..n
    OBVIOUS
  <2> QED  BY <2>1
<1>5. EndsOf(text) = f
  BY <1>1 DEF EndsOf
<1> HIDE DEF w
<1>6. Sums(f, n, 1, w)
  <2>1. \E g : Sums(g, n, 1, w)
    BY <1>3, SumsFound
  <2>2. \E g : g = [k \in 0..n |-> IF k = 0 THEN 1 ELSE g[k - 1] + Lines(text[k])]
    BY <1>4, <2>1
  <2> QED  BY <1>4, <2>2
<1> HIDE DEF f
<1>7. f \in [0..n -> Nat] /\ f[0] = 1 /\ Adds(f, n, w)
  <2>1. n \in Nat /\ 1 \in Nat
    BY <1>1
  <2> QED  BY <1>3, <1>6, <2>1, SumsTyped
<1>8. \A k \in 1..n : w[k] = Lines(text[k]) /\ w[k] \in Nat
  BY <1>3 DEF w
<1>9. \A k \in 1..n : f[k - 1] <= f[k]
  <2> TAKE k \in 1..n
  <2>1. k - 1 \in 0..n /\ f[k - 1] \in Nat /\ w[k] \in Nat /\ f[k] = f[k - 1] + w[k]
    BY <1>7, <1>8 DEF Adds
  <2> QED  BY <2>1
<1>10. \A a \in 0..n, b \in 0..n : a <= b => f[a] <= f[b]
  BY <1>7, <1>9, Rising
<1> QED  BY <1>1, <1>5, <1>7, <1>8, <1>10 DEF Adds

------------------------------------------------------------------------------
(* Syntax trees *)

SpecTree == [id : Int, iota : BOOLEAN, doc : Docs, line : Nat, end : Nat]
DeclTree ==
  [tok : {"func", "import", "var", "const", "type"}, paren : BOOLEAN, doc : Docs,
   line : Nat, end : Nat, specs : Seq(SpecTree), wide : BOOLEAN, tall : BOOLEAN]

\* The specs of a declaration are in its lines, one below another.
IsDecl(d) ==
  /\ d.line >= 1 /\ d.line <= d.end
  /\ d.tok = "func" => d.specs = <<>> /\ ~d.paren
  /\ \A j \in 1..Len(d.specs) :
       d.line <= d.specs[j].line /\ d.specs[j].line <= d.specs[j].end /\ d.specs[j].end <= d.end
  /\ \A j \in 1..Len(d.specs), m \in 1..Len(d.specs) : j < m => d.specs[j].end < d.specs[m].line

\* And so are declarations.
IsTree(ds) ==
  /\ ds \in Seq(DeclTree)
  /\ \A k \in 1..Len(ds) : IsDecl(ds[k])
  /\ \A k \in 1..Len(ds), l \in 1..Len(ds) : k < l => ds[k].end < ds[l].line

\* What is known of a declaration in a tree.
LEMMA DeclFacts ==
  ASSUME NEW d \in DeclTree
  PROVE  /\ d.tok \in {"func", "import", "var", "const", "type"} /\ d.doc \in Docs
         /\ d.paren \in BOOLEAN /\ d.wide \in BOOLEAN /\ d.tall \in BOOLEAN
         /\ d.line \in Nat /\ d.end \in Nat
         /\ d.specs \in Seq(SpecTree) /\ Len(d.specs) \in Nat
         /\ \A j \in 1..Len(d.specs) :
              /\ d.specs[j] \in SpecTree
              /\ d.specs[j].id \in Int /\ d.specs[j].iota \in BOOLEAN /\ d.specs[j].doc \in Docs
              /\ d.specs[j].line \in Nat /\ d.specs[j].end \in Nat
<1>1. /\ d.tok \in {"func", "import", "var", "const", "type"} /\ d.doc \in Docs
      /\ d.paren \in BOOLEAN /\ d.wide \in BOOLEAN /\ d.tall \in BOOLEAN
      /\ d.line \in Nat /\ d.end \in Nat
      /\ d.specs \in Seq(SpecTree)
  BY DEF DeclTree
<1>2. Len(d.specs) \in Nat
  BY <1>1, SeqFacts
<1>3. ASSUME NEW j \in 1..Len(d.specs)
      PROVE  /\ d.specs[j] \in SpecTree
             /\ d.specs[j].id \in Int /\ d.specs[j].iota \in BOOLEAN /\ d.specs[j].doc \in Docs
             /\ d.specs[j].line \in Nat /\ d.specs[j].end \in Nat
  <2>1. d.specs[j] \in SpecTree
    BY <1>1, SeqFacts
  <2> QED  BY <2>1 DEF SpecTree
<1> QED  BY <1>1, <1>2, <1>3

\* And of one of the declarations of a file.
LEMMA TreeFacts ==
  ASSUME NEW ds, IsTree(ds), NEW k \in 1..Len(ds)
  PROVE  /\ Len(ds) \in Nat /\ DOMAIN ds = 1..Len(ds) /\ ds[k] \in DeclTree
         /\ ds[k].line \in Nat /\ ds[k].end \in Nat /\ Len(ds[k].specs) \in Nat
         /\ ds[k].specs \in Seq(SpecTree)
         /\ IsDecl(ds[k])
<1>1. Len(ds) \in Nat /\ DOMAIN ds = 1..Len(ds) /\ ds[k] \in DeclTree /\ IsDecl(ds[k])
  BY SeqFacts DEF IsTree
<1> QED  BY <1>1, DeclFacts

\* The lines of a file are those of its declarations.
LEMMA LinesIn ==
  ASSUME NEW ds, IsTree(ds), NEW k \in 1..Len(ds)
  PROVE  /\ ds[k].line \in LinesOf(ds) /\ ds[k].end \in LinesOf(ds)
         /\ \A j \in 1..Len(ds[k].specs) :
              ds[k].specs[j].line \in LinesOf(ds) /\ ds[k].specs[j].end \in LinesOf(ds)
         /\ LinesOf(ds) \subseteq Nat
<1>1. PICK n \in Nat : n = Len(ds)
  BY TreeFacts
<1>2. n \in 1..n /\ k \in 1..n
  BY <1>1
<1>3. /\ ds[k].line \in Nat /\ ds[k].end \in Nat /\ ds[n].line \in Nat /\ ds[n].end \in Nat
      /\ ds[k].line >= 1 /\ ds[k].line <= ds[k].end
      /\ ds[n].line >= 1 /\ ds[n].line <= ds[n].end
  BY <1>1, <1>2, TreeFacts DEF IsDecl
<1>4. ds[k].end <= ds[n].end
  <2>1. CASE k = n
    BY <1>3, <2>1
  <2>2. CASE k # n
    <3>1. k < n
      BY <1>2, <2>2
    <3>2. ds[k].end < ds[n].line
      BY <1>1, <1>2, <3>1 DEF IsTree
    <3> QED  BY <1>3, <3>2
  <2> QED  BY <2>1, <2>2
<1>5. ASSUME NEW j \in 1..Len(ds[k].specs)
      PROVE  /\ ds[k].specs[j].line \in 1..ds[n].end
             /\ ds[k].specs[j].end \in 1..ds[n].end
  <2>1. ds[k].specs[j].line \in Nat /\ ds[k].specs[j].end \in Nat
    BY TreeFacts, DeclFacts
  <2>2. /\ ds[k].line <= ds[k].specs[j].line /\ ds[k].specs[j].line <= ds[k].specs[j].end
        /\ ds[k].specs[j].end <= ds[k].end
    BY TreeFacts DEF IsDecl
  <2> QED  BY <1>3, <1>4, <2>1, <2>2, SMTT(30)
<1> QED  BY <1>1, <1>3, <1>4, <1>5 DEF LinesOf

\* What is the same of two declarations if lines are moved.
Same(d, e) ==
  /\ e.tok = d.tok /\ e.doc = d.doc /\ e.wide = d.wide /\ e.tall = d.tall
  /\ e.paren => d.paren
  /\ Len(e.specs) = Len(d.specs)
  /\ \A j \in 1..Len(d.specs) :
       e.specs[j].id = d.specs[j].id /\ e.specs[j].iota = d.specs[j].iota /\ e.specs[j].doc = d.specs[j].doc

\* What is moved.
LEMMA MovedIs ==
  ASSUME NEW ds, IsTree(ds), NEW k \in 1..Len(ds), NEW to \in [LinesOf(ds) -> Nat]
  PROVE  LET e == Moved(ds[k], to)
         IN  /\ e \in DeclTree /\ Same(ds[k], e) /\ e.paren = ds[k].paren
             /\ e.line = to[ds[k].line] /\ e.end = to[ds[k].end]
             /\ \A j \in 1..Len(ds[k].specs) :
                  e.specs[j].line = to[ds[k].specs[j].line] /\ e.specs[j].end = to[ds[k].specs[j].end]
<1> DEFINE d == ds[k]
<1>1. PICK n \in Nat : n = Len(d.specs)
  BY TreeFacts
<1>2. d \in DeclTree /\ d.specs \in Seq(SpecTree)
  BY TreeFacts
<1>3. to[d.line] \in Nat /\ to[d.end] \in Nat
  BY LinesIn
<1>4. ASSUME NEW j \in 1..n
      PROVE  /\ MovedSpec(d.specs[j], to) \in SpecTree
             /\ MovedSpec(d.specs[j], to).line = to[d.specs[j].line]
             /\ MovedSpec(d.specs[j], to).end = to[d.specs[j].end]
             /\ MovedSpec(d.specs[j], to).id = d.specs[j].id
             /\ MovedSpec(d.specs[j], to).iota = d.specs[j].iota
             /\ MovedSpec(d.specs[j], to).doc = d.specs[j].doc
  <2>1. d.specs[j] \in SpecTree
    BY <1>1, <1>2, SeqFacts
  <2>2. to[d.specs[j].line] \in Nat /\ to[d.specs[j].end] \in Nat
    BY <1>1, LinesIn
  <2> QED  BY <2>1, <2>2 DEF MovedSpec, SpecTree
<1> DEFINE specs == [j \in 1..n |-> MovedSpec(d.specs[j], to)]
<1>5. specs \in Seq(SpecTree) /\ Len(specs) = n
  <2>1. specs \in [1..n -> SpecTree]
    BY <1>4
  <2> HIDE DEF specs
  <2> QED  BY <1>1, <2>1, FunctionIsSeq
<1>6. \A j \in 1..n : specs[j] = MovedSpec(d.specs[j], to)
  OBVIOUS
<1>7. Moved(d, to) = [d EXCEPT !.line = to[d.line], !.end = to[d.end], !.specs = specs]
  BY <1>1 DEF Moved
<1> HIDE DEF specs, d
<1> DEFINE e == Moved(d, to)
<1>8. /\ e \in DeclTree /\ e.specs = specs /\ e.line = to[d.line] /\ e.end = to[d.end]
      /\ e.tok = d.tok /\ e.doc = d.doc /\ e.wide = d.wide /\ e.tall = d.tall /\ e.paren = d.paren
  BY <1>2, <1>3, <1>5, <1>7 DEF DeclTree
<1> HIDE DEF e
<1>9. Same(d, e)
  BY <1>1, <1>4, <1>5, <1>6, <1>8 DEF Same
<1>10. \A j \in 1..n : e.specs[j].line = to[d.specs[j].line] /\ e.specs[j].end = to[d.specs[j].end]
  BY <1>4, <1>6, <1>8
<1> QED  BY <1>1, <1>8, <1>9, <1>10 DEF e, d

------------------------------------------------------------------------------
(* The sequences of a sequence, one after another *)

\* f[k] is the first k of seqs, one after another.
Strings(f, n, S, seqs) ==
  /\ f \in [1..n -> Seq(S)]
  /\ f[1] = seqs[1]
  /\ \A k \in 2..n : f[k] = f[k - 1] \o seqs[k]

\* There is such a function, and FlattenSeq returns the last of it.
LEMMA FlattenIs ==
  ASSUME NEW S, NEW seqs \in Seq(Seq(S)), NEW n \in Nat, n = Len(seqs), n # 0
  PROVE  \E f : Strings(f, n, S, seqs) /\ FlattenSeq(seqs) = f[n]
<1>1. \A k \in 1..n : seqs[k] \in Seq(S)
  BY SeqFacts
<1> DEFINE Body(f, m) == f = [k \in 1..m |-> IF k = 1 THEN seqs[k] ELSE f[k - 1] \o seqs[k]]
           Good(m) == \E f \in [1..m -> Seq(S)] : Body(f, m)
           Bad == {m \in 1..n : ~ Good(m)}
           flatten == CHOOSE f : Body(f, n)
<1>2. Good(1)
  <2> DEFINE f == [k \in 1..1 |-> seqs[k]]
  <2>1. 1 \in 1..n
    OBVIOUS
  <2>2. f \in [1..1 -> Seq(S)]
    BY <1>1, <2>1
  <2>3. Body(f, 1)
    OBVIOUS
  <2> QED  BY <2>2, <2>3
<1>3. ASSUME NEW m \in 2..n, Good(m - 1)  PROVE Good(m)
  <2>1. PICK old \in [1..(m - 1) -> Seq(S)] : Body(old, m - 1)
    BY <1>3
  <2> DEFINE f == [k \in 1..m |-> IF k = m THEN old[m - 1] \o seqs[m] ELSE old[k]]
  <2>2. old[m - 1] \o seqs[m] \in Seq(S)
    <3>1. m - 1 \in 1..(m - 1) /\ m \in 1..n
      OBVIOUS
    <3>2. old[m - 1] \in Seq(S) /\ seqs[m] \in Seq(S)
      BY <1>1, <3>1
    <3> QED  BY <3>2, ConcatProperties
  <2>3. \A k \in 1..m : k # m => k \in 1..(m - 1)
    OBVIOUS
  <2>4. f \in [1..m -> Seq(S)]
    BY <2>2, <2>3
  <2>5. ASSUME NEW k \in 1..m
        PROVE  f[k] = IF k = 1 THEN seqs[k] ELSE f[k - 1] \o seqs[k]
    <3>1. CASE k = m
      <4>1. k # 1 /\ k - 1 \in 1..m /\ k - 1 # m
        BY <3>1
      <4> QED  BY <3>1, <4>1
    <3>2. CASE k # m
      <4>1. f[k] = old[k] /\ k \in 1..(m - 1)
        BY <2>3, <3>2
      <4>2. old[k] = IF k = 1 THEN seqs[k] ELSE old[k - 1] \o seqs[k]
        BY <2>1, <4>1
      <4>3. k # 1 => k - 1 \in 1..m /\ k - 1 # m
        BY <4>1
      <4> QED  BY <4>1, <4>2, <4>3
    <3> QED  BY <3>1, <3>2
  <2>6. f = [k \in 1..m |-> f[k]]
    OBVIOUS
  <2> HIDE DEF f
  <2>7. Body(f, m)
    BY <2>5, <2>6
  <2> QED  BY <2>4, <2>7
<1> HIDE DEF Body
<1>4. PICK g \in [1..n -> Seq(S)] : Body(g, n)
  <2> HIDE DEF Good
  <2>1. Bad = {}
    <3> SUFFICES ASSUME Bad # {}  PROVE FALSE
      OBVIOUS
    <3>1. Bad \subseteq Nat
      OBVIOUS
    <3>2. PICK m \in Bad : \A y \in Bad : m <= y
      BY <3>1, LeastNatural
    <3>3. m \in 1..n /\ ~ Good(m)
      BY <3>2
    <3>4. m \in 2..n
      BY <1>2, <3>3
    <3>5. m - 1 \in 1..n /\ ~ (m <= m - 1)
      BY <3>4
    <3>6. Good(m - 1)
      BY <3>2, <3>5
    <3> QED  BY <1>3, <3>3, <3>4, <3>6
  <2>2. n \in 1..n
    OBVIOUS
  <2>3. Good(n)
    BY <2>1, <2>2
  <2> QED  BY <2>3 DEF Good
<1>5. FlattenSeq(seqs) = flatten[n]
  BY DEF FlattenSeq, Body
<1>6. Body(flatten, n)
  BY <1>4
<1> HIDE DEF flatten
<1>7. /\ DOMAIN flatten = 1..n /\ flatten = [k \in 1..n |-> flatten[k]] /\ flatten[1] = seqs[1]
      /\ \A k \in 2..n : flatten[k] = flatten[k - 1] \o seqs[k]
  <2>1. flatten = [k \in 1..n |-> IF k = 1 THEN seqs[k] ELSE flatten[k - 1] \o seqs[k]]
    BY <1>6 DEF Body
  <2>2. DOMAIN flatten = 1..n
    BY <2>1
  <2>3. \A k \in 1..n : flatten[k] = IF k = 1 THEN seqs[k] ELSE flatten[k - 1] \o seqs[k]
    BY <2>1
  <2>4. flatten = [k \in 1..n |-> flatten[k]]
    BY <2>1, <2>2
  <2>5. 1 \in 1..n /\ \A k \in 2..n : k \in 1..n /\ k # 1
    OBVIOUS
  <2>6. \A k \in 2..n : flatten[k] = flatten[k - 1] \o seqs[k]
    BY <2>3, <2>5
  <2> QED  BY <2>2, <2>3, <2>4, <2>5, <2>6
<1> DEFINE Wrong == {k \in 1..n : ~ (flatten[k] \in Seq(S))}
<1>8. Wrong = {}
  <2> SUFFICES ASSUME Wrong # {}  PROVE FALSE
    OBVIOUS
  <2>1. Wrong \subseteq Nat
    OBVIOUS
  <2>2. PICK k \in Wrong : \A y \in Wrong : k <= y
    BY <2>1, LeastNatural
  <2>3. k \in 1..n /\ ~ (flatten[k] \in Seq(S))
    BY <2>2
  <2>4. k # 1
    BY <1>1, <1>7, <2>3
  <2>5. k \in 2..n /\ k - 1 \in 1..n /\ ~ (k <= k - 1)
    BY <2>3, <2>4
  <2>6. flatten[k - 1] \in Seq(S)
    BY <2>2, <2>5
  <2>7. flatten[k] = flatten[k - 1] \o seqs[k] /\ seqs[k] \in Seq(S)
    BY <1>1, <1>7, <2>3, <2>5
  <2>8. flatten[k - 1] \o seqs[k] \in Seq(S)
    BY <2>6, <2>7, ConcatProperties
  <2> QED  BY <2>3, <2>7, <2>8
<1>9. flatten \in [1..n -> Seq(S)]
  BY <1>7, <1>8
<1>10. Strings(flatten, n, S, seqs)
  BY <1>7, <1>9 DEF Strings
<1> QED  BY <1>5, <1>10

LEMMA FlattenTyped ==
  ASSUME NEW S, NEW seqs \in Seq(Seq(S))
  PROVE  FlattenSeq(seqs) \in Seq(S)
<1>1. PICK n \in Nat : n = Len(seqs)
  BY SeqFacts
<1>2. CASE n = 0
  <2>1. FlattenSeq(seqs) = seqs
    BY <1>1, <1>2 DEF FlattenSeq
  <2>2. seqs = <<>>
    BY <1>1, <1>2, EmptySeq
  <2> QED  BY <2>1, <2>2, EmptySeq
<1>3. CASE n # 0
  <2>1. PICK f : Strings(f, n, S, seqs) /\ FlattenSeq(seqs) = f[n]
    BY <1>1, <1>3, FlattenIs
  <2>2. n \in 1..n
    BY <1>3
  <2> QED  BY <2>1, <2>2 DEF Strings
<1> QED  BY <1>2, <1>3

\* One more sequence comes after the others.
LEMMA FlattenAppend ==
  ASSUME NEW S, NEW seqs \in Seq(Seq(S)), NEW x \in Seq(S)
  PROVE  /\ FlattenSeq(<<>>) = <<>>
         /\ FlattenSeq(Append(seqs, x)) = FlattenSeq(seqs) \o x
<1>1. PICK n \in Nat : n = Len(seqs)
  BY SeqFacts
<1> DEFINE more == Append(seqs, x)
<1>2. /\ more \in Seq(Seq(S)) /\ Len(more) = n + 1 /\ more[n + 1] = x
      /\ \A k \in 1..n : more[k] = seqs[k]
  <2>1. seqs \in [1..n -> Seq(S)]
    BY <1>1, LenProperties
  <2> QED  BY <1>1, <2>1
<1>3. FlattenSeq(<<>>) = <<>>
  BY DEF FlattenSeq
<1> HIDE DEF more
<1>4. PICK g : Strings(g, n + 1, S, more) /\ FlattenSeq(more) = g[n + 1]
  <2>1. n + 1 \in Nat /\ n + 1 # 0
    OBVIOUS
  <2> QED  BY <1>2, <2>1, FlattenIs
<1>5. CASE n = 0
  <2>1. seqs = <<>>
    BY <1>1, <1>5, EmptySeq
  <2>2. g[1] = x
    BY <1>2, <1>4, <1>5 DEF Strings
  <2>3. <<>> \o x = x
    BY ConcatEmptySeq
  <2> QED  BY <1>3, <1>4, <1>5, <2>1, <2>2, <2>3 DEF more
<1>6. CASE n # 0
  <2>1. PICK f : Strings(f, n, S, seqs) /\ FlattenSeq(seqs) = f[n]
    BY <1>1, <1>6, FlattenIs
  <2> DEFINE Bad == {k \in 1..n : f[k] # g[k]}
  <2>2. Bad = {}
    <3> SUFFICES ASSUME Bad # {}  PROVE FALSE
      OBVIOUS
    <3>1. Bad \subseteq Nat
      OBVIOUS
    <3>2. PICK k \in Bad : \A y \in Bad : k <= y
      BY <3>1, LeastNatural
    <3>3. k \in 1..n /\ f[k] # g[k]
      BY <3>2
    <3>4. more[k] = seqs[k]
      BY <1>2, <3>3
    <3>5. k # 1
      BY <1>4, <2>1, <3>3, <3>4 DEF Strings
    <3>6. k \in 2..n /\ k \in 2..(n + 1) /\ k - 1 \in 1..n /\ ~ (k <= k - 1)
      BY <3>3, <3>5
    <3>7. f[k - 1] = g[k - 1]
      BY <3>2, <3>6
    <3>8. f[k] = f[k - 1] \o seqs[k]
      BY <2>1, <3>6 DEF Strings
    <3>9. g[k] = g[k - 1] \o more[k]
      BY <1>4, <3>6 DEF Strings
    <3> QED  BY <3>3, <3>4, <3>7, <3>8, <3>9
  <2>3. n \in 1..n /\ n + 1 \in 2..(n + 1) /\ (n + 1) - 1 = n
    BY <1>6
  <2>4. f[n] = g[n]
    BY <2>2, <2>3
  <2>5. g[n + 1] = g[n] \o more[n + 1]
    BY <1>4, <2>3 DEF Strings
  <2> QED  BY <1>2, <1>3, <1>4, <2>1, <2>4, <2>5 DEF more
<1> QED  BY <1>5, <1>6

\* What is in a sequence and one more.
LEMMA RangeConcat ==
  ASSUME NEW S, NEW s \in Seq(S), NEW t \in Seq(S)
  PROVE  Range(s \o t) = Range(s) \cup Range(t)
<1>1. PICK n \in Nat, m \in Nat : n = Len(s) /\ m = Len(t)
  BY SeqFacts
<1>2. /\ DOMAIN s = 1..n /\ DOMAIN t = 1..m /\ DOMAIN (s \o t) = 1..(n + m)
      /\ \A k \in 1..(n + m) : (s \o t)[k] = IF k <= n THEN s[k] ELSE t[k - n]
  <2>1. s \o t \in Seq(S) /\ Len(s \o t) = n + m
    BY <1>1, ConcatProperties
  <2>2. DOMAIN (s \o t) = 1..(n + m)
    BY <2>1, SeqFacts
  <2> QED  BY <1>1, <2>2, SeqFacts, ConcatProperties
<1>3. \A k \in 1..(n + m) : k <= n => k \in 1..n
  OBVIOUS
<1>4. \A k \in 1..(n + m) : ~ (k <= n) => k - n \in 1..m
  OBVIOUS
<1>5. ASSUME NEW v \in Range(s \o t)  PROVE v \in Range(s) \cup Range(t)
  <2>1. PICK k \in 1..(n + m) : v = (s \o t)[k]
    BY <1>2 DEF Range
  <2> QED  BY <1>2, <1>3, <1>4, <2>1 DEF Range
<1>6. ASSUME NEW v \in Range(s)  PROVE v \in Range(s \o t)
  <2>1. PICK k \in 1..n : v = s[k]
    BY <1>2 DEF Range
  <2>2. k \in 1..(n + m) /\ k <= n
    OBVIOUS
  <2> QED  BY <1>2, <2>1, <2>2 DEF Range
<1>7. ASSUME NEW v \in Range(t)  PROVE v \in Range(s \o t)
  <2>1. PICK k \in 1..m : v = t[k]
    BY <1>2 DEF Range
  <2>2. k + n \in 1..(n + m) /\ ~ (k + n <= n) /\ (k + n) - n = k
    OBVIOUS
  <2> QED  BY <1>2, <2>1, <2>2 DEF Range
<1> QED  BY <1>5, <1>6, <1>7

LEMMA RangeFlatten ==
  ASSUME NEW S, NEW seqs \in Seq(Seq(S))
  PROVE  Range(FlattenSeq(seqs)) = UNION {Range(seqs[k]) : k \in 1..Len(seqs)}
<1>1. PICK n \in Nat : n = Len(seqs)
  BY SeqFacts
<1>2. CASE n = 0
  <2>1. FlattenSeq(seqs) = seqs /\ DOMAIN seqs = 1..0
    BY <1>1, <1>2, SeqFacts DEF FlattenSeq
  <2>2. 1..0 = {}
    OBVIOUS
  <2>3. Range(seqs) = {}
    BY <2>1, <2>2 DEF Range
  <2> QED  BY <1>1, <1>2, <2>1, <2>2, <2>3
<1>3. CASE n # 0
  <2>1. PICK f : Strings(f, n, S, seqs) /\ FlattenSeq(seqs) = f[n]
    BY <1>1, <1>3, FlattenIs
  <2> DEFINE Of(k) == UNION {Range(seqs[l]) : l \in 1..k}
             Bad == {k \in 1..n : Range(f[k]) # Of(k)}
  <2>2. Of(1) = Range(seqs[1])
    <3>1. 1..1 = {1}
      OBVIOUS
    <3> QED  BY <3>1
  <2>3. \A k \in 2..n : Of(k) = Of(k - 1) \cup Range(seqs[k])
    <3> TAKE k \in 2..n
    <3>1. 1..k = (1..(k - 1)) \cup {k}
      OBVIOUS
    <3> QED  BY <3>1
  <2> HIDE DEF Of
  <2>4. Bad = {}
    <3> SUFFICES ASSUME Bad # {}  PROVE FALSE
      OBVIOUS
    <3>1. Bad \subseteq Nat
      OBVIOUS
    <3>2. PICK k \in Bad : \A y \in Bad : k <= y
      BY <3>1, LeastNatural
    <3>3. k \in 1..n /\ Range(f[k]) # Of(k)
      BY <3>2
    <3>4. k # 1
      BY <2>1, <2>2, <3>3 DEF Strings
    <3>5. k \in 2..n /\ k - 1 \in 1..n /\ ~ (k <= k - 1)
      BY <3>3, <3>4
    <3>6. Range(f[k - 1]) = Of(k - 1)
      BY <3>2, <3>5
    <3>7. f[k] = f[k - 1] \o seqs[k]
      BY <2>1, <3>5 DEF Strings
    <3>8. f[k - 1] \in Seq(S) /\ seqs[k] \in Seq(S)
      BY <1>1, <2>1, <3>3, <3>5, SeqFacts DEF Strings
    <3>9. Range(f[k]) = Range(f[k - 1]) \cup Range(seqs[k])
      BY <3>7, <3>8, RangeConcat
    <3> QED  BY <2>3, <3>3, <3>5, <3>6, <3>9
  <2>5. n \in 1..n
    BY <1>3
  <2> QED  BY <1>1, <2>1, <2>4, <2>5 DEF Of
<1> QED  BY <1>2, <1>3

------------------------------------------------------------------------------
(* The specs of a text or of a tree *)

IdsOf(d) == [j \in 1..Len(d.specs) |-> d.specs[j].id]

\* Those whose order is kept.
Others(d) == IF d.tok = "import" THEN <<>> ELSE IdsOf(d)

SpecIds(ds) == UNION {Range(IdsOf(ds[k])) : k \in 1..Len(ds)}

\* No two specs are one.
Unique(ds) ==
  \A k \in 1..Len(ds), l \in 1..Len(ds) :
    \A j \in 1..Len(ds[k].specs), m \in 1..Len(ds[l].specs) :
      ds[k].specs[j].id = ds[l].specs[m].id => k = l /\ j = m

\* Texts and trees have both.
HasIds(ds) ==
  /\ Len(ds) \in Nat
  /\ \A k \in 1..Len(ds) :
       /\ Len(ds[k].specs) \in Nat
       /\ ds[k] = [ds[k] EXCEPT !.specs = ds[k].specs]
       /\ [ds[k] EXCEPT !.specs = <<>>].specs = <<>>
       /\ \A j \in 1..Len(ds[k].specs) : ds[k].specs[j].id \in Int

LEMMA TextHasIds ==
  ASSUME NEW text, IsText(text)
  PROVE  HasIds(text) /\ Unique(text)
<1>1. Len(text) \in Nat /\ DOMAIN text = 1..Len(text)
  BY SeqFacts DEF IsText
<1>2. ASSUME NEW k \in 1..Len(text)
      PROVE  /\ Len(text[k].specs) \in Nat /\ DOMAIN text[k].specs = 1..Len(text[k].specs)
             /\ text[k] = [text[k] EXCEPT !.specs = text[k].specs]
             /\ [text[k] EXCEPT !.specs = <<>>].specs = <<>>
             /\ \A j \in 1..Len(text[k].specs) : text[k].specs[j].id \in Int
  <2>1. text[k] \in DeclText
    BY SeqFacts DEF IsText
  <2>2. text[k].specs \in Seq(SpecText)
    BY TextFacts
  <2> QED  BY <2>1, <2>2, TextFacts, SeqFacts DEF DeclText
<1> QED  BY <1>1, <1>2, SMTT(30) DEF IsText, HasIds, Unique

LEMMA TreeHasIds ==
  ASSUME NEW ds, IsTree(ds)
  PROVE  HasIds(ds)
<1>1. Len(ds) \in Nat
  BY SeqFacts DEF IsTree
<1>2. ASSUME NEW k \in 1..Len(ds)
      PROVE  /\ Len(ds[k].specs) \in Nat
             /\ ds[k] = [ds[k] EXCEPT !.specs = ds[k].specs]
             /\ [ds[k] EXCEPT !.specs = <<>>].specs = <<>>
             /\ \A j \in 1..Len(ds[k].specs) : ds[k].specs[j].id \in Int
  <2>1. ds[k] \in DeclTree
    BY TreeFacts
  <2>2. /\ ds[k] = [ds[k] EXCEPT !.specs = ds[k].specs]
        /\ [ds[k] EXCEPT !.specs = <<>>].specs = <<>>
    BY <2>1 DEF DeclTree
  <2> QED  BY <2>1, <2>2, DeclFacts
<1> QED  BY <1>1, <1>2 DEF HasIds

\* Ids and OtherIds are the lists of each declaration, one after another.
LEMMA IdsAre ==
  ASSUME NEW ds, HasIds(ds)
  PROVE  LET others == [k \in 1..Len(ds) |-> Others(ds[k])]
         IN  /\ \A k \in 1..Len(ds) : IdsOf(ds[k]) \in Seq(Int) /\ Others(ds[k]) \in Seq(Int)
             /\ Range(Ids(ds)) = SpecIds(ds)
             /\ others \in Seq(Seq(Int)) /\ Len(others) = Len(ds)
             /\ OtherIds(ds) = FlattenSeq(others)
<1>1. PICK n \in Nat : n = Len(ds)
  BY DEF HasIds
<1>2. ASSUME NEW k \in 1..n  PROVE IdsOf(ds[k]) \in Seq(Int) /\ Others(ds[k]) \in Seq(Int)
  <2>1. IdsOf(ds[k]) \in [1..Len(ds[k].specs) -> Int] /\ Len(ds[k].specs) \in Nat
    BY <1>1 DEF HasIds, IdsOf
  <2>2. IdsOf(ds[k]) \in Seq(Int)
    BY <2>1, FunctionIsSeq
  <2> QED  BY <2>2, EmptySeq DEF Others
<1> DEFINE lists  == [k \in 1..n |-> IdsOf(ds[k])]
           others == [k \in 1..n |-> Others(ds[k])]
<1>3. lists \in Seq(Seq(Int)) /\ Len(lists) = n
  <2>1. lists \in [1..n -> Seq(Int)]
    BY <1>2
  <2> HIDE DEF lists
  <2> QED  BY <2>1, FunctionIsSeq
<1>4. others \in Seq(Seq(Int)) /\ Len(others) = n
  <2>1. others \in [1..n -> Seq(Int)]
    BY <1>2
  <2> HIDE DEF others
  <2> QED  BY <2>1, FunctionIsSeq
<1>5. Ids(ds) = FlattenSeq(lists)
  BY <1>1 DEF Ids, IdsOf
<1>6. Range(Ids(ds)) = SpecIds(ds)
  <2>1. \A k \in 1..n : lists[k] = IdsOf(ds[k])
    OBVIOUS
  <2> HIDE DEF lists
  <2>2. Range(FlattenSeq(lists)) = UNION {Range(lists[k]) : k \in 1..n}
    BY <1>3, RangeFlatten
  <2> QED  BY <1>1, <1>5, <2>1, <2>2 DEF SpecIds
<1> DEFINE es == [k \in 1..n |-> IF ds[k].tok = "import" THEN [ds[k] EXCEPT !.specs = <<>>] ELSE ds[k]]
<1>7. Len(es) = n
  OBVIOUS
<1>8. OtherIds(ds) = Ids(es)
  BY <1>1 DEF OtherIds
<1>9. \A k \in 1..n : [j \in 1..Len(es[k].specs) |-> es[k].specs[j].id] = Others(ds[k])
  <2> TAKE k \in 1..n
  <2>1. CASE ds[k].tok = "import"
    <3>1. es[k].specs = <<>>
      BY <1>1, <2>1 DEF HasIds
    <3>2. Len(es[k].specs) = 0
      BY <3>1
    <3>3. 1..0 = {}
      OBVIOUS
    <3> HIDE DEF es
    <3>4. [j \in 1..Len(es[k].specs) |-> es[k].specs[j].id] = <<>>
      BY <3>2, <3>3
    <3> QED  BY <2>1, <3>4 DEF Others
  <2>2. CASE ds[k].tok # "import"
    <3>1. es[k] = ds[k]
      BY <2>2
    <3> HIDE DEF es
    <3> QED  BY <2>2, <3>1 DEF Others, IdsOf
  <2> QED  BY <2>1, <2>2
<1> HIDE DEF es
<1>10. Ids(es) = FlattenSeq(others)
  BY <1>7, <1>9 DEF Ids
<1> QED  BY <1>1, <1>2, <1>4, <1>6, <1>8, <1>10

\* The same specs in the same declarations.
SameSpecs(ds, es) ==
  /\ Len(es) = Len(ds)
  /\ \A k \in 1..Len(ds) : es[k].tok = ds[k].tok /\ IdsOf(es[k]) = IdsOf(ds[k])

LEMMA SameSpecsKept ==
  ASSUME NEW ds, NEW es, HasIds(ds), HasIds(es), SameSpecs(ds, es)
  PROVE  /\ OtherIds(es) = OtherIds(ds) /\ SpecIds(es) = SpecIds(ds)
         /\ Unique(ds) => Unique(es)
<1>1. PICK n \in Nat : n = Len(ds) /\ n = Len(es)
  BY DEF HasIds, SameSpecs
<1>2. [k \in 1..n |-> Others(es[k])] = [k \in 1..n |-> Others(ds[k])]
  BY <1>1 DEF SameSpecs, Others
<1>3. OtherIds(es) = OtherIds(ds)
  <2>1. OtherIds(es) = FlattenSeq([k \in 1..n |-> Others(es[k])])
    BY <1>1, IdsAre
  <2>2. OtherIds(ds) = FlattenSeq([k \in 1..n |-> Others(ds[k])])
    BY <1>1, IdsAre
  <2> QED  BY <1>2, <2>1, <2>2
<1>4. SpecIds(es) = SpecIds(ds)
  BY <1>1 DEF SpecIds, SameSpecs
<1>5. ASSUME NEW k \in 1..n
      PROVE  /\ Len(es[k].specs) = Len(ds[k].specs)
             /\ \A j \in 1..Len(ds[k].specs) : es[k].specs[j].id = ds[k].specs[j].id
  <2>1. IdsOf(es[k]) = IdsOf(ds[k])
    BY <1>1 DEF SameSpecs
  <2>2. Len(es[k].specs) \in Nat /\ Len(ds[k].specs) \in Nat
    BY <1>1 DEF HasIds
  <2>3. 1..Len(es[k].specs) = 1..Len(ds[k].specs)
    BY <2>1 DEF IdsOf
  <2>4. Len(es[k].specs) = Len(ds[k].specs)
    BY <2>2, <2>3
  <2>5. ASSUME NEW j \in 1..Len(ds[k].specs)  PROVE es[k].specs[j].id = ds[k].specs[j].id
    <3>1. IdsOf(ds[k])[j] = ds[k].specs[j].id
      BY DEF IdsOf
    <3>2. IdsOf(es[k])[j] = es[k].specs[j].id
      BY <2>4 DEF IdsOf
    <3> QED  BY <2>1, <3>1, <3>2
  <2> QED  BY <2>4, <2>5
<1>6. Unique(ds) => Unique(es)
  BY <1>1, <1>5 DEF Unique
<1> QED  BY <1>3, <1>4, <1>6

\* One more declaration.
LEMMA OneMore ==
  ASSUME NEW ds, NEW S, ds \in Seq(S), HasIds(ds), NEW d \in S, HasIds(Append(ds, d))
  PROVE  /\ OtherIds(Append(ds, d)) = OtherIds(ds) \o Others(d)
         /\ SpecIds(Append(ds, d)) = SpecIds(ds) \cup Range(IdsOf(d))
<1>1. PICK n \in Nat : n = Len(ds)
  BY SeqFacts
<1> DEFINE es == Append(ds, d)
<1>2. Len(es) = n + 1 /\ es[n + 1] = d /\ \A k \in 1..n : es[k] = ds[k]
  <2>1. ds \in [1..n -> S]
    BY <1>1, LenProperties
  <2> QED  BY <1>1, <2>1
<1> HIDE DEF es
<1>3. n + 1 \in 1..(n + 1) /\ 1..(n + 1) = (1..n) \cup {n + 1}
  OBVIOUS
<1> DEFINE before == [k \in 1..n |-> Others(ds[k])]
           after  == [k \in 1..(n + 1) |-> Others(es[k])]
<1>4. /\ OtherIds(ds) = FlattenSeq(before) /\ before \in Seq(Seq(Int)) /\ Len(before) = n
  BY <1>1, IdsAre
<1>5. /\ OtherIds(es) = FlattenSeq(after) /\ after \in Seq(Seq(Int)) /\ Len(after) = n + 1
      /\ Others(es[n + 1]) \in Seq(Int)
  BY <1>2, <1>3, IdsAre DEF es
<1>6. after = Append(before, Others(d))
  <2>1. before \in [1..n -> Seq(Int)]
    BY <1>4, LenProperties
  <2>2. Append(before, Others(d)) \in Seq(Seq(Int)) /\ Len(Append(before, Others(d))) = n + 1
    BY <1>2, <1>4, <1>5
  <2>3. \A k \in 1..(n + 1) : after[k] = Append(before, Others(d))[k]
    <3> TAKE k \in 1..(n + 1)
    <3>1. CASE k = n + 1
      <4>1. Append(before, Others(d))[n + 1] = Others(d)
        BY <1>4, <2>1
      <4> QED  BY <1>2, <3>1, <4>1
    <3>2. CASE k # n + 1
      <4>1. k \in 1..n
        BY <3>2
      <4>2. before[k] = Others(ds[k]) /\ after[k] = Others(es[k])
        BY <4>1
      <4> HIDE DEF before, after
      <4>3. Append(before, Others(d))[k] = before[k]
        BY <1>4, <2>1, <4>1
      <4> QED  BY <1>2, <4>1, <4>2, <4>3
    <3> QED  BY <3>1, <3>2
  <2> HIDE DEF before, after
  <2> QED  BY <1>5, <2>2, <2>3, SeqEqual
<1> HIDE DEF before, after
<1>7. OtherIds(es) = OtherIds(ds) \o Others(d)
  BY <1>2, <1>4, <1>5, <1>6, FlattenAppend
<1>8. SpecIds(es) = SpecIds(ds) \cup Range(IdsOf(d))
  BY <1>1, <1>2, <1>3 DEF SpecIds
<1> QED  BY <1>7, <1>8 DEF es

------------------------------------------------------------------------------
(* The sorting of imports *)

\* How many of R are below x.
Rank(R, id, x) == Cardinality({y \in R : id[y] < id[x]})

\* Each has a place of its own, and no place is left.
LEMMA Ranks ==
  ASSUME NEW R, IsFiniteSet(R), NEW id \in [R -> Int], \A x \in R, y \in R : id[x] = id[y] => x = y
  PROVE  /\ Cardinality(R) \in Nat
         /\ \A x \in R : Rank(R, id, x) \in 0..(Cardinality(R) - 1)
         /\ \A x \in R, y \in R : Rank(R, id, x) = Rank(R, id, y) => x = y
         /\ \A m \in 0..(Cardinality(R) - 1) : \E x \in R : Rank(R, id, x) = m
<1> DEFINE Less(x) == {y \in R : id[y] < id[x]}
<1>1. PICK n \in Nat : n = Cardinality(R)
  BY FS_CardinalityType
<1>2. ASSUME NEW x \in R
      PROVE  IsFiniteSet(Less(x)) /\ Cardinality(Less(x)) \in Nat /\ x \notin Less(x)
  <2>1. Less(x) \in SUBSET R /\ id[x] \in Int
    OBVIOUS
  <2>2. IsFiniteSet(Less(x))
    BY <2>1, FS_Subset
  <2>3. x \notin Less(x)
    BY <2>1
  <2> QED  BY <2>2, <2>3, FS_CardinalityType
<1>3. ASSUME NEW x \in R, NEW T, T \subseteq R, Less(x) \subseteq T, x \in T
      PROVE  Cardinality(Less(x)) < Cardinality(T)
  <2>1. IsFiniteSet(T) /\ Cardinality(T) \in Nat
    <3>1. T \in SUBSET R
      BY <1>3
    <3>2. IsFiniteSet(T)
      BY <3>1, FS_Subset
    <3> QED  BY <3>2, FS_CardinalityType
  <2>2. Less(x) \in SUBSET T /\ Less(x) # T
    BY <1>2, <1>3
  <2>3. Cardinality(Less(x)) <= Cardinality(T) /\ Cardinality(Less(x)) # Cardinality(T)
    BY <2>1, <2>2, FS_Subset
  <2> QED  BY <1>2, <2>1, <2>3
<1>4. ASSUME NEW x \in R  PROVE Cardinality(Less(x)) \in 0..(n - 1)
  <2>1. Cardinality(Less(x)) < n
    BY <1>1, <1>3
  <2> QED  BY <1>1, <1>2, <2>1
<1>5. ASSUME NEW x \in R, NEW y \in R, id[x] < id[y]
      PROVE  Cardinality(Less(x)) < Cardinality(Less(y))
  <2>1. id[x] \in Int /\ id[y] \in Int
    OBVIOUS
  <2>2. \A z \in R : id[z] \in Int
    OBVIOUS
  <2>3. Less(x) \subseteq Less(y) /\ x \in Less(y) /\ Less(y) \subseteq R
    BY <1>5, <2>1, <2>2
  <2> HIDE DEF Less
  <2> QED  BY <1>3, <2>3
<1> HIDE DEF Less
<1>6. ASSUME NEW x \in R, NEW y \in R, Cardinality(Less(x)) = Cardinality(Less(y))  PROVE x = y
  <2>1. id[x] \in Int /\ id[y] \in Int /\ Cardinality(Less(x)) \in Int /\ Cardinality(Less(y)) \in Int
    BY <1>2
  <2>2. ~ (id[x] < id[y]) /\ ~ (id[y] < id[x])
    BY <1>5, <1>6, <2>1
  <2> QED  BY <2>1, <2>2
<1> DEFINE rank == [x \in R |-> Cardinality(Less(x))]
<1>7. rank \in Injection(R, 0..(n - 1))
  <2>1. rank \in [R -> 0..(n - 1)]
    BY <1>4
  <2>2. \A x \in R, y \in R : rank[x] = rank[y] => x = y
    BY <1>6
  <2> HIDE DEF rank
  <2> QED  BY <2>1, <2>2 DEF Injection, IsInjective
<1>8. IsFiniteSet(0..(n - 1)) /\ Cardinality(0..(n - 1)) = n
  <2>1. 0 \in Int /\ n - 1 \in Int
    BY <1>1
  <2>2. IsFiniteSet(0..(n - 1)) /\ Cardinality(0..(n - 1)) = IF 0 > n - 1 THEN 0 ELSE (n - 1) - 0 + 1
    BY <2>1, FS_Interval
  <2> QED  BY <2>2
<1> HIDE DEF rank
<1>9. rank \in Surjection(R, 0..(n - 1))
  BY <1>1, <1>7, <1>8, FS_Injection
<1>10. \A m \in 0..(n - 1) : \E x \in R : Cardinality(Less(x)) = m
  <2> TAKE m \in 0..(n - 1)
  <2>1. PICK x \in R : rank[x] = m
    BY <1>9 DEF Surjection
  <2> QED  BY <2>1 DEF rank
<1>11. \A x \in R : Rank(R, id, x) = Cardinality(Less(x))
  BY DEF Rank, Less
<1> QED  BY <1>1, <1>4, <1>6, <1>10, <1>11

\* One spec for each place, and no spec twice.
LEMMA SortedIs ==
  ASSUME NEW specs \in Seq(SpecTree), NEW n \in Nat, n = Len(specs),
         \A x \in 1..n, y \in 1..n : specs[x].id = specs[y].id => x = y
  PROVE  /\ \A j \in 1..n : Sorted(specs, j) \in Run(specs, j) /\ Sorted(specs, j) \in 1..n
         /\ \A j \in 1..n, k \in 1..n : Sorted(specs, j) = Sorted(specs, k) => j = k
         /\ \A x \in 1..n : \E j \in 1..n : Sorted(specs, j) = x
<1>1. \A x \in 1..n : specs[x].id \in Int
  <2> TAKE x \in 1..n
  <2>1. specs[x] \in SpecTree
    BY SeqFacts
  <2> QED  BY <2>1 DEF SpecTree
<1> DEFINE R(j) == Run(specs, j)
           id(j) == [y \in R(j) |-> specs[y].id]
           at(j) == [y \in R(j) |-> y]
<1>2. IsFiniteSet(1..n)
  <2>1. 1 \in Int /\ n \in Int
    OBVIOUS
  <2> QED  BY <2>1, FS_Interval
<1>3. ASSUME NEW j \in 1..n
      PROVE  /\ R(j) \subseteq 1..n /\ j \in R(j) /\ IsFiniteSet(R(j))
             /\ id(j) \in [R(j) -> Int] /\ at(j) \in [R(j) -> Int]
             /\ \A x \in R(j), y \in R(j) : id(j)[x] = id(j)[y] => x = y
             /\ \A x \in R(j), y \in R(j) : at(j)[x] = at(j)[y] => x = y
  <2>1. R(j) \in SUBSET (1..n) /\ j \in R(j)
    BY DEF Run
  <2>2. IsFiniteSet(R(j))
    BY <1>2, <2>1, FS_Subset
  <2> HIDE DEF R
  <2> QED  BY <1>1, <2>1, <2>2
<1>4. ASSUME NEW j \in 1..n
      PROVE  /\ Sorted(specs, j) \in R(j)
             /\ Rank(R(j), id(j), Sorted(specs, j)) = Rank(R(j), at(j), j)
  <2>1. Rank(R(j), at(j), j) \in 0..(Cardinality(R(j)) - 1)
    <3> HIDE DEF R, at
    <3>1. \A x \in R(j) : Rank(R(j), at(j), x) \in 0..(Cardinality(R(j)) - 1)
      BY <1>3, Ranks
    <3> QED  BY <1>3, <3>1
  <2>2. PICK x \in R(j) : Rank(R(j), id(j), x) = Rank(R(j), at(j), j)
    <3> HIDE DEF R, at, id
    <3>1. /\ IsFiniteSet(R(j)) /\ id(j) \in [R(j) -> Int]
          /\ \A x \in R(j), y \in R(j) : id(j)[x] = id(j)[y] => x = y
      BY <1>3
    <3>2. \A m \in 0..(Cardinality(R(j)) - 1) : \E x \in R(j) : Rank(R(j), id(j), x) = m
      BY ONLY <3>1, Ranks
    <3> QED  BY <2>1, <3>2
  <2>3. Rank(R(j), at(j), j) = Cardinality({y \in Run(specs, j) : y < j})
    <3>1. {y \in R(j) : at(j)[y] < at(j)[j]} = {y \in R(j) : y < j}
      <4>1. j \in R(j)
        BY <1>3
      <4> HIDE DEF R
      <4> QED  BY <4>1
    <3> QED  BY <3>1 DEF Rank
  <2>4. ASSUME NEW z \in R(j)
        PROVE  Rank(R(j), id(j), z) = Cardinality({y \in Run(specs, j) : specs[y].id < specs[z].id})
    <3>1. {y \in R(j) : id(j)[y] < id(j)[z]} = {y \in R(j) : specs[y].id < specs[z].id}
      <4> HIDE DEF R
      <4> QED  OBVIOUS
    <3> QED  BY <3>1 DEF Rank
  <2> DEFINE Fits(z) == Cardinality({y \in Run(specs, j) : specs[y].id < specs[z].id})
                          = Cardinality({y \in Run(specs, j) : y < j})
  <2>5. \E z \in Run(specs, j) : Fits(z)
    BY <2>2, <2>3, <2>4
  <2>6. Sorted(specs, j) = CHOOSE z \in Run(specs, j) : Fits(z)
    BY DEF Sorted
  <2> HIDE DEF Fits
  <2>7. Sorted(specs, j) \in Run(specs, j) /\ Fits(Sorted(specs, j))
    BY <2>5, <2>6
  <2> QED  BY <2>3, <2>4, <2>7 DEF Fits
<1>5. ASSUME NEW j \in 1..n, NEW k \in 1..n, Sorted(specs, j) = Sorted(specs, k)  PROVE j = k
  <2> DEFINE x == Sorted(specs, j)
  <2>1. x \in R(j) /\ x \in R(k)
    BY <1>4, <1>5
  <2>2. R(j) = R(k)
    <3> HIDE DEF x
    <3> QED  BY <2>1 DEF Run
  <2>3. Rank(R(j), at(j), j) = Rank(R(j), at(j), k)
    <3>1. Rank(R(j), id(j), x) = Rank(R(j), at(j), j)
      BY <1>4
    <3>2. Rank(R(k), id(k), x) = Rank(R(k), at(k), k)
      BY <1>4, <1>5
    <3>3. id(j) = id(k) /\ at(j) = at(k)
      BY <2>2
    <3> HIDE DEF R, id, at, x
    <3> QED  BY <2>2, <3>1, <3>2, <3>3
  <2>4. j \in R(j) /\ k \in R(j)
    BY <1>3, <2>2
  <2> HIDE DEF R, at
  <2>5. \A y \in R(j), z \in R(j) : Rank(R(j), at(j), y) = Rank(R(j), at(j), z) => y = z
    BY <1>3, Ranks
  <2> QED  BY <2>3, <2>4, <2>5
<1> DEFINE f == [j \in 1..n |-> Sorted(specs, j)]
<1>6. f \in Injection(1..n, 1..n)
  <2>1. f \in [1..n -> 1..n]
    BY <1>3, <1>4
  <2>2. \A j \in 1..n, k \in 1..n : f[j] = f[k] => j = k
    BY <1>5
  <2> HIDE DEF f
  <2> QED  BY <2>1, <2>2 DEF Injection, IsInjective
<1> HIDE DEF f
<1>7. f \in Surjection(1..n, 1..n)
  BY <1>2, <1>6, FS_Injection
<1>8. \A x \in 1..n : \E j \in 1..n : Sorted(specs, j) = x
  BY <1>7 DEF Surjection, f
<1> QED  BY <1>3, <1>4, <1>5, <1>8

\* The specs of a declaration are told apart by their paths.
Distinct(d) ==
  \A x \in 1..Len(d.specs), y \in 1..Len(d.specs) : d.specs[x].id = d.specs[y].id => x = y

\* The specs of d are in other places of e, and the places where they were.
SortedFrom(d, e) ==
  /\ e \in DeclTree /\ IsDecl(e)
  /\ e.tok = d.tok /\ e.doc = d.doc /\ e.paren = d.paren /\ e.line = d.line /\ e.end = d.end
  /\ e.wide = d.wide /\ e.tall = d.tall /\ Len(e.specs) = Len(d.specs)
  /\ \A j \in 1..Len(d.specs) :
       /\ e.specs[j].line = d.specs[j].line /\ e.specs[j].end = d.specs[j].end
       /\ Sorted(d.specs, j) \in 1..Len(d.specs)
       /\ e.specs[j].id = d.specs[Sorted(d.specs, j)].id
       /\ e.specs[j].iota = d.specs[Sorted(d.specs, j)].iota
       /\ e.specs[j].doc = d.specs[Sorted(d.specs, j)].doc
  /\ \A x \in 1..Len(d.specs) : \E j \in 1..Len(d.specs) : Sorted(d.specs, j) = x
  /\ Distinct(e) /\ Range(IdsOf(e)) = Range(IdsOf(d))

LEMMA SortImportsIs ==
  ASSUME NEW d \in DeclTree, IsDecl(d), d.tok = "import", Distinct(d)
  PROVE  SortedFrom(d, SortImports(d))
<1>1. PICK n \in Nat : n = Len(d.specs)
  BY DeclFacts
<1> DEFINE at(j) == Sorted(d.specs, j)
           spec(j) == [d.specs[at(j)] EXCEPT !.line = d.specs[j].line, !.end = d.specs[j].end]
           specs == [j \in 1..n |-> spec(j)]
           e == SortImports(d)
<1>2. /\ \A j \in 1..n : at(j) \in 1..n
      /\ \A j \in 1..n, k \in 1..n : at(j) = at(k) => j = k
      /\ \A x \in 1..n : \E j \in 1..n : at(j) = x
  <2>1. d.specs \in Seq(SpecTree)
    BY DeclFacts
  <2>2. \A x \in 1..n, y \in 1..n : d.specs[x].id = d.specs[y].id => x = y
    BY <1>1 DEF Distinct
  <2>3. /\ \A j \in 1..n : Sorted(d.specs, j) \in Run(d.specs, j) /\ Sorted(d.specs, j) \in 1..n
        /\ \A j \in 1..n, k \in 1..n : Sorted(d.specs, j) = Sorted(d.specs, k) => j = k
        /\ \A x \in 1..n : \E j \in 1..n : Sorted(d.specs, j) = x
    BY ONLY <1>1, <2>1, <2>2, SortedIs
  <2> QED  BY <2>3
<1> HIDE DEF at
<1>3. ASSUME NEW j \in 1..n
      PROVE  /\ spec(j) \in SpecTree
             /\ spec(j).line = d.specs[j].line /\ spec(j).end = d.specs[j].end
             /\ spec(j).id = d.specs[at(j)].id /\ spec(j).iota = d.specs[at(j)].iota
             /\ spec(j).doc = d.specs[at(j)].doc
  <2>1. d.specs[at(j)] \in SpecTree /\ d.specs[j] \in SpecTree
    BY <1>1, <1>2, DeclFacts
  <2>2. d.specs[j].line \in Nat /\ d.specs[j].end \in Nat
    BY <2>1 DEF SpecTree
  <2> QED  BY <2>1, <2>2 DEF SpecTree
<1>4. specs \in Seq(SpecTree) /\ Len(specs) = n /\ \A j \in 1..n : specs[j] = spec(j)
  <2>1. specs \in [1..n -> SpecTree]
    BY <1>3
  <2>2. \A j \in 1..n : specs[j] = spec(j)
    OBVIOUS
  <2> HIDE DEF specs
  <2> QED  BY <2>1, <2>2, FunctionIsSeq
<1> HIDE DEF spec
<1>5. e = [d EXCEPT !.specs = specs]
  BY <1>1 DEF SortImports, spec, at
<1> HIDE DEF specs, e
<1>6. /\ e \in DeclTree /\ e.specs = specs
      /\ e.tok = d.tok /\ e.doc = d.doc /\ e.paren = d.paren /\ e.line = d.line /\ e.end = d.end
      /\ e.wide = d.wide /\ e.tall = d.tall
  BY <1>4, <1>5 DEF DeclTree
<1>7. \A j \in 1..n : /\ e.specs[j].line = d.specs[j].line /\ e.specs[j].end = d.specs[j].end
                      /\ e.specs[j].id = d.specs[at(j)].id /\ e.specs[j].iota = d.specs[at(j)].iota
                      /\ e.specs[j].doc = d.specs[at(j)].doc
  BY <1>3, <1>4, <1>6
<1>8. Len(e.specs) = n
  BY <1>4, <1>6
<1>9. IsDecl(e)
  BY <1>1, <1>6, <1>7, <1>8 DEF IsDecl
<1>10. Distinct(e)
  <2> SUFFICES ASSUME NEW x \in 1..n, NEW y \in 1..n, e.specs[x].id = e.specs[y].id  PROVE x = y
    BY <1>8 DEF Distinct
  <2>1. at(x) \in 1..n /\ at(y) \in 1..n
    BY <1>2
  <2>2. d.specs[at(x)].id = d.specs[at(y)].id
    BY <1>7
  <2>3. at(x) = at(y)
    BY <1>1, <2>1, <2>2 DEF Distinct
  <2> QED  BY <1>2, <2>3
<1>11. Range(IdsOf(e)) = Range(IdsOf(d))
  <2>1. Range(IdsOf(e)) = {e.specs[j].id : j \in 1..n}
    BY <1>8 DEF Range, IdsOf
  <2>2. Range(IdsOf(d)) = {d.specs[j].id : j \in 1..n}
    BY <1>1 DEF Range, IdsOf
  <2>3. {e.specs[j].id : j \in 1..n} = {d.specs[at(j)].id : j \in 1..n}
    BY <1>7
  <2>4. {d.specs[at(j)].id : j \in 1..n} = {d.specs[j].id : j \in 1..n}
    BY <1>2
  <2> QED  BY <2>1, <2>2, <2>3, <2>4
<1>12. /\ \A j \in 1..Len(d.specs) :
            /\ e.specs[j].line = d.specs[j].line /\ e.specs[j].end = d.specs[j].end
            /\ Sorted(d.specs, j) \in 1..Len(d.specs)
            /\ e.specs[j].id = d.specs[Sorted(d.specs, j)].id
            /\ e.specs[j].iota = d.specs[Sorted(d.specs, j)].iota
            /\ e.specs[j].doc = d.specs[Sorted(d.specs, j)].doc
       /\ \A x \in 1..Len(d.specs) : \E j \in 1..Len(d.specs) : Sorted(d.specs, j) = x
  BY <1>1, <1>2, <1>7 DEF at
<1>13. SortedFrom(d, e)
  BY <1>1, <1>6, <1>8, <1>9, <1>10, <1>11, <1>12 DEF SortedFrom
<1> QED  BY <1>13 DEF e

------------------------------------------------------------------------------
(* Lines that are renumbered *)

\* The order of the lines is kept, none but those from a to b become one, and
\* none come closer to one another but those.
Collapses(to, ds, a, b) ==
  /\ to \in [LinesOf(ds) -> Nat]
  /\ \A x \in LinesOf(ds) : to[x] >= 1
  /\ \A x \in LinesOf(ds), y \in LinesOf(ds) :
       x < y => /\ to[x] <= to[y]
                /\ to[x] = to[y] => a <= x /\ y <= b
                /\ y <= a \/ b <= x => to[y] - to[x] >= y - x

\* es is ds with its lines moved.
Lined(ds, es, to) ==
  /\ Len(es) = Len(ds)
  /\ \A k \in 1..Len(ds) :
       /\ Same(ds[k], es[k]) /\ es[k].paren = ds[k].paren
       /\ es[k].line = to[ds[k].line] /\ es[k].end = to[ds[k].end]
       /\ \A j \in 1..Len(ds[k].specs) :
            /\ es[k].specs[j].line = to[ds[k].specs[j].line]
            /\ es[k].specs[j].end = to[ds[k].specs[j].end]

\* What lines are moved in stays a tree.
LEMMA RenumberKeeps ==
  ASSUME NEW ds, IsTree(ds), NEW c \in 1..Len(ds), NEW to, NEW a \in Nat, NEW b \in Nat,
         Collapses(to, ds, a, b), ds[c].line <= a, b <= ds[c].end, a >= b \/ Len(ds[c].specs) <= 1
  PROVE  IsTree(Renumber(ds, to)) /\ Lined(ds, Renumber(ds, to), to)
<1>1. PICK n \in Nat : n = Len(ds)
  BY TreeFacts
<1>2. to \in [LinesOf(ds) -> Nat]
  BY DEF Collapses
<1> DEFINE es == Renumber(ds, to)
           e(k) == Moved(ds[k], to)
<1>3. ASSUME NEW k \in 1..n
      PROVE  /\ e(k) \in DeclTree /\ Same(ds[k], e(k)) /\ e(k).paren = ds[k].paren
             /\ e(k).line = to[ds[k].line] /\ e(k).end = to[ds[k].end]
             /\ \A j \in 1..Len(ds[k].specs) :
                  /\ e(k).specs[j].line = to[ds[k].specs[j].line]
                  /\ e(k).specs[j].end = to[ds[k].specs[j].end]
  <2>1. k \in 1..Len(ds)
    BY <1>1
  <2> QED  BY <1>2, <2>1, MovedIs
<1> HIDE DEF e
<1>4. es \in Seq(DeclTree) /\ Len(es) = n /\ \A k \in 1..n : es[k] = e(k)
  <2>1. es = [k \in 1..n |-> e(k)]
    BY <1>1 DEF Renumber, e
  <2>2. es \in [1..n -> DeclTree]
    BY <1>3, <2>1
  <2>3. \A k \in 1..n : es[k] = e(k)
    BY <2>1
  <2> HIDE DEF es
  <2> QED  BY <2>2, <2>3, FunctionIsSeq
<1>5. \A x \in LinesOf(ds), y \in LinesOf(ds) : x <= y => to[x] <= to[y]
  <2> TAKE x \in LinesOf(ds), y \in LinesOf(ds)
  <2>1. to[x] \in Nat /\ to[y] \in Nat /\ x \in Nat /\ y \in Nat
    BY <1>2, LinesIn
  <2>2. x < y => to[x] <= to[y]
    BY DEF Collapses
  <2> QED  BY <2>1, <2>2
<1>6. ds[c].line \in Nat /\ ds[c].end \in Nat
  BY TreeFacts
<1>7. ASSUME NEW k \in 1..n, NEW l \in 1..n, k < l  PROVE e(k).end < e(l).line
  <2>1. /\ ds[k].end \in LinesOf(ds) /\ ds[l].line \in LinesOf(ds) /\ ds[k].end < ds[l].line
        /\ ds[k].end \in Nat /\ ds[l].line \in Nat /\ ds[k].line \in Nat /\ ds[l].end \in Nat
        /\ ds[k].line <= ds[k].end /\ ds[l].line <= ds[l].end
    BY <1>1, <1>7, LinesIn, TreeFacts DEF IsTree, IsDecl
  <2>2. to[ds[k].end] \in Nat /\ to[ds[l].line] \in Nat /\ to[ds[k].end] <= to[ds[l].line]
    BY <1>2, <2>1 DEF Collapses
  <2>3. to[ds[k].end] # to[ds[l].line]
    <3> SUFFICES ASSUME to[ds[k].end] = to[ds[l].line]  PROVE FALSE
      OBVIOUS
    <3>1. a <= ds[k].end /\ ds[l].line <= b
      BY <2>1 DEF Collapses
    <3>2. ~ (k < c)
      <4>1. k < c => ds[k].end < ds[c].line
        BY <1>1 DEF IsTree
      <4> QED  BY <1>6, <2>1, <3>1, <4>1
    <3>3. ~ (c < l)
      <4>1. c < l => ds[c].end < ds[l].line
        BY <1>1 DEF IsTree
      <4> QED  BY <1>6, <2>1, <3>1, <4>1
    <3> QED  BY <1>1, <1>7, <3>2, <3>3
  <2> QED  BY <1>3, <2>2, <2>3
<1>8. ASSUME NEW k \in 1..n  PROVE IsDecl(e(k))
  <2>1. /\ IsDecl(ds[k]) /\ Len(ds[k].specs) \in Nat
        /\ ds[k].line \in LinesOf(ds) /\ ds[k].end \in LinesOf(ds)
    BY <1>1, LinesIn, TreeFacts
  <2>2. ASSUME NEW j \in 1..Len(ds[k].specs)
        PROVE  /\ ds[k].specs[j].line \in LinesOf(ds) /\ ds[k].specs[j].end \in LinesOf(ds)
               /\ ds[k].specs[j].line \in Nat /\ ds[k].specs[j].end \in Nat
               /\ ds[k].line <= ds[k].specs[j].line
               /\ ds[k].specs[j].line <= ds[k].specs[j].end
               /\ ds[k].specs[j].end <= ds[k].end
    <3>1. LinesOf(ds) \subseteq Nat
      BY <1>1, LinesIn
    <3>2. ds[k].specs[j].line \in LinesOf(ds) /\ ds[k].specs[j].end \in LinesOf(ds)
      BY <1>1, LinesIn
    <3> QED  BY <2>1, <3>1, <3>2 DEF IsDecl
  <2>3. Len(e(k).specs) = Len(ds[k].specs) /\ e(k).tok = ds[k].tok /\ e(k).paren = ds[k].paren
    BY <1>3 DEF Same
  <2>4. e(k).line >= 1 /\ e(k).line <= e(k).end
    <3>1. to[ds[k].line] >= 1
      BY <2>1 DEF Collapses
    <3>2. ds[k].line <= ds[k].end
      BY <2>1 DEF IsDecl
    <3> QED  BY <1>3, <1>5, <2>1, <3>1, <3>2
  <2>5. e(k).tok = "func" => e(k).specs = <<>> /\ ~e(k).paren
    <3>1. e(k).tok = "func" => ds[k].specs = <<>> /\ ~ds[k].paren
      BY <2>1, <2>3 DEF IsDecl
    <3>2. e(k).specs \in Seq(SpecTree)
      BY <1>3, DeclFacts
    <3>3. e(k).tok = "func" => Len(e(k).specs) = 0
      BY <2>3, <3>1, EmptySeq
    <3> QED  BY <2>3, <3>1, <3>2, <3>3, EmptySeq
  <2>6. ASSUME NEW j \in 1..Len(ds[k].specs)
        PROVE  /\ e(k).line <= e(k).specs[j].line
               /\ e(k).specs[j].line <= e(k).specs[j].end
               /\ e(k).specs[j].end <= e(k).end
    BY <1>3, <1>5, <2>1, <2>2
  <2>7. ASSUME NEW j \in 1..Len(ds[k].specs), NEW m \in 1..Len(ds[k].specs), j < m
        PROVE  e(k).specs[j].end < e(k).specs[m].line
    <3> DEFINE x == ds[k].specs[j].end
               y == ds[k].specs[m].line
    <3>1. x < y
      BY <2>1, <2>7 DEF IsDecl
    <3>2. /\ x \in LinesOf(ds) /\ y \in LinesOf(ds) /\ x \in Nat /\ y \in Nat
          /\ x <= ds[k].end /\ ds[k].line <= y /\ ds[k].line <= x /\ y <= ds[k].end
      <4>1. x \in Nat /\ y \in Nat /\ ds[k].specs[j].line \in Nat /\ ds[k].specs[m].end \in Nat
        BY <2>2
      <4>2. ds[k].line \in Nat /\ ds[k].end \in Nat
        BY <1>1, TreeFacts
      <4>3. ds[k].line <= ds[k].specs[j].line /\ ds[k].specs[j].line <= x /\ x <= ds[k].end
        BY <2>2
      <4>4. ds[k].line <= y /\ y <= ds[k].specs[m].end /\ ds[k].specs[m].end <= ds[k].end
        BY <2>2
      <4>5. x \in LinesOf(ds) /\ y \in LinesOf(ds)
        BY <2>2
      <4> HIDE DEF x, y
      <4>6. ds[k].line <= x
        <5>1. PICK u \in Nat : u = ds[k].specs[j].line
          BY <4>1
        <5>2. ds[k].line <= u /\ u <= x
          BY <4>3, <5>1
        <5> QED  BY <4>1, <4>2, <5>2
      <4>7. y <= ds[k].end
        BY <4>1, <4>2, <4>4, SMTT(30)
      <4> QED  BY <4>1, <4>3, <4>4, <4>5, <4>6, <4>7
    <3> HIDE DEF x, y
    <3>3. to[x] \in Nat /\ to[y] \in Nat /\ to[x] <= to[y] /\ (to[x] = to[y] => a <= x /\ y <= b)
      BY <1>2, <3>1, <3>2 DEF Collapses
    <3>4. to[x] # to[y]
      <4> SUFFICES ASSUME to[x] = to[y]  PROVE FALSE
        OBVIOUS
      <4>1. a <= x /\ y <= b
        BY <3>3
      <4>2. ds[k].line \in Nat /\ ds[k].end \in Nat
        BY <1>1, TreeFacts
      <4>3. ~ (k < c)
        <5>1. k < c => ds[k].end < ds[c].line
          BY <1>1 DEF IsTree
        <5> QED  BY <1>6, <3>1, <3>2, <4>1, <4>2, <5>1
      <4>4. ~ (c < k)
        <5>1. c < k => ds[c].end < ds[k].line
          BY <1>1 DEF IsTree
        <5> QED  BY <1>6, <3>1, <3>2, <4>1, <4>2, <5>1
      <4>5. k = c
        BY <1>1, <4>3, <4>4
      <4>6. ~ (a >= b)
        BY <3>1, <3>2, <4>1
      <4>7. Len(ds[k].specs) <= 1
        BY <4>5, <4>6
      <4> QED  BY <2>1, <2>7, <4>7
    <3> QED  BY <1>3, <3>3, <3>4, SMTT(30) DEF x, y
  <2> QED  BY <2>3, <2>4, <2>5, <2>6, <2>7 DEF IsDecl
<1>9. IsTree(es)
  <2> HIDE DEF es
  <2>1. \A k \in 1..n, l \in 1..n : k < l => es[k].end < es[l].line
    BY <1>4, <1>7
  <2>2. \A k \in 1..n : IsDecl(es[k])
    BY <1>4, <1>8
  <2> QED  BY <1>4, <2>1, <2>2 DEF IsTree
<1>10. Lined(ds, es, to)
  <2> HIDE DEF es
  <2> QED  BY <1>1, <1>3, <1>4 DEF Lined
<1> QED  BY <1>9, <1>10

\* es is ds with the lines after from removed, up to the line to.
Removes(map, ds, es, from, to) ==
  /\ Collapses(map, ds, from, to) /\ Lined(ds, es, map)
  /\ from <= to /\ from \in LinesOf(ds) /\ to \in LinesOf(ds) => map[from] = map[to]

LEMMA RemoveLinesKeeps ==
  ASSUME NEW ds, IsTree(ds), NEW c \in 1..Len(ds), NEW from \in Nat, NEW to \in Nat,
         ds[c].line <= from, to <= ds[c].end, Len(ds[c].specs) <= 1
  PROVE  /\ IsTree(removeLines(ds, from, to))
         /\ \E map : Removes(map, ds, removeLines(ds, from, to), from, to)
<1>1. LinesOf(ds) \subseteq Nat /\ \A x \in LinesOf(ds) : x >= 1
  BY LinesIn DEF LinesOf
<1>2. CASE from < to
  <2> DEFINE map == [L \in LinesOf(ds) |->
                       IF L <= from THEN L ELSE IF L <= to THEN from ELSE L - (to - from)]
  <2>1. removeLines(ds, from, to) = Renumber(ds, map)
    BY <1>2 DEF removeLines
  <2>2. from >= 1
    BY TreeFacts DEF IsDecl
  <2>3. ASSUME NEW x \in LinesOf(ds)
        PROVE  /\ x \in Nat /\ x >= 1
               /\ map[x] = IF x <= from THEN x ELSE IF x <= to THEN from ELSE x - (to - from)
    BY <1>1
  <2> HIDE DEF map
  <2>4. ASSUME NEW x \in LinesOf(ds)  PROVE map[x] \in Nat /\ map[x] >= 1
    BY <1>2, <2>2, <2>3
  <2>5. ASSUME NEW x \in LinesOf(ds), NEW y \in LinesOf(ds), x < y
        PROVE  /\ map[x] <= map[y]
               /\ map[x] = map[y] => from <= x /\ y <= to
               /\ y <= from \/ to <= x => map[y] - map[x] >= y - x
    <3>1. x \in Nat /\ y \in Nat /\ x < y
      BY <2>3, <2>5
    <3>2. map[x] = IF x <= from THEN x ELSE IF x <= to THEN from ELSE x - (to - from)
      BY <2>3
    <3>3. map[y] = IF y <= from THEN y ELSE IF y <= to THEN from ELSE y - (to - from)
      BY <2>3
    <3> QED  BY <1>2, <3>1, <3>2, <3>3
  <2>6. Collapses(map, ds, from, to)
    <3>1. map \in [LinesOf(ds) -> Nat]
      <4>1. DOMAIN map = LinesOf(ds) /\ map = [L \in LinesOf(ds) |-> map[L]]
        BY DEF map
      <4> QED  BY <2>4, <4>1
    <3> QED  BY <2>4, <2>5, <3>1 DEF Collapses
  <2>7. from \in LinesOf(ds) /\ to \in LinesOf(ds) => map[from] = map[to]
    BY <1>2, <2>3
  <2>8. IsTree(Renumber(ds, map)) /\ Lined(ds, Renumber(ds, map), map)
    BY <2>6, RenumberKeeps
  <2> QED  BY <2>1, <2>6, <2>7, <2>8 DEF Removes
<1>3. CASE ~ (from < to)
  <2> DEFINE map == [L \in LinesOf(ds) |-> L]
  <2>1. removeLines(ds, from, to) = ds
    BY <1>3 DEF removeLines
  <2>2. Collapses(map, ds, from, to)
    <3>1. map \in [LinesOf(ds) -> Nat]
      BY <1>1
    <3>2. \A x \in LinesOf(ds) : map[x] = x /\ x \in Nat /\ x >= 1
      BY <1>1
    <3> HIDE DEF map
    <3> QED  BY <3>1, <3>2 DEF Collapses
  <2>3. Lined(ds, ds, map)
    <3>1. \A k \in 1..Len(ds) : map[ds[k].line] = ds[k].line /\ map[ds[k].end] = ds[k].end
      BY LinesIn
    <3>2. \A k \in 1..Len(ds) : \A j \in 1..Len(ds[k].specs) :
            /\ map[ds[k].specs[j].line] = ds[k].specs[j].line
            /\ map[ds[k].specs[j].end] = ds[k].specs[j].end
      BY LinesIn
    <3> HIDE DEF map
    <3> QED  BY <3>1, <3>2 DEF Lined, Same
  <2>4. from <= to => from = to
    BY <1>3
  <2>5. Removes(map, ds, ds, from, to)
    <3> HIDE DEF map
    <3> QED  BY <2>2, <2>3, <2>4 DEF Removes
  <2> QED  BY <2>1, <2>5
<1> QED  BY <1>2, <1>3

\* The first spec is on the line of the keyword.
Beside(d) == d.specs # <<>> /\ d.specs[1].line <= d.line

\* Moved lines put it there only if they become one.
LEMMA BesideKept ==
  ASSUME NEW ds, IsTree(ds), NEW c \in 1..Len(ds), NEW to, NEW a \in Nat, NEW b \in Nat, NEW es,
         IsTree(es),
         Collapses(to, ds, a, b), Lined(ds, es, to), ds[c].line <= a, b <= ds[c].end,
         NEW k \in 1..Len(ds)
  PROVE  /\ Beside(ds[k]) => Beside(es[k])
         /\ Beside(es[k]) => Beside(ds[k]) \/ (k = c /\ a <= ds[k].line /\ ds[k].specs[1].line <= b)
<1>1. /\ Same(ds[k], es[k]) /\ es[k].line = to[ds[k].line]
      /\ \A j \in 1..Len(ds[k].specs) : es[k].specs[j].line = to[ds[k].specs[j].line]
  BY DEF Lined
<1>2. /\ ds[k].specs \in Seq(SpecTree) /\ Len(ds[k].specs) \in Nat
      /\ Len(es) = Len(ds)
  BY TreeFacts DEF Lined
<1>3. es[k].specs \in Seq(SpecTree) /\ Len(es[k].specs) = Len(ds[k].specs)
  BY <1>1, <1>2, TreeFacts DEF Same
<1>4. CASE ds[k].specs = <<>>
  <2>1. es[k].specs = <<>>
    BY <1>3, <1>4, EmptySeq
  <2> QED  BY <1>4, <2>1 DEF Beside
<1>5. CASE ds[k].specs # <<>>
  <2>1. 1 \in 1..Len(ds[k].specs)
    BY <1>2, <1>5, EmptySeq
  <2>2. es[k].specs # <<>>
    BY <1>3, <1>5, <2>1, EmptySeq
  <2> DEFINE x == ds[k].line
             y == ds[k].specs[1].line
  <2>3. /\ x \in LinesOf(ds) /\ y \in LinesOf(ds) /\ x \in Nat /\ y \in Nat
        /\ y <= ds[k].end /\ ds[k].end \in Nat
    <3>1. ds[k].line \in LinesOf(ds) /\ ds[k].specs[1].line \in LinesOf(ds) /\ LinesOf(ds) \subseteq Nat
      BY <2>1, LinesIn
    <3>2. ds[k].specs[1].line <= ds[k].specs[1].end /\ ds[k].specs[1].end <= ds[k].end
      BY <2>1, TreeFacts DEF IsDecl
    <3>3. ds[k].specs[1].end \in Nat /\ ds[k].end \in Nat /\ ds[k].specs[1].line \in Nat
      BY <2>1, TreeFacts, DeclFacts
    <3> QED  BY <3>1, <3>2, <3>3
  <2>4. to[x] \in Nat /\ to[y] \in Nat
    BY <2>3 DEF Collapses
  <2>5. (Beside(ds[k]) <=> y <= x) /\ (Beside(es[k]) <=> to[y] <= to[x])
    BY <1>1, <1>5, <2>1, <2>2 DEF Beside
  <2> HIDE DEF x, y
  <2>6. y < x => to[y] <= to[x]
    BY <2>3 DEF Collapses
  <2>7. x < y => to[x] <= to[y] /\ (to[x] = to[y] => a <= x /\ y <= b)
    BY <2>3 DEF Collapses
  <2>8. ASSUME x < y, a <= x, y <= b  PROVE k = c
    <3>1. ds[c].line \in Nat /\ ds[c].end \in Nat /\ Len(ds) \in Nat
      BY TreeFacts
    <3>2. ~ (k < c)
      <4>1. k < c => ds[k].end < ds[c].line
        BY DEF IsTree
      <4> QED  BY <2>3, <2>8, <3>1, <4>1
    <3>3. ~ (c < k)
      <4>1. c < k => ds[c].end < ds[k].line
        BY DEF IsTree
      <4> QED  BY <2>3, <2>8, <3>1, <4>1 DEF x
    <3> QED  BY <3>1, <3>2, <3>3
  <2>9. y <= x => to[y] <= to[x]
    BY <2>3, <2>4, <2>6
  <2>10. to[y] <= to[x] => y <= x \/ (k = c /\ a <= x /\ y <= b)
    BY <2>3, <2>4, <2>7, <2>8
  <2> QED  BY <2>5, <2>9, <2>10 DEF x, y
<1> QED  BY <1>4, <1>5

\* es is ds with one more line after a line.
Spread(ds, at, es) ==
  /\ IsTree(es)
  /\ Lined(ds, es, [L \in LinesOf(ds) |-> IF L > at THEN L + 1 ELSE L])
  /\ \A k \in 1..Len(ds) : Beside(es[k]) <=> Beside(ds[k])

LEMMA AddNewlineKeeps ==
  ASSUME NEW ds, IsTree(ds), Len(ds) > 0, NEW at \in Nat
  PROVE  Spread(ds, at, addNewline(ds, at))
<1> DEFINE map == [L \in LinesOf(ds) |-> IF L > at THEN L + 1 ELSE L]
<1>1. 1 \in 1..Len(ds)
  BY SeqFacts DEF IsTree
<1>2. LinesOf(ds) \subseteq Nat /\ \A x \in LinesOf(ds) : x >= 1
  BY <1>1, LinesIn DEF LinesOf
<1>3. \A x \in LinesOf(ds) : x \in Nat /\ x >= 1 /\ map[x] = IF x > at THEN x + 1 ELSE x
  BY <1>2
<1>4. map \in [LinesOf(ds) -> Nat]
  BY <1>2
<1>5. addNewline(ds, at) = Renumber(ds, map)
  BY DEF addNewline
<1> HIDE DEF map
<1> DEFINE a == ds[1].end
           b == ds[1].line
<1>6. a \in Nat /\ b \in Nat /\ ds[1].line <= a /\ b <= ds[1].end /\ a >= b
  BY <1>1, TreeFacts DEF IsDecl
<1>7. Collapses(map, ds, a, b)
  <2>1. \A x \in LinesOf(ds) : map[x] >= 1
    BY <1>3
  <2>2. ASSUME NEW x \in LinesOf(ds), NEW y \in LinesOf(ds), x < y
        PROVE  map[x] < map[y] /\ map[y] - map[x] >= y - x
    <3>1. x \in Nat /\ y \in Nat /\ x < y
      BY <1>3, <2>2
    <3>2. (map[x] = IF x > at THEN x + 1 ELSE x) /\ (map[y] = IF y > at THEN y + 1 ELSE y)
      BY <1>3
    <3> QED  BY <3>1, <3>2
  <2>3. \A x \in LinesOf(ds) : map[x] \in Nat
    BY <1>4
  <2> HIDE DEF a, b
  <2>4. \A x \in LinesOf(ds), y \in LinesOf(ds) :
          x < y => /\ map[x] <= map[y]
                   /\ map[x] = map[y] => a <= x /\ y <= b
                   /\ y <= a \/ b <= x => map[y] - map[x] >= y - x
    <3> TAKE x \in LinesOf(ds), y \in LinesOf(ds)
    <3>1. map[x] \in Nat /\ map[y] \in Nat
      BY <2>3
    <3>2. x < y => map[x] < map[y] /\ map[y] - map[x] >= y - x
      BY <2>2
    <3> QED  BY <3>1, <3>2
  <2> QED  BY <1>4, <2>1, <2>4 DEF Collapses
<1> HIDE DEF a, b
<1>8. ds[1].line <= a /\ b <= ds[1].end /\ (a >= b \/ Len(ds[1].specs) <= 1)
  BY <1>6
<1> DEFINE es == addNewline(ds, at)
<1>9. IsTree(es) /\ Lined(ds, es, map)
  BY <1>1, <1>5, <1>6, <1>7, <1>8, RenumberKeeps
<1> HIDE DEF es
<1>10. ASSUME NEW k \in 1..Len(ds)  PROVE Beside(es[k]) <=> Beside(ds[k])
  <2>1. Beside(ds[k]) => Beside(es[k])
    BY <1>1, <1>6, <1>7, <1>9, BesideKept
  <2>2. Beside(es[k]) => Beside(ds[k]) \/ (k = 1 /\ a <= ds[k].line /\ ds[k].specs[1].line <= b)
    BY <1>1, <1>6, <1>7, <1>9, BesideKept
  <2>3. ASSUME Beside(es[k]), k = 1, ds[k].specs[1].line <= b  PROVE Beside(ds[k])
    <3>1. Same(ds[k], es[k]) /\ Len(ds[k].specs) \in Nat /\ ds[k].specs \in Seq(SpecTree)
      BY <1>9, TreeFacts DEF Lined
    <3>2. es[k].specs # <<>> /\ es[k].specs \in Seq(SpecTree)
      BY <1>9, <2>3, TreeFacts DEF Beside, Lined
    <3>3. Len(ds[k].specs) # 0
      BY <3>1, <3>2, EmptySeq DEF Same
    <3>4. Len(<<>>) = 0
      OBVIOUS
    <3>5. ds[k].specs # <<>>
      BY <3>3, <3>4
    <3> QED  BY <2>3, <3>5 DEF Beside, b
  <2> QED  BY <2>1, <2>2, <2>3
<1> QED  BY <1>9, <1>10 DEF map, es, Spread

\* Lines that are renumbered twice.
LEMMA CollapsesTwice ==
  ASSUME NEW ds, IsTree(ds), NEW k \in 1..Len(ds), NEW es, IsTree(es), Len(es) = Len(ds),
         NEW s \in Nat, NEW e \in Nat, ds[k].line <= s, s <= e, e <= ds[k].end,
         NEW f, Collapses(f, ds, ds[k].line, s), es[Len(ds)].end = f[ds[Len(ds)].end],
         NEW g, Collapses(g, es, f[e], f[ds[k].end])
  PROVE  /\ \A x \in LinesOf(ds) : f[x] \in LinesOf(es)
         /\ Collapses([x \in LinesOf(ds) |-> g[f[x]]], ds, ds[k].line, ds[k].end)
<1> DEFINE a == ds[k].line
           b == ds[k].end
           A == LinesOf(ds)
           to == [x \in A |-> g[f[x]]]
<1>1. PICK n \in Nat : n = Len(ds) /\ n >= 1 /\ n \in 1..n
  BY SeqFacts DEF IsTree
<1>2. a \in A /\ b \in A /\ A \subseteq Nat /\ a \in Nat /\ b \in Nat
  BY LinesIn
<1>3. ds[n].end \in A /\ \A x \in A : x <= ds[n].end /\ x \in Nat /\ x >= 1
  <2>1. ds[n].end \in A
    BY <1>1, LinesIn
  <2>2. A = 1..ds[n].end
    BY <1>1 DEF LinesOf
  <2> HIDE DEF A
  <2> QED  BY <1>2, <2>1, <2>2
<1>4. s \in A /\ e \in A
  <2>1. A = 1..ds[n].end /\ ds[n].end \in Nat
    BY <1>1, <1>2, <1>3 DEF LinesOf
  <2>2. a >= 1 /\ b <= ds[n].end /\ a <= s /\ s <= e /\ e <= b
    BY <1>2, <1>3
  <2> HIDE DEF A, a, b
  <2> QED  BY <1>2, <2>1, <2>2
<1>5. /\ \A x \in A : f[x] \in Nat /\ f[x] >= 1
      /\ \A x \in A, y \in A :
           x < y => /\ f[x] <= f[y]
                    /\ f[x] = f[y] => a <= x /\ y <= s
                    /\ y <= a \/ s <= x => f[y] - f[x] >= y - x
  BY DEF Collapses
<1>6. \A x \in A : f[x] \in LinesOf(es)
  <2>1. es[n].end = f[ds[n].end] /\ LinesOf(es) = 1..es[n].end
    BY <1>1 DEF LinesOf
  <2>2. TAKE x \in A
  <2>3. f[x] \in Nat /\ f[x] >= 1 /\ f[ds[n].end] \in Nat
    BY <1>3, <1>5
  <2>4. f[x] <= f[ds[n].end]
    <3>1. x < ds[n].end \/ x = ds[n].end
      BY <1>2, <1>3
    <3> QED  BY <1>3, <1>5, <2>3, <3>1
  <2> QED  BY <2>1, <2>3, <2>4
<1>7. /\ \A x \in LinesOf(es) : g[x] \in Nat /\ g[x] >= 1
      /\ \A x \in LinesOf(es), y \in LinesOf(es) :
           x < y => /\ g[x] <= g[y]
                    /\ g[x] = g[y] => f[e] <= x /\ y <= f[b]
                    /\ y <= f[e] \/ f[b] <= x => g[y] - g[x] >= y - x
  BY DEF Collapses
<1>8. to \in [A -> Nat] /\ \A x \in A : to[x] = g[f[x]] /\ to[x] \in Nat /\ to[x] >= 1
  BY <1>6, <1>7
<1> HIDE DEF to
<1>9. ASSUME NEW x \in A, NEW y \in A, x < y
      PROVE  /\ to[x] <= to[y]
             /\ to[x] = to[y] => a <= x /\ y <= b
             /\ y <= a \/ b <= x => to[y] - to[x] >= y - x
  <2>1. /\ x \in Nat /\ y \in Nat /\ f[x] \in Nat /\ f[y] \in Nat /\ f[e] \in Nat /\ f[b] \in Nat
        /\ to[x] \in Nat /\ to[y] \in Nat /\ f[a] \in Nat
    BY <1>2, <1>4, <1>5, <1>8
  <2>2. /\ f[x] <= f[y]
        /\ f[x] = f[y] => a <= x /\ y <= s
        /\ y <= a \/ s <= x => f[y] - f[x] >= y - x
    BY <1>5, <1>9
  <2>3. f[x] < f[y] => /\ to[x] <= to[y]
                       /\ to[x] = to[y] => f[e] <= f[x] /\ f[y] <= f[b]
                       /\ f[y] <= f[e] \/ f[b] <= f[x] => to[y] - to[x] >= f[y] - f[x]
    BY <1>6, <1>7, <1>8
  <2>4. f[x] = f[y] => to[x] = to[y]
    BY <1>8
  <2>5. a <= s /\ s <= e /\ e <= b
    OBVIOUS
  <2>6. /\ x < e => f[x] <= f[e] /\ (f[x] = f[e] => a <= x)
        /\ y > b => f[b] <= f[y] /\ (f[b] = f[y] => y <= s)
        /\ y < e => f[y] <= f[e]
        /\ b < x => f[b] <= f[x]
    BY <1>2, <1>4, <1>5
  <2>7. x = e => f[x] = f[e]
    OBVIOUS
  <2>8. y = e => f[y] = f[e]
    OBVIOUS
  <2>9. x = b => f[x] = f[b]
    OBVIOUS
  <2> HIDE DEF a, b, A
  <2>10. to[x] <= to[y]
    BY <2>1, <2>2, <2>3, <2>4
  <2>11. to[x] = to[y] => a <= x /\ y <= b
    <3>1. CASE f[x] = f[y]
      BY <1>2, <2>1, <2>2, <2>5, <3>1
    <3>2. CASE f[x] < f[y] /\ to[x] = to[y]
      <4>1. f[e] <= f[x] /\ f[y] <= f[b]
        BY <2>3, <3>2
      <4>2. a <= x
        BY <1>2, <2>1, <2>5, <2>6, <4>1, SMTT(30)
      <4>3. y <= b
        BY <1>2, <2>1, <2>5, <2>6, <4>1
      <4> QED  BY <4>2, <4>3
    <3> QED  BY <2>1, <2>2, <3>1, <3>2
  <2>12. y <= a \/ b <= x => to[y] - to[x] >= y - x
    <3>1. CASE y <= a
      <4>1. f[y] - f[x] >= y - x /\ f[x] < f[y]
        BY <1>9, <2>1, <2>2, <3>1
      <4>2. f[y] <= f[e]
        BY <1>2, <2>1, <2>5, <2>6, <2>8, <3>1
      <4>3. to[y] - to[x] >= f[y] - f[x]
        BY ONLY <2>3, <4>1, <4>2
      <4> QED  BY ONLY <2>1, <4>1, <4>3
    <3>2. CASE b <= x
      <4>1. f[y] - f[x] >= y - x /\ f[x] < f[y]
        BY <1>2, <1>9, <2>1, <2>2, <2>5, <3>2
      <4>2. f[b] <= f[x]
        BY <1>2, <2>1, <2>6, <2>9, <3>2
      <4>3. to[y] - to[x] >= f[y] - f[x]
        BY ONLY <2>3, <4>1, <4>2
      <4> QED  BY ONLY <2>1, <4>1, <4>3
    <3> QED  BY <3>1, <3>2
  <2> QED  BY <2>10, <2>11, <2>12
<1>10. Collapses(to, ds, a, b)
  BY <1>8, <1>9 DEF Collapses
<1> QED  BY <1>6, <1>10 DEF to

\* What removeParens takes the parentheses of.
Wrapped(d) == d.tok = "var" /\ Len(d.specs) = 1 /\ d.paren /\ d.doc = "none"

\* A declaration without parentheses, or with its keyword on the line of its
\* only spec, is no less one.
LEMMA OneChanged ==
  ASSUME NEW ds, IsTree(ds), NEW k \in 1..Len(ds), Len(ds[k].specs) = 1,
         NEW d \in DeclTree, d.tok = ds[k].tok, d.doc = ds[k].doc, d.wide = ds[k].wide,
         d.tall = ds[k].tall, d.paren => ds[k].paren, d.specs = ds[k].specs, d.end = ds[k].end,
         d.line \in {ds[k].line, ds[k].specs[1].line},
         NEW es \in Seq(DeclTree), Len(es) = Len(ds),
         \A l \in 1..Len(ds) : es[l] = IF l = k THEN d ELSE ds[l]
  PROVE  IsTree(es) /\ \A l \in 1..Len(ds) : Same(ds[l], es[l])
<1>1. PICK n \in Nat : n = Len(ds)
  BY TreeFacts
<1>2. /\ ds \in Seq(DeclTree) /\ k \in 1..n /\ ds[k] \in DeclTree /\ 1 \in 1..Len(ds[k].specs)
      /\ IsDecl(ds[k])
  BY <1>1, TreeFacts DEF IsTree
<1>3. /\ ds[k].specs[1].line \in Nat /\ ds[k].specs[1].end \in Nat /\ ds[k].line \in Nat /\ ds[k].end \in Nat
      /\ ds[k].line >= 1 /\ ds[k].line <= ds[k].specs[1].line
      /\ ds[k].specs[1].line <= ds[k].specs[1].end /\ ds[k].specs[1].end <= ds[k].end
  BY <1>2, DeclFacts DEF IsDecl
<1>4. /\ es \in Seq(DeclTree) /\ Len(es) = n
      /\ \A l \in 1..n : es[l] = IF l = k THEN d ELSE ds[l]
  BY <1>1
<1>5. d.line \in Nat /\ ds[k].line <= d.line /\ d.line <= ds[k].specs[1].line
  BY <1>3
<1>6. IsDecl(d)
  <2>1. d.line >= 1 /\ d.line <= d.end
    BY <1>3, <1>5
  <2>2. d.tok = "func" => d.specs = <<>> /\ ~d.paren
    BY <1>2, TreeFacts DEF IsDecl
  <2>3. Len(d.specs) = 1 /\ d.specs = ds[k].specs
    OBVIOUS
  <2>4. \A j \in 1..1, m \in 1..1 : j = 1 /\ m = 1 /\ ~ (j < m)
    OBVIOUS
  <2>5. d.line <= d.specs[1].line /\ d.specs[1].line <= d.specs[1].end /\ d.specs[1].end <= d.end
    BY <1>3, <1>5
  <2> QED  BY <2>1, <2>2, <2>3, <2>4, <2>5 DEF IsDecl
<1>7. \A l \in 1..n : IsDecl(es[l])
  BY <1>1, <1>4, <1>6 DEF IsTree
<1>8. ASSUME NEW l \in 1..n, NEW m \in 1..n, l < m  PROVE es[l].end < es[m].line
  <2>1. ds[l].end < ds[m].line /\ ds[l].end \in Nat /\ ds[m].line \in Nat
    BY <1>1, <1>8, TreeFacts DEF IsTree
  <2>2. es[l].end = ds[l].end
    BY <1>4
  <2>3. es[m].line \in Nat /\ ds[m].line <= es[m].line
    BY <1>4, <1>5, <2>1
  <2> QED  BY <2>1, <2>2, <2>3
<1>9. IsTree(es)
  BY <1>4, <1>7, <1>8 DEF IsTree
<1>10. \A l \in 1..n : Same(ds[l], es[l])
  BY <1>4 DEF Same
<1> QED  BY <1>1, <1>2, <1>4, <1>9, <1>10

LEMMA SameTrans ==
  ASSUME NEW c, NEW d, NEW e, Same(c, d), Same(d, e)
  PROVE  Same(c, e)
  BY DEF Same

\* es is ds with its lines moved, and maybe the keyword of one declaration to
\* the line of its only spec.
Follows(ds, k, es, to) ==
  \A l \in 1..Len(ds) :
    /\ es[l].end = to[ds[l].end]
    /\ \A j \in 1..Len(ds[l].specs) :
         es[l].specs[j].line = to[ds[l].specs[j].line] /\ es[l].specs[j].end = to[ds[l].specs[j].end]
    /\ \/ es[l].line = to[ds[l].line]
       \/ l = k /\ es[l].line = to[ds[k].specs[1].line]

LEMMA FollowsTwice ==
  ASSUME NEW ds, IsTree(ds), NEW k \in 1..Len(ds), Len(ds[k].specs) = 1, NEW up, NEW es,
         Len(up) = Len(ds), \A l \in 1..Len(ds) : Same(ds[l], up[l]),
         NEW f, NEW g, Follows(ds, k, up, f), Lined(up, es, g)
  PROVE  Follows(ds, k, es, [x \in LinesOf(ds) |-> g[f[x]]])
<1> DEFINE to == [x \in LinesOf(ds) |-> g[f[x]]]
<1>1. \A x \in LinesOf(ds) : to[x] = g[f[x]]
  OBVIOUS
<1> HIDE DEF to
<1>2. ASSUME NEW l \in 1..Len(ds)
      PROVE  /\ es[l].end = to[ds[l].end]
             /\ \A j \in 1..Len(ds[l].specs) :
                  es[l].specs[j].line = to[ds[l].specs[j].line] /\ es[l].specs[j].end = to[ds[l].specs[j].end]
             /\ \/ es[l].line = to[ds[l].line]
                \/ l = k /\ es[l].line = to[ds[k].specs[1].line]
  <2>1. /\ ds[l].line \in LinesOf(ds) /\ ds[l].end \in LinesOf(ds)
        /\ \A j \in 1..Len(ds[l].specs) :
             ds[l].specs[j].line \in LinesOf(ds) /\ ds[l].specs[j].end \in LinesOf(ds)
    BY LinesIn
  <2>2. ds[k].specs[1].line \in LinesOf(ds)
    <3>1. 1 \in 1..Len(ds[k].specs)
      OBVIOUS
    <3> QED  BY <3>1, LinesIn
  <2>3. /\ up[l].end = f[ds[l].end]
        /\ \A j \in 1..Len(ds[l].specs) :
             up[l].specs[j].line = f[ds[l].specs[j].line] /\ up[l].specs[j].end = f[ds[l].specs[j].end]
        /\ \/ up[l].line = f[ds[l].line]
           \/ l = k /\ up[l].line = f[ds[k].specs[1].line]
    BY DEF Follows
  <2>4. /\ es[l].line = g[up[l].line] /\ es[l].end = g[up[l].end]
        /\ \A j \in 1..Len(up[l].specs) :
             es[l].specs[j].line = g[up[l].specs[j].line] /\ es[l].specs[j].end = g[up[l].specs[j].end]
    BY DEF Lined
  <2>5. Len(up[l].specs) = Len(ds[l].specs)
    BY DEF Same
  <2>6. es[l].end = to[ds[l].end]
    BY <1>1, <2>1, <2>3, <2>4
  <2>7. ASSUME NEW j \in 1..Len(ds[l].specs)
        PROVE  es[l].specs[j].line = to[ds[l].specs[j].line] /\ es[l].specs[j].end = to[ds[l].specs[j].end]
    <3>1. ds[l].specs[j].line \in LinesOf(ds) /\ ds[l].specs[j].end \in LinesOf(ds)
      BY <2>1
    <3>2. to[ds[l].specs[j].line] = g[f[ds[l].specs[j].line]] /\ to[ds[l].specs[j].end] = g[f[ds[l].specs[j].end]]
      BY <1>1, <3>1
    <3>3. up[l].specs[j].line = f[ds[l].specs[j].line] /\ up[l].specs[j].end = f[ds[l].specs[j].end]
      BY <2>3
    <3>4. j \in 1..Len(up[l].specs)
      BY <2>5
    <3>5. es[l].specs[j].line = g[up[l].specs[j].line] /\ es[l].specs[j].end = g[up[l].specs[j].end]
      BY <2>4, <3>4
    <3> QED  BY <3>2, <3>3, <3>5
  <2>8. es[l].line = to[ds[l].line] \/ (l = k /\ es[l].line = to[ds[k].specs[1].line])
    BY <1>1, <2>1, <2>2, <2>3, <2>4
  <2> QED  BY <2>6, <2>7, <2>8
<1> QED  BY <1>2 DEF Follows, to

\* Nothing but lines and parentheses is changed, and the first spec comes to be
\* on the line of the keyword only if the parentheses are removed.
LEMMA RemoveParensKeeps ==
  ASSUME NEW ds, IsTree(ds), NEW k \in 1..Len(ds)
  PROVE  LET es == removeParens(ds, k)
         IN  /\ IsTree(es) /\ Len(es) = Len(ds)
             /\ \A l \in 1..Len(ds) :
                  /\ Same(ds[l], es[l])
                  /\ es[l].paren = (ds[l].paren /\ ~ (l = k /\ Wrapped(ds[l])))
                  /\ Beside(es[l]) <=> \/ Beside(ds[l])
                                       \/ l = k /\ Wrapped(ds[l])
             /\ ~ Wrapped(ds[k]) => es = ds
             /\ Wrapped(ds[k]) =>
                  /\ \E to : Collapses(to, ds, ds[k].line, ds[k].end) /\ Follows(ds, k, es, to)
                  /\ es[k].line = es[k].specs[1].line /\ es[k].end = es[k].specs[1].end
<1>1. PICK n \in Nat : n = Len(ds)
  BY TreeFacts
<1> DEFINE es == removeParens(ds, k)
<1>2. CASE ~ Wrapped(ds[k])
  <2>1. es = ds
    BY <1>2 DEF removeParens, Wrapped
  <2>2. \A l \in 1..n : Same(ds[l], ds[l]) /\ ds[l].paren \in BOOLEAN
    BY <1>1, TreeFacts, DeclFacts DEF Same
  <2> QED  BY <1>1, <1>2, <2>1, <2>2
<1>3. CASE Wrapped(ds[k])
  <2> DEFINE s == ds[k].specs[1]
             up == IF s.doc # "none"
                   THEN [ds EXCEPT ![k].line = s.line]
                   ELSE removeLines(ds, ds[k].line, s.line)
             lo == removeLines(up, up[k].specs[1].end, up[k].end)
  <2>1. es = [lo EXCEPT ![k].paren = FALSE]
    BY <1>3 DEF removeParens, Wrapped
  <2>2. /\ Len(ds[k].specs) = 1 /\ 1 \in 1..Len(ds[k].specs) /\ k \in 1..n /\ IsDecl(ds[k])
        /\ s.line \in Nat /\ s.end \in Nat /\ ds[k].line \in Nat /\ ds[k].end \in Nat
        /\ ds[k].line <= s.line /\ s.line <= s.end /\ s.end <= ds[k].end
        /\ ds[k].paren
    <3>1. Len(ds[k].specs) = 1 /\ 1 \in 1..Len(ds[k].specs) /\ ds[k].paren
      BY <1>3 DEF Wrapped
    <3> QED  BY <1>1, <3>1, TreeFacts, DeclFacts DEF IsDecl
  <2> HIDE DEF s, up, lo
  <2>3. /\ IsTree(up) /\ Len(up) = n
        /\ \A l \in 1..n :
             /\ Same(ds[l], up[l]) /\ up[l].paren = ds[l].paren
             /\ Beside(up[l]) <=> Beside(ds[l]) \/ l = k
        /\ up[k].line = up[k].specs[1].line
        /\ \E f : Collapses(f, ds, ds[k].line, s.line) /\ Follows(ds, k, up, f)
    <3>1. CASE s.doc # "none"
      <4>1. up = [ds EXCEPT ![k].line = ds[k].specs[1].line]
        BY <3>1 DEF up, s
      <4> DEFINE d == [ds[k] EXCEPT !.line = ds[k].specs[1].line]
      <4>2. ds \in [1..n -> DeclTree] /\ ds[k] \in DeclTree /\ ds[k].specs[1].line \in Nat
        BY <1>1, <2>2, LenProperties DEF IsTree, s
      <4>3. /\ d \in DeclTree /\ d.tok = ds[k].tok /\ d.doc = ds[k].doc /\ d.wide = ds[k].wide
            /\ d.tall = ds[k].tall /\ d.paren = ds[k].paren /\ d.specs = ds[k].specs
            /\ d.end = ds[k].end /\ d.line = ds[k].specs[1].line
        BY <4>2 DEF DeclTree
      <4>5. up \in [1..n -> DeclTree] /\ \A l \in 1..n : up[l] = IF l = k THEN d ELSE ds[l]
        BY <2>2, <4>1, <4>2, <4>3
      <4> HIDE DEF d
      <4>6. up \in Seq(DeclTree) /\ Len(up) = n
        BY <4>5, FunctionIsSeq
      <4>7. IsTree(up) /\ \A l \in 1..n : Same(ds[l], up[l])
        <5>1. /\ k \in 1..Len(ds) /\ (d.paren => ds[k].paren)
              /\ d.line \in {ds[k].line, ds[k].specs[1].line}
              /\ Len(up) = Len(ds) /\ \A l \in 1..Len(ds) : up[l] = IF l = k THEN d ELSE ds[l]
          BY <1>1, <2>2, <4>3, <4>5, <4>6
        <5> QED  BY <1>1, <2>2, <4>3, <4>6, <5>1, OneChanged
      <4>8. ds[k].specs # <<>>
        <5>1. Len(ds[k].specs) = 1
          BY <2>2
        <5>2. Len(<<>>) = 0
          OBVIOUS
        <5> QED  BY <5>1, <5>2
      <4>9. up[k].line = ds[k].specs[1].line /\ up[k].specs = ds[k].specs
        BY <2>2, <4>3, <4>5
      <4>10. Beside(up[k])
        BY <2>2, <4>8, <4>9 DEF Beside, s
      <4> DEFINE f == [x \in LinesOf(ds) |-> x]
      <4>11. LinesOf(ds) \subseteq Nat /\ \A x \in LinesOf(ds) : x >= 1
        BY <2>2, LinesIn DEF LinesOf
      <4>12. f \in [LinesOf(ds) -> Nat] /\ \A x \in LinesOf(ds) : f[x] = x /\ x \in Nat /\ x >= 1
        BY <4>11
      <4> HIDE DEF f
      <4>13. Collapses(f, ds, ds[k].line, s.line)
        BY <4>12 DEF Collapses
      <4>14. ASSUME NEW l \in 1..Len(ds)
             PROVE  /\ up[l].end = f[ds[l].end]
                    /\ \A j \in 1..Len(ds[l].specs) :
                         up[l].specs[j].line = f[ds[l].specs[j].line] /\ up[l].specs[j].end = f[ds[l].specs[j].end]
                    /\ \/ up[l].line = f[ds[l].line]
                       \/ l = k /\ up[l].line = f[ds[k].specs[1].line]
        <5>1. /\ f[ds[l].line] = ds[l].line /\ f[ds[l].end] = ds[l].end
              /\ \A j \in 1..Len(ds[l].specs) :
                   f[ds[l].specs[j].line] = ds[l].specs[j].line /\ f[ds[l].specs[j].end] = ds[l].specs[j].end
          BY <4>12, LinesIn
        <5>2. f[ds[k].specs[1].line] = ds[k].specs[1].line
          BY <2>2, <4>12, LinesIn
        <5>3. up[l].specs = ds[l].specs /\ up[l].end = ds[l].end
          BY <1>1, <4>3, <4>5
        <5>4. l # k => up[l].line = ds[l].line
          BY <1>1, <4>5
        <5> QED  BY <4>9, <5>1, <5>2, <5>3, <5>4
      <4>15. Follows(ds, k, up, f)
        BY <4>14 DEF Follows
      <4>16. up[k].line = up[k].specs[1].line
        BY <4>9
      <4> QED  BY <1>1, <2>2, <3>1, <4>3, <4>5, <4>6, <4>7, <4>10, <4>13, <4>15, <4>16
    <3>2. CASE s.doc = "none"
      <4>1. up = removeLines(ds, ds[k].line, s.line)
        BY <3>2 DEF up
      <4>2. ds[k].line <= ds[k].line /\ s.line <= ds[k].end /\ Len(ds[k].specs) <= 1
        BY <2>2
      <4>3. IsTree(up) /\ \E map : Removes(map, ds, up, ds[k].line, s.line)
        BY <2>2, <4>1, <4>2, RemoveLinesKeeps
      <4>4. PICK map : /\ Collapses(map, ds, ds[k].line, s.line) /\ Lined(ds, up, map)
                       /\ ds[k].line <= s.line /\ ds[k].line \in LinesOf(ds) /\ s.line \in LinesOf(ds) =>
                            map[ds[k].line] = map[s.line]
        BY <4>3 DEF Removes
      <4>5. up[k].line = up[k].specs[1].line
        <5>1. ds[k].line \in LinesOf(ds) /\ s.line \in LinesOf(ds)
          BY <2>2, LinesIn DEF s
        <5>2. up[k].line = map[ds[k].line] /\ up[k].specs[1].line = map[s.line]
          BY <2>2, <4>4 DEF Lined, s
        <5> QED  BY <2>2, <4>4, <5>1, <5>2
      <4>6. Beside(up[k])
        <5>1. Same(ds[k], up[k]) /\ k \in 1..Len(up)
          BY <1>1, <2>2, <4>4 DEF Lined
        <5>2. Len(up[k].specs) = 1 /\ Len(<<>>) = 0
          BY <2>2, <5>1 DEF Same
        <5>3. up[k].line \in Nat
          BY <4>3, <5>1, TreeFacts
        <5>4. up[k].specs # <<>>
          BY <5>2
        <5> QED  BY <4>5, <5>3, <5>4 DEF Beside
      <4>7. ASSUME NEW l \in 1..n, l # k  PROVE Beside(up[l]) <=> Beside(ds[l])
        <5>1. l \in 1..Len(ds)
          BY <1>1
        <5> DEFINE a == ds[k].line
                   b == s.line
        <5>2. /\ a \in Nat /\ b \in Nat /\ ds[k].line <= a /\ b <= ds[k].end
              /\ Collapses(map, ds, a, b) /\ Lined(ds, up, map) /\ IsTree(up)
          BY <2>2, <4>2, <4>3, <4>4
        <5> HIDE DEF a, b
        <5>3. /\ Beside(ds[l]) => Beside(up[l])
              /\ Beside(up[l]) => Beside(ds[l]) \/ (l = k /\ a <= ds[l].line /\ ds[l].specs[1].line <= b)
          BY <5>1, <5>2, BesideKept
        <5> QED  BY <4>7, <5>3
      <4>8. Follows(ds, k, up, map)
        BY <4>4 DEF Lined, Follows
      <4> QED  BY <1>1, <4>3, <4>4, <4>5, <4>6, <4>7, <4>8 DEF Lined
    <3>3. s.doc = "none" \/ s.doc # "none"
      OBVIOUS
    <3> QED  BY <3>1, <3>2, <3>3
  <2>4. /\ k \in 1..Len(up) /\ Len(up[k].specs) = 1 /\ 1 \in 1..Len(up[k].specs)
        /\ up[k].specs[1].end \in Nat /\ up[k].end \in Nat /\ up[k].line \in Nat
        /\ up[k].specs[1].line \in Nat
        /\ up[k].line <= up[k].specs[1].end /\ up[k].specs[1].end <= up[k].end
        /\ up[k].specs[1].line <= up[k].specs[1].end /\ up[k].line <= up[k].specs[1].line
    <3>1. k \in 1..Len(up) /\ Len(up[k].specs) = 1 /\ 1 \in 1..Len(up[k].specs)
      BY <2>2, <2>3 DEF Same
    <3>2. IsDecl(up[k]) /\ up[k] \in DeclTree
      BY <2>3, <3>1, TreeFacts
    <3>3. /\ up[k].specs[1].end \in Nat /\ up[k].end \in Nat /\ up[k].line \in Nat
          /\ up[k].specs[1].line \in Nat
      BY <3>1, <3>2, DeclFacts
    <3>4. /\ up[k].line <= up[k].specs[1].line /\ up[k].specs[1].line <= up[k].specs[1].end
          /\ up[k].specs[1].end <= up[k].end
      BY <3>1, <3>2 DEF IsDecl
    <3>5. up[k].line <= up[k].specs[1].end
      BY <3>3, <3>4
    <3> QED  BY <3>1, <3>3, <3>4, <3>5
  <2>5. /\ IsTree(lo) /\ Len(lo) = n
        /\ \A l \in 1..n :
             /\ Same(up[l], lo[l]) /\ lo[l].paren = up[l].paren
             /\ Beside(lo[l]) <=> Beside(up[l])
        /\ lo[k].line = lo[k].specs[1].line /\ lo[k].end = lo[k].specs[1].end
        /\ \E g : Collapses(g, up, up[k].specs[1].end, up[k].end) /\ Lined(up, lo, g)
    <3> DEFINE a == up[k].specs[1].end
               b == up[k].end
    <3>1. lo = removeLines(up, a, b)
      BY DEF lo
    <3>2. a \in Nat /\ b \in Nat /\ up[k].line <= a /\ b <= up[k].end /\ Len(up[k].specs) <= 1
      BY <2>4
    <3> HIDE DEF a, b
    <3>3. IsTree(lo) /\ \E map : Removes(map, up, lo, a, b)
      BY <2>3, <2>4, <3>1, <3>2, RemoveLinesKeeps
    <3>4. PICK map : /\ Collapses(map, up, a, b) /\ Lined(up, lo, map)
                     /\ a <= b /\ a \in LinesOf(up) /\ b \in LinesOf(up) => map[a] = map[b]
      BY <3>3 DEF Removes
    <3>5. ASSUME NEW l \in 1..n  PROVE Beside(lo[l]) <=> Beside(up[l])
      <4>1. l \in 1..Len(up)
        BY <2>3
      <4>2. /\ Beside(up[l]) => Beside(lo[l])
            /\ Beside(lo[l]) => Beside(up[l]) \/ (l = k /\ a <= up[l].line /\ up[l].specs[1].line <= b)
        BY <2>3, <2>4, <3>2, <3>3, <3>4, <4>1, BesideKept
      <4>3. Beside(up[k])
        <5>1. up[k].specs # <<>>
          BY <2>4, EmptySeq
        <5> QED  BY <2>3, <2>4, <5>1 DEF Beside
      <4> QED  BY <4>2, <4>3
    <3>6. lo[k].line = lo[k].specs[1].line
      <4>1. lo[k].line = map[up[k].line] /\ lo[k].specs[1].line = map[up[k].specs[1].line]
        BY <2>4, <3>4 DEF Lined
      <4> QED  BY <2>3, <4>1
    <3>7. lo[k].end = lo[k].specs[1].end
      <4>1. lo[k].end = map[b] /\ lo[k].specs[1].end = map[a]
        BY <2>4, <3>4 DEF Lined, a, b
      <4>2. a <= b /\ a \in LinesOf(up) /\ b \in LinesOf(up)
        BY <2>3, <2>4, LinesIn DEF a, b
      <4> QED  BY <3>4, <4>1, <4>2
    <3>8. \E g : Collapses(g, up, up[k].specs[1].end, up[k].end) /\ Lined(up, lo, g)
      BY <3>4 DEF a, b
    <3> QED  BY <2>3, <3>3, <3>4, <3>5, <3>6, <3>7, <3>8 DEF Lined
  <2>6. /\ k \in 1..Len(lo) /\ Len(lo[k].specs) = 1
    BY <2>2, <2>4, <2>5 DEF Same
  <2>7. /\ IsTree(es) /\ Len(es) = n
        /\ es[k].line = lo[k].line /\ es[k].end = lo[k].end /\ es[k].specs = lo[k].specs /\ ~es[k].paren
        /\ \A l \in 1..n : Same(lo[l], es[l]) /\ (l # k => es[l] = lo[l])
    <3> DEFINE d == [lo[k] EXCEPT !.paren = FALSE]
    <3>1. lo \in [1..n -> DeclTree] /\ lo[k] \in DeclTree
      BY <2>2, <2>5, LenProperties DEF IsTree
    <3>2. /\ d \in DeclTree /\ d.tok = lo[k].tok /\ d.doc = lo[k].doc /\ d.wide = lo[k].wide
          /\ d.tall = lo[k].tall /\ d.paren = FALSE /\ d.specs = lo[k].specs
          /\ d.end = lo[k].end /\ d.line = lo[k].line
      BY <3>1 DEF DeclTree
    <3>3. es \in [1..n -> DeclTree] /\ \A l \in 1..n : es[l] = IF l = k THEN d ELSE lo[l]
      BY <2>1, <2>2, <3>1, <3>2
    <3> HIDE DEF d, es
    <3>4. es \in Seq(DeclTree) /\ Len(es) = n
      BY <3>3, FunctionIsSeq
    <3>5. IsTree(es) /\ \A l \in 1..n : Same(lo[l], es[l])
      <4>1. /\ (d.paren => lo[k].paren) /\ d.line \in {lo[k].line, lo[k].specs[1].line}
            /\ Len(es) = Len(lo) /\ \A l \in 1..Len(lo) : es[l] = IF l = k THEN d ELSE lo[l]
        BY <2>5, <3>2, <3>3, <3>4
      <4> QED  BY <2>5, <2>6, <3>2, <3>4, <4>1, OneChanged
    <3> QED  BY <2>2, <3>2, <3>3, <3>4, <3>5
  <2> HIDE DEF es
  <2>8. ASSUME NEW l \in 1..n
        PROVE  /\ Same(ds[l], es[l])
               /\ es[l].paren = (ds[l].paren /\ ~ (l = k /\ Wrapped(ds[l])))
               /\ Beside(es[l]) <=> \/ Beside(ds[l])
                                    \/ l = k /\ Wrapped(ds[l])
    <3>1. Same(ds[l], es[l])
      <4>1. Same(ds[l], up[l]) /\ Same(up[l], lo[l]) /\ Same(lo[l], es[l])
        BY <2>3, <2>5, <2>7
      <4> QED  BY <4>1, SameTrans
    <3>2. Beside(es[l]) <=> Beside(lo[l])
      BY <2>7 DEF Beside
    <3>3. ds[l].paren \in BOOLEAN
      BY <1>1, TreeFacts, DeclFacts
    <3>4. Beside(lo[l]) <=> Beside(ds[l]) \/ l = k
      BY <2>3, <2>5
    <3>5. es[l].paren = (ds[l].paren /\ l # k)
      <4>1. es[l].paren \in BOOLEAN
        BY <2>7, TreeFacts, DeclFacts
      <4>2. l # k => es[l].paren = ds[l].paren
        BY <2>3, <2>5, <2>7
      <4> QED  BY <2>7, <3>3, <4>1, <4>2
    <3>6. l = k => Wrapped(ds[l])
      BY <1>3
    <3> QED  BY <3>1, <3>2, <3>3, <3>4, <3>5, <3>6
  <2>9. es[k].line = es[k].specs[1].line /\ es[k].end = es[k].specs[1].end
    BY <2>5, <2>7
  <2>10. \E to : Collapses(to, ds, ds[k].line, ds[k].end) /\ Follows(ds, k, es, to)
    <3>1. PICK f : Collapses(f, ds, ds[k].line, s.line) /\ Follows(ds, k, up, f)
      BY <2>3
    <3>2. PICK g : Collapses(g, up, up[k].specs[1].end, up[k].end) /\ Lined(up, lo, g)
      BY <2>5
    <3>3. up[k].specs[1].end = f[s.end] /\ up[k].end = f[ds[k].end] /\ up[n].end = f[ds[n].end]
      <4>1. n \in 1..Len(ds)
        BY <1>1, <2>2
      <4> QED  BY <1>1, <2>2, <3>1, <4>1, SMTT(30) DEF Follows, s
    <3> DEFINE to == [x \in LinesOf(ds) |-> g[f[x]]]
    <3>4. Collapses(to, ds, ds[k].line, ds[k].end)
      <4> DEFINE sl == s.line
                 se == s.end
      <4>1. /\ sl \in Nat /\ se \in Nat /\ ds[k].line <= sl /\ sl <= se /\ se <= ds[k].end
            /\ Collapses(f, ds, ds[k].line, sl) /\ Collapses(g, up, f[se], f[ds[k].end])
        BY <2>2, <3>1, <3>2, <3>3
      <4> HIDE DEF sl, se
      <4>2. IsTree(up) /\ Len(up) = Len(ds) /\ up[Len(ds)].end = f[ds[Len(ds)].end] /\ k \in 1..Len(ds)
        BY <1>1, <2>2, <2>3, <3>3
      <4> QED  BY <4>1, <4>2, CollapsesTwice
    <3>5. Follows(ds, k, lo, to)
      <4>1. Len(up) = Len(ds) /\ \A l \in 1..Len(ds) : Same(ds[l], up[l])
        BY <1>1, <2>3
      <4> QED  BY <2>2, <3>1, <3>2, <4>1, FollowsTwice
    <3> HIDE DEF to
    <3>6. Follows(ds, k, es, to)
      <4>1. \A l \in 1..Len(ds) : es[l].line = lo[l].line /\ es[l].end = lo[l].end /\ es[l].specs = lo[l].specs
        BY <1>1, <2>7
      <4> QED  BY <3>5, <4>1 DEF Follows
    <3> QED  BY <3>4, <3>6
  <2> QED  BY <1>1, <1>3, <2>7, <2>8, <2>9, <2>10 DEF es
<1> QED  BY <1>2, <1>3

------------------------------------------------------------------------------
(* Parsing *)

\* The declarations of a text, each spec of a group below its keyword.
Tree(text, ds) ==
  /\ IsTree(ds) /\ Len(ds) = Len(text)
  /\ \A k \in 1..Len(text) :
       /\ ds[k].tok = text[k].tok /\ ds[k].paren = text[k].paren /\ ds[k].doc = text[k].doc
       /\ Len(ds[k].specs) = Len(text[k].specs)
       /\ \A j \in 1..Len(text[k].specs) :
            IF ds[k].paren THEN ds[k].line < ds[k].specs[j].line ELSE ds[k].specs[j].line = ds[k].line
       /\ k > 1 /\ ds[k].doc # "none" => ds[k - 1].end < ds[k].line - 1

\* One of them.
LEMMA ParsedIs ==
  ASSUME NEW text, IsText(text), NEW k \in 1..Len(text), NEW end \in Nat, end > Height(text[k])
  PROVE  LET e == ParsedDecl(text[k], end)
         IN  /\ e \in DeclTree /\ IsDecl(e)
             /\ e.tok = text[k].tok /\ e.paren = text[k].paren /\ e.doc = text[k].doc
             /\ e.end = end /\ e.line = end - Height(text[k]) + 1
             /\ Len(e.specs) = Len(text[k].specs)
             /\ \A j \in 1..Len(text[k].specs) :
                  /\ e.specs[j].id = text[k].specs[j].id /\ e.specs[j].iota = text[k].specs[j].iota
                  /\ e.specs[j].doc = text[k].specs[j].doc
                  /\ IF e.paren THEN e.line < e.specs[j].line ELSE e.specs[j].line = e.line
<1> DEFINE d == text[k]
           e == ParsedDecl(text[k], end)
           line == end - Height(d) + 1
<1>1. d.specs \in Seq(SpecText)
  BY TextFacts
<1>2. PICK n \in Nat : n = Len(d.specs)
  BY <1>1, SeqFacts
<1>3. PICK h \in Nat : h = Height(d) /\ h > 0
  BY HeightIs
<1>4. line \in Nat /\ line >= 2 /\ line <= end /\ end = line + h - 1
  BY <1>3
<1> DEFINE B(j) == Below(d.specs)[j]
           spec(j) == ParsedSpec(d, line, j)
           specs == [j \in 1..n |-> spec(j)]
<1>5. /\ \A j \in 0..n : B(j) \in Nat
      /\ \A j \in 1..n : B(j) = B(j - 1) + SpecLines(d.specs[j]) /\ SpecLines(d.specs[j]) \in Nat
                         /\ SpecLines(d.specs[j]) >= d.specs[j].h
      /\ \A x \in 0..n, y \in 0..n : x <= y => B(x) <= B(y)
  BY <1>1, <1>2, BelowIs
<1> HIDE DEF B
<1>6. d.paren \in BOOLEAN /\ (d.tok = "func" => ~d.paren /\ n = 0)
  <2>1. Len(<<>>) = 0
    OBVIOUS
  <2> QED  BY <1>2, <2>1, TextFacts
<1>7. d.paren /\ n > 0 => end = line + B(n) + 1
  <2> SUFFICES ASSUME d.paren, n > 0  PROVE end = line + B(n) + 1
    OBVIOUS
  <2>1. d.specs # <<>>
    <3>1. Len(<<>>) = 0
      OBVIOUS
    <3> QED  BY <1>2, <3>1
  <2>2. h = B(n) + 2
    BY <1>2, <1>3, <2>1, HeightIs DEF B
  <2>3. B(n) \in Nat
    BY <1>5
  <2> QED  BY <1>4, <2>2, <2>3
<1>8. ~d.paren /\ d.tok # "func" => n = 1 /\ h = d.specs[1].h
  BY <1>2, <1>3, HeightIs, TextFacts
<1> DEFINE bottom(j) == IF d.paren THEN line + B(j) ELSE line + d.specs[j].h - 1
<1>9. ASSUME NEW j \in 1..n
      PROVE  /\ spec(j) = [id |-> d.specs[j].id, iota |-> d.specs[j].iota, doc |-> d.specs[j].doc,
                           line |-> bottom(j) - d.specs[j].h + 1, end |-> bottom(j)]
             /\ d.specs[j].id \in Int /\ d.specs[j].iota \in BOOLEAN /\ d.specs[j].doc \in Docs
             /\ d.specs[j].h \in Nat /\ d.specs[j].h > 0
  BY <1>2, TextFacts DEF ParsedSpec, B
<1>10. ASSUME NEW j \in 1..n
       PROVE  /\ bottom(j) \in Nat /\ bottom(j) <= end
              /\ IF d.paren THEN bottom(j) - d.specs[j].h + 1 > line + B(j - 1) ELSE bottom(j) - d.specs[j].h + 1 = line
  <2>1. d.specs[j].h \in Nat /\ d.specs[j].h > 0
    BY <1>9
  <2>2. CASE d.paren
    <3>1. j \in 0..n /\ j - 1 \in 0..n /\ n \in 0..n /\ j <= n
      BY <1>2
    <3>2. /\ B(j) \in Nat /\ B(j - 1) \in Nat /\ B(n) \in Nat /\ B(j) <= B(n)
          /\ B(j) = B(j - 1) + SpecLines(d.specs[j]) /\ SpecLines(d.specs[j]) \in Nat
          /\ SpecLines(d.specs[j]) >= d.specs[j].h
      BY <1>5, <3>1
    <3>3. bottom(j) = line + B(j) /\ end = line + B(n) + 1
      BY <1>7, <2>2
    <3>4. line \in Nat /\ d.specs[j].h <= B(j) - B(j - 1)
      BY <1>4, <2>1, <3>2
    <3> HIDE DEF bottom, line, d
    <3>5. bottom(j) \in Nat /\ bottom(j) <= end
      BY <3>2, <3>3, <3>4, SMTT(30)
    <3>6. bottom(j) - d.specs[j].h + 1 > line + B(j - 1)
      <4>1. PICK u \in Nat, v \in Nat, w \in Nat : u = B(j) /\ v = B(j - 1) /\ w = d.specs[j].h
        BY <2>1, <3>2
      <4>2. w <= u - v /\ bottom(j) = line + u
        BY <3>3, <3>4, <4>1
      <4>3. bottom(j) - w + 1 > line + v
        <5>1. PICK x \in Nat : x = line
          BY <3>4
        <5>2. bottom(j) = x + u
          BY <4>2, <5>1
        <5>3. w <= u - v
          BY <4>2
        <5>4. (x + u) - w + 1 > x + v
          <6>1. u \in Nat /\ v \in Nat /\ w \in Nat /\ x \in Nat
            OBVIOUS
          <6>2. (x + u) - w >= x + v
            BY ONLY <5>3, <6>1
          <6> QED  BY ONLY <6>1, <6>2
        <5> QED  BY <5>1, <5>2, <5>4
      <4> QED  BY <4>1, <4>3
    <3> QED  BY <2>2, <3>5, <3>6
  <2>3. CASE ~d.paren
    <3>1. j = 1 /\ h = d.specs[j].h
      BY <1>6, <1>8, <2>3
    <3>2. bottom(j) = line + h - 1
      BY <2>3, <3>1
    <3> HIDE DEF bottom, line
    <3> QED  BY <1>3, <1>4, <2>3, <3>1, <3>2
  <2> QED  BY <1>6, <2>2, <2>3
<1> DEFINE top(j) == bottom(j) - d.specs[j].h + 1
<1> HIDE DEF bottom
<1>11. ASSUME NEW j \in 1..n
       PROVE  /\ top(j) \in Nat /\ line <= top(j) /\ top(j) <= bottom(j)
              /\ IF d.paren THEN line < top(j) ELSE top(j) = line
  <2>1. d.specs[j].h \in Nat /\ d.specs[j].h > 0
    BY <1>9
  <2>2. j - 1 \in 0..n
    BY <1>2
  <2>3. B(j - 1) \in Nat
    BY <1>5, <2>2
  <2>4. /\ bottom(j) \in Nat
        /\ IF d.paren THEN top(j) > line + B(j - 1) ELSE top(j) = line
    BY <1>10
  <2>5. top(j) \in Int /\ top(j) <= bottom(j)
    BY <2>1, <2>4, SMTT(30)
  <2>6. line \in Nat
    BY <1>4
  <2> HIDE DEF top, line, d
  <2> QED  BY <2>3, <2>4, <2>5, <2>6
<1>12. ASSUME NEW j \in 1..n, NEW m \in 1..n, j < m  PROVE bottom(j) < top(m)
  <2>1. d.paren
    BY <1>6, <1>8, <1>12
  <2>2. j \in 0..n /\ m - 1 \in 0..n /\ j <= m - 1
    BY <1>2, <1>12
  <2>3. B(j) \in Nat /\ B(m - 1) \in Nat /\ B(j) <= B(m - 1)
    BY <1>5, <2>2
  <2>4. bottom(j) = line + B(j)
    BY <2>1 DEF bottom
  <2>5. top(m) > line + B(m - 1)
    BY <1>10, <2>1
  <2>6. top(m) \in Nat
    BY <1>11
  <2> HIDE DEF top, line
  <2> QED  BY <1>4, <2>3, <2>4, <2>5, <2>6
<1>13. ASSUME NEW j \in 1..n
       PROVE  /\ spec(j) \in SpecTree /\ spec(j).line = top(j) /\ spec(j).end = bottom(j)
              /\ spec(j).id = d.specs[j].id /\ spec(j).iota = d.specs[j].iota /\ spec(j).doc = d.specs[j].doc
  <2>1. top(j) \in Nat /\ bottom(j) \in Nat
    BY <1>10, <1>11
  <2> HIDE DEF spec, d
  <2> QED  BY <1>9, <2>1, SMTT(30) DEF SpecTree
<1>14. specs \in Seq(SpecTree) /\ Len(specs) = n /\ \A j \in 1..n : specs[j] = spec(j)
  <2> HIDE DEF spec
  <2>1. specs \in [1..n -> SpecTree]
    BY <1>13
  <2>2. \A j \in 1..n : specs[j] = spec(j)
    OBVIOUS
  <2> HIDE DEF specs
  <2> QED  BY <2>1, <2>2, FunctionIsSeq
<1>15. e = [tok |-> d.tok, paren |-> d.paren, doc |-> d.doc, line |-> line, end |-> end,
            specs |-> specs, wide |-> d.wide, tall |-> d.tall]
  BY <1>2 DEF ParsedDecl
<1> HIDE DEF specs, spec, line, top, e
<1>16. /\ e \in DeclTree /\ e.tok = d.tok /\ e.paren = d.paren /\ e.doc = d.doc /\ e.line = line /\ e.end = end
       /\ e.specs = specs
  <2>1. /\ d.tok \in {"func", "import", "var", "const", "type"} /\ d.doc \in Docs
        /\ d.wide \in BOOLEAN /\ d.tall \in BOOLEAN
    BY TextFacts
  <2> HIDE DEF d
  <2> QED  BY <1>4, <1>6, <1>14, <1>15, <2>1 DEF DeclTree
<1>17. \A j \in 1..n : /\ e.specs[j].line = top(j) /\ e.specs[j].end = bottom(j)
                       /\ e.specs[j].id = d.specs[j].id /\ e.specs[j].iota = d.specs[j].iota
                       /\ e.specs[j].doc = d.specs[j].doc
  BY <1>13, <1>14, <1>16
<1>18. Len(e.specs) = n
  BY <1>14, <1>16
<1>19. IsDecl(e)
  <2>1. e.line >= 1 /\ e.line <= e.end
    BY <1>4, <1>16
  <2>2. e.tok = "func" => e.specs = <<>> /\ ~e.paren
    BY <1>6, <1>14, <1>16, EmptySeq
  <2>3. \A j \in 1..n :
          e.line <= e.specs[j].line /\ e.specs[j].line <= e.specs[j].end /\ e.specs[j].end <= e.end
    BY <1>10, <1>11, <1>16, <1>17
  <2>4. \A j \in 1..n, m \in 1..n : j < m => e.specs[j].end < e.specs[m].line
    BY <1>12, <1>17
  <2> QED  BY <1>18, <2>1, <2>2, <2>3, <2>4 DEF IsDecl
<1>20. \A j \in 1..n : IF e.paren THEN e.line < e.specs[j].line ELSE e.specs[j].line = e.line
  BY <1>11, <1>16, <1>17
<1>21. /\ e.tok = text[k].tok /\ e.paren = text[k].paren /\ e.doc = text[k].doc
       /\ e.end = end /\ e.line = end - Height(text[k]) + 1
       /\ Len(e.specs) = Len(text[k].specs)
  BY <1>2, <1>16, <1>18 DEF line
<1>22. \A j \in 1..Len(text[k].specs) :
         /\ e.specs[j].id = text[k].specs[j].id /\ e.specs[j].iota = text[k].specs[j].iota
         /\ e.specs[j].doc = text[k].specs[j].doc
         /\ IF e.paren THEN e.line < e.specs[j].line ELSE e.specs[j].line = e.line
  BY <1>2, <1>17, <1>20
<1> QED  BY <1>16, <1>19, <1>21, <1>22 DEF e

\* The specs of two declarations are one another's.
SameNames(d, e) ==
  /\ Len(e.specs) = Len(d.specs)
  /\ \A j \in 1..Len(d.specs) :
       e.specs[j].id = d.specs[j].id /\ e.specs[j].iota = d.specs[j].iota /\ e.specs[j].doc = d.specs[j].doc

LEMMA ParseIs ==
  ASSUME NEW text, IsText(text)
  PROVE  Tree(text, Parse(text)) /\ \A k \in 1..Len(text) : SameNames(text[k], Parse(text)[k])
<1>1. PICK n \in Nat : n = Len(text)
  BY SeqFacts DEF IsText
<1> DEFINE E(k) == EndsOf(text)[k]
           H(k) == Height(text[k])
           L(k) == Lines(text[k])
           d(k) == ParsedDecl(text[k], E(k))
           ds == Parse(text)
<1>2. /\ \A k \in 0..n : E(k) \in Nat
      /\ E(0) = 1
      /\ \A k \in 1..n : E(k) = E(k - 1) + L(k)
      /\ \A a \in 0..n, b \in 0..n : a <= b => E(a) <= E(b)
  BY <1>1, EndsAre
<1>3. ASSUME NEW k \in 1..n
      PROVE  /\ H(k) \in Nat /\ H(k) > 0 /\ L(k) \in Nat /\ L(k) >= H(k)
             /\ text[k].doc # "none" => L(k) > H(k)
  BY <1>1, HeightIs
<1> HIDE DEF E, L
<1>4. ASSUME NEW k \in 1..n
      PROVE  /\ E(k) \in Nat /\ E(k) > H(k) /\ E(k - 1) \in Nat
             /\ E(k - 1) < E(k) - H(k) + 1
             /\ text[k].doc # "none" => E(k - 1) < E(k) - H(k)
  <2>1. k \in 0..n /\ k - 1 \in 0..n /\ 0 \in 0..n /\ 0 <= k - 1
    BY <1>1
  <2>2. E(k) \in Nat /\ E(k - 1) \in Nat /\ E(0) <= E(k - 1) /\ E(0) = 1 /\ E(k) = E(k - 1) + L(k)
    BY <1>2, <2>1
  <2>3. PICK p \in Nat, q \in Nat, r \in Nat : p = E(k - 1) /\ q = L(k) /\ r = H(k)
    BY <1>3, <2>2
  <2>4. E(k) = p + q /\ p >= 1 /\ q >= r /\ (text[k].doc # "none" => q > r)
    BY <1>3, <2>2, <2>3
  <2> HIDE DEF H
  <2>5. p < p + q - r + 1 /\ p + q > r /\ (text[k].doc # "none" => p < p + q - r)
    BY <2>4
  <2> QED  BY <2>2, <2>3, <2>4, <2>5
<1>5. ASSUME NEW k \in 1..n
      PROVE  /\ d(k) \in DeclTree /\ IsDecl(d(k))
             /\ d(k).tok = text[k].tok /\ d(k).paren = text[k].paren /\ d(k).doc = text[k].doc
             /\ d(k).end = E(k) /\ d(k).line = E(k) - H(k) + 1
             /\ SameNames(text[k], d(k))
             /\ \A j \in 1..Len(text[k].specs) :
                  IF d(k).paren THEN d(k).line < d(k).specs[j].line ELSE d(k).specs[j].line = d(k).line
  <2>1. k \in 1..Len(text) /\ E(k) \in Nat /\ E(k) > Height(text[k])
    BY <1>1, <1>4
  <2> QED  BY <2>1, ParsedIs DEF SameNames
<1>6. ds = [k \in 1..n |-> d(k)]
  BY <1>1 DEF Parse, E
<1> HIDE DEF d, H
<1>7. ds \in Seq(DeclTree) /\ Len(ds) = n /\ \A k \in 1..n : ds[k] = d(k)
  <2>1. ds \in [1..n -> DeclTree]
    BY <1>5, <1>6
  <2>2. \A k \in 1..n : ds[k] = d(k)
    BY <1>6
  <2> HIDE DEF ds
  <2> QED  BY <2>1, <2>2, FunctionIsSeq
<1> HIDE DEF ds
<1>8. ASSUME NEW k \in 1..n, NEW l \in 1..n, k < l  PROVE ds[k].end < ds[l].line
  <2>1. k \in 0..n /\ l - 1 \in 0..n /\ k <= l - 1
    BY <1>1, <1>8
  <2>2. E(k) <= E(l - 1) /\ E(k) \in Nat
    BY <1>2, <2>1
  <2>3. E(l - 1) < E(l) - H(l) + 1 /\ E(l - 1) \in Nat /\ E(l) \in Nat /\ H(l) \in Nat
    BY <1>3, <1>4
  <2>4. ds[k].end = E(k) /\ ds[l].line = E(l) - H(l) + 1
    BY <1>5, <1>7
  <2> DEFINE first == E(l) - H(l) + 1
  <2>5. first \in Int
    BY <2>3
  <2>6. E(l - 1) < first /\ ds[l].line = first
    BY <2>3, <2>4
  <2> HIDE DEF first
  <2> QED  BY <2>2, <2>3, <2>4, <2>5, <2>6
<1>9. IsTree(ds)
  BY <1>5, <1>7, <1>8 DEF IsTree
<1>10. ASSUME NEW k \in 1..n, k > 1, ds[k].doc # "none"  PROVE ds[k - 1].end < ds[k].line - 1
  <2>1. k - 1 \in 1..n
    BY <1>10
  <2>2. text[k].doc # "none"
    BY <1>5, <1>7, <1>10
  <2>3. ds[k - 1].end = E(k - 1) /\ ds[k].line = E(k) - H(k) + 1
    BY <1>5, <1>7, <2>1
  <2>4. E(k - 1) < E(k) - H(k) /\ E(k) \in Nat /\ H(k) \in Nat /\ E(k - 1) \in Nat
    BY <1>3, <1>4, <2>2
  <2>5. (E(k) - H(k) + 1) - 1 = E(k) - H(k)
    BY <2>4
  <2> QED  BY <2>3, <2>4, <2>5
<1>11. Tree(text, ds)
  <2>1. ASSUME NEW k \in 1..n
        PROVE  /\ ds[k].tok = text[k].tok /\ ds[k].paren = text[k].paren /\ ds[k].doc = text[k].doc
               /\ Len(ds[k].specs) = Len(text[k].specs)
               /\ \A j \in 1..Len(text[k].specs) :
                    IF ds[k].paren THEN ds[k].line < ds[k].specs[j].line ELSE ds[k].specs[j].line = ds[k].line
               /\ k > 1 /\ ds[k].doc # "none" => ds[k - 1].end < ds[k].line - 1
    BY <1>5, <1>7, <1>10 DEF SameNames
  <2> QED  BY <1>1, <1>7, <1>9, <2>1 DEF Tree
<1> QED  BY <1>1, <1>5, <1>7, <1>11 DEF ds

\* processFile sorts imports in their groups, no more.
LEMMA ReadIs ==
  ASSUME NEW text, IsText(text)
  PROVE  LET ds == Parse(text)
             es == Read(text)
         IN  /\ Tree(text, es) /\ Unique(ds) /\ Unique(es)
             /\ OtherIds(es) = OtherIds(text) /\ SpecIds(es) = SpecIds(text)
             /\ \A k \in 1..Len(text) :
                  \/ es[k] = ds[k]
                  \/ ds[k].tok = "import" /\ ds[k].paren /\ Distinct(ds[k]) /\ es[k] = SortImports(ds[k])
<1>1. PICK n \in Nat : n = Len(text)
  BY SeqFacts DEF IsText
<1> DEFINE ds == Parse(text)
           es == Read(text)
           Sorts(k) == ds[k].tok = "import" /\ ds[k].paren
<1>2. Tree(text, ds) /\ \A k \in 1..n : SameNames(text[k], ds[k])
  BY <1>1, ParseIs
<1> HIDE DEF ds
<1>3. IsTree(ds) /\ Len(ds) = n /\ HasIds(ds) /\ HasIds(text) /\ Unique(text)
  BY <1>1, <1>2, TreeHasIds, TextHasIds DEF Tree
<1>4. SameSpecs(text, ds)
  BY <1>1, <1>2, <1>3 DEF SameSpecs, Tree, SameNames, IdsOf
<1>5. Unique(ds) /\ OtherIds(ds) = OtherIds(text) /\ SpecIds(ds) = SpecIds(text)
  BY <1>3, <1>4, SameSpecsKept
<1>6. \A k \in 1..n : ds[k] \in DeclTree /\ IsDecl(ds[k]) /\ Distinct(ds[k])
  BY <1>3, <1>5, TreeFacts DEF Unique, Distinct
<1>7. es = [k \in 1..n |-> IF Sorts(k) THEN SortImports(ds[k]) ELSE ds[k]]
  BY <1>3 DEF Read, ds
<1>8. ASSUME NEW k \in 1..n
      PROVE  /\ es[k] = IF Sorts(k) THEN SortImports(ds[k]) ELSE ds[k]
             /\ es[k] \in DeclTree /\ IsDecl(es[k]) /\ es[k].tok = ds[k].tok /\ es[k].paren = ds[k].paren
             /\ es[k].doc = ds[k].doc /\ es[k].line = ds[k].line /\ es[k].end = ds[k].end
             /\ Len(es[k].specs) = Len(ds[k].specs)
             /\ \A j \in 1..Len(ds[k].specs) : es[k].specs[j].line = ds[k].specs[j].line
             /\ Distinct(es[k]) /\ Range(IdsOf(es[k])) = Range(IdsOf(ds[k]))
             /\ Others(es[k]) = Others(ds[k])
  <2>1. es[k] = IF Sorts(k) THEN SortImports(ds[k]) ELSE ds[k]
    BY <1>7
  <2> HIDE DEF es
  <2>2. CASE Sorts(k)
    <3>1. es[k] = SortImports(ds[k]) /\ ds[k].tok = "import"
      BY <2>1, <2>2
    <3>2. ds[k] \in DeclTree /\ IsDecl(ds[k]) /\ Distinct(ds[k])
      BY <1>6
    <3>3. /\ es[k] \in DeclTree /\ IsDecl(es[k]) /\ es[k].tok = ds[k].tok /\ es[k].paren = ds[k].paren
          /\ es[k].doc = ds[k].doc /\ es[k].line = ds[k].line /\ es[k].end = ds[k].end
          /\ Len(es[k].specs) = Len(ds[k].specs)
          /\ \A j \in 1..Len(ds[k].specs) : es[k].specs[j].line = ds[k].specs[j].line
          /\ Distinct(es[k]) /\ Range(IdsOf(es[k])) = Range(IdsOf(ds[k]))
      <4>1. SortedFrom(ds[k], es[k])
        BY <3>1, <3>2, SortImportsIs
      <4> QED  BY <4>1 DEF SortedFrom
    <3>4. Others(es[k]) = Others(ds[k])
      BY <3>1, <3>3 DEF Others
    <3> QED  BY <2>1, <3>3, <3>4
  <2>3. CASE ~ Sorts(k)
    <3>1. es[k] = ds[k]
      BY <2>1, <2>3
    <3> QED  BY <1>6, <2>1, <3>1
  <2> QED  BY <2>2, <2>3
<1>9. es \in Seq(DeclTree) /\ Len(es) = n
  <2>1. DOMAIN es = 1..n /\ es = [k \in 1..n |-> es[k]]
    BY <1>7
  <2>2. es \in [1..n -> DeclTree]
    BY <1>8, <2>1
  <2> HIDE DEF es
  <2> QED  BY <2>2, FunctionIsSeq
<1> HIDE DEF es
<1>10. IsTree(es)
  <2>1. \A k \in 1..n, l \in 1..n : k < l => es[k].end < es[l].line
    BY <1>3, <1>8 DEF IsTree
  <2> QED  BY <1>8, <1>9, <2>1 DEF IsTree
<1>11. Tree(text, es)
  <2>1. \A k \in 1..n : k > 1 => k - 1 \in 1..n
    OBVIOUS
  <2>2. ASSUME NEW k \in 1..n
        PROVE  /\ es[k].tok = text[k].tok /\ es[k].paren = text[k].paren /\ es[k].doc = text[k].doc
               /\ Len(es[k].specs) = Len(text[k].specs)
               /\ \A j \in 1..Len(text[k].specs) :
                    IF es[k].paren THEN es[k].line < es[k].specs[j].line ELSE es[k].specs[j].line = es[k].line
               /\ k > 1 /\ es[k].doc # "none" => es[k - 1].end < es[k].line - 1
    <3>1. /\ ds[k].tok = text[k].tok /\ ds[k].paren = text[k].paren /\ ds[k].doc = text[k].doc
          /\ Len(ds[k].specs) = Len(text[k].specs)
          /\ \A j \in 1..Len(text[k].specs) :
               IF ds[k].paren THEN ds[k].line < ds[k].specs[j].line ELSE ds[k].specs[j].line = ds[k].line
          /\ k > 1 /\ ds[k].doc # "none" => ds[k - 1].end < ds[k].line - 1
      BY <1>1, <1>2 DEF Tree
    <3>2. /\ es[k].tok = ds[k].tok /\ es[k].paren = ds[k].paren
          /\ es[k].doc = ds[k].doc /\ es[k].line = ds[k].line
          /\ Len(es[k].specs) = Len(ds[k].specs)
          /\ \A j \in 1..Len(ds[k].specs) : es[k].specs[j].line = ds[k].specs[j].line
      BY <1>8
    <3>3. k > 1 => es[k - 1].end = ds[k - 1].end
      BY <1>8, <2>1
    <3>4. \A j \in 1..Len(text[k].specs) : es[k].specs[j].line = ds[k].specs[j].line
      BY <3>1, <3>2
    <3> QED  BY <3>1, <3>2, <3>3, <3>4
  <2> QED  BY <1>1, <1>9, <1>10, <2>2 DEF Tree
<1>12. HasIds(es)
  BY <1>10, TreeHasIds
<1>13. OtherIds(es) = OtherIds(ds) /\ SpecIds(es) = SpecIds(ds)
  <2>1. [k \in 1..n |-> Others(es[k])] = [k \in 1..n |-> Others(ds[k])]
    BY <1>8
  <2>2. OtherIds(es) = FlattenSeq([k \in 1..n |-> Others(es[k])])
    BY <1>9, <1>12, IdsAre
  <2>3. OtherIds(ds) = FlattenSeq([k \in 1..n |-> Others(ds[k])])
    BY <1>3, IdsAre
  <2>4. \A k \in 1..n : Range(IdsOf(es[k])) = Range(IdsOf(ds[k]))
    BY <1>8
  <2>5. SpecIds(es) = SpecIds(ds)
    BY <1>3, <1>9, <2>4 DEF SpecIds
  <2> QED  BY <2>1, <2>2, <2>3, <2>5
<1>14. Unique(es)
  <2> SUFFICES ASSUME NEW k \in 1..n, NEW l \in 1..n,
                      NEW j \in 1..Len(es[k].specs), NEW m \in 1..Len(es[l].specs),
                      es[k].specs[j].id = es[l].specs[m].id
               PROVE  k = l /\ j = m
    BY <1>9 DEF Unique
  <2> DEFINE x == es[k].specs[j].id
  <2>1. /\ Range(IdsOf(es[k])) = Range(IdsOf(ds[k])) /\ Len(es[k].specs) = Len(ds[k].specs)
        /\ Range(IdsOf(es[l])) = Range(IdsOf(ds[l])) /\ Len(es[l].specs) = Len(ds[l].specs)
    BY <1>8
  <2>2. x \in Range(IdsOf(es[k])) /\ x \in Range(IdsOf(es[l]))
    BY DEF Range, IdsOf
  <2> HIDE DEF x
  <2>3. PICK p \in 1..Len(ds[k].specs) : x = ds[k].specs[p].id
    BY <2>1, <2>2 DEF Range, IdsOf
  <2>4. PICK q \in 1..Len(ds[l].specs) : x = ds[l].specs[q].id
    BY <2>1, <2>2 DEF Range, IdsOf
  <2>5. k = l
    <3>1. \A a \in 1..n, b \in 1..n :
            \A c \in 1..Len(ds[a].specs), d \in 1..Len(ds[b].specs) :
              ds[a].specs[c].id = ds[b].specs[d].id => a = b /\ c = d
      BY <1>3, <1>5 DEF Unique
    <3>2. ds[k].specs[p].id = ds[l].specs[q].id
      BY <2>3, <2>4
    <3> QED  BY <3>1, <3>2
  <2>6. Distinct(es[k])
    BY <1>8
  <2> QED  BY <2>5, <2>6 DEF Distinct
<1> QED  BY <1>1, <1>5, <1>6, <1>8, <1>11, <1>13, <1>14 DEF ds, es

------------------------------------------------------------------------------
(* Printing *)

LEMMA PrintedIs ==
  ASSUME NEW ds, IsTree(ds), Unique(ds)
  PROVE  /\ IsText(Printed(ds)) /\ SameSpecs(ds, Printed(ds)) /\ Len(Printed(ds)) = Len(ds)
         /\ \A k \in 1..Len(ds) :
              /\ Printed(ds)[k].tok = ds[k].tok /\ Printed(ds)[k].paren = Parens(ds[k])
              /\ Printed(ds)[k].doc = IF Hoisted(ds[k]) THEN ds[k].specs[1].doc ELSE ds[k].doc
              /\ Len(Printed(ds)[k].specs) = Len(ds[k].specs)
              /\ \A j \in 1..Len(ds[k].specs) :
                   /\ Printed(ds)[k].specs[j].id = ds[k].specs[j].id
                   /\ Printed(ds)[k].specs[j].iota = ds[k].specs[j].iota
                   /\ Printed(ds)[k].specs[j].doc = IF j = 1 /\ (Hoisted(ds[k]) \/ ~Parens(ds[k]))
                                                    THEN "none" ELSE ds[k].specs[j].doc
<1>1. PICK n \in Nat : n = Len(ds)
  BY SeqFacts DEF IsTree
<1> DEFINE text == Printed(ds)
           t(k) == PrintedDecl(ds[k], BlankAbove(ds, k))
           s(k, j) == PrintedSpec(ds[k], j)
           up(k, j) == j = 1 /\ (Hoisted(ds[k]) \/ ~Parens(ds[k]))
<1>2. ASSUME NEW k \in 1..n
      PROVE  /\ ds[k].tok \in {"func", "import", "var", "const", "type"} /\ ds[k].doc \in Docs
             /\ ds[k].wide \in BOOLEAN /\ ds[k].tall \in BOOLEAN /\ ds[k].paren \in BOOLEAN
             /\ ds[k].line \in Nat /\ ds[k].end \in Nat /\ ds[k].line <= ds[k].end
             /\ Len(ds[k].specs) \in Nat /\ Parens(ds[k]) \in BOOLEAN /\ BlankAbove(ds, k) \in BOOLEAN
             /\ ds[k].tok = "func" => ds[k].specs = <<>> /\ Len(ds[k].specs) = 0
  <2>1. ds[k] \in DeclTree /\ IsDecl(ds[k])
    BY <1>1, TreeFacts
  <2>2. Parens(ds[k]) \in BOOLEAN /\ BlankAbove(ds, k) \in BOOLEAN
    BY DEF Parens, BlankAbove
  <2>3. Len(<<>>) = 0
    OBVIOUS
  <2>4. ds[k].line <= ds[k].end /\ (ds[k].tok = "func" => ds[k].specs = <<>>)
    BY <2>1 DEF IsDecl
  <2> QED  BY <2>1, <2>2, <2>3, <2>4, DeclFacts
<1>3. ASSUME NEW k \in 1..n, NEW j \in 1..Len(ds[k].specs)
      PROVE  /\ s(k, j) \in SpecText
             /\ s(k, j).id = ds[k].specs[j].id /\ s(k, j).iota = ds[k].specs[j].iota
             /\ s(k, j).doc = IF up(k, j) THEN "none" ELSE ds[k].specs[j].doc
  <2> DEFINE r == ds[k].specs[j]
             blank == j > 1 /\ TopSpec(r) - ds[k].specs[j - 1].end >= 2
             doc == IF up(k, j) THEN "none" ELSE r.doc
  <2>1. /\ r.id \in Int /\ r.iota \in BOOLEAN /\ r.doc \in Docs
        /\ r.line \in Nat /\ r.end \in Nat /\ r.line <= r.end
    BY <1>1, TreeFacts, DeclFacts DEF IsDecl
  <2>2. s(k, j) = [id |-> r.id, iota |-> r.iota, doc |-> doc, h |-> r.end - r.line + 1, blank |-> blank]
    BY DEF PrintedSpec
  <2>3. doc \in Docs
    BY <2>1 DEF Docs
  <2>4. r.end - r.line + 1 \in Nat \ {0}
    <3> DEFINE x == r.end - r.line
    <3>1. x \in Nat
      BY <2>1
    <3> HIDE DEF x
    <3>2. x + 1 \in Nat \ {0}
      BY <3>1
    <3> QED  BY <3>2 DEF x
  <2>5. blank \in BOOLEAN
    OBVIOUS
  <2>6. doc = IF up(k, j) THEN "none" ELSE r.doc
    OBVIOUS
  <2> HIDE DEF s, r, doc, blank, up
  <2> QED  BY <2>1, <2>2, <2>3, <2>4, <2>5, <2>6 DEF SpecText, r
<1>4. ASSUME NEW k \in 1..n
      PROVE  /\ t(k) \in DeclText
             /\ t(k).tok = ds[k].tok /\ t(k).paren = Parens(ds[k])
             /\ t(k).doc = IF Hoisted(ds[k]) THEN ds[k].specs[1].doc ELSE ds[k].doc
             /\ Len(t(k).specs) = Len(ds[k].specs)
             /\ \A j \in 1..Len(ds[k].specs) : t(k).specs[j] = s(k, j)
             /\ t(k).tok = "func" => t(k).specs = <<>> /\ ~t(k).paren /\ t(k).h > 0
  <2> DEFINE m == Len(ds[k].specs)
             specs == [j \in 1..m |-> s(k, j)]
             doc == IF Hoisted(ds[k]) THEN ds[k].specs[1].doc ELSE ds[k].doc
             h == IF ds[k].tok # "func" THEN 0
                  ELSE IF ~OnOneLine(ds[k]) THEN ds[k].end - ds[k].line + 1
                  ELSE IF ds[k].tall THEN 3 ELSE 1
  <2>1. m \in Nat
    BY <1>2
  <2>2. specs \in Seq(SpecText) /\ Len(specs) = m /\ \A j \in 1..m : specs[j] = s(k, j)
    <3> HIDE DEF s
    <3>1. specs \in [1..m -> SpecText]
      BY <1>3
    <3>2. \A j \in 1..m : specs[j] = s(k, j)
      OBVIOUS
    <3> HIDE DEF specs, m
    <3> QED  BY <2>1, <3>1, <3>2, FunctionIsSeq
  <2>3. doc \in Docs
    <3>1. CASE Hoisted(ds[k])
      <4>1. ds[k].specs # <<>> /\ ds[k].specs \in Seq(SpecTree)
        BY <1>1, <3>1, TreeFacts DEF Hoisted
      <4>2. 1 \in 1..Len(ds[k].specs)
        BY <4>1, EmptySeq
      <4>3. ds[k].specs[1].doc \in Docs
        BY <1>1, <4>2, TreeFacts, DeclFacts
      <4> QED  BY <3>1, <4>3
    <3>2. CASE ~ Hoisted(ds[k])
      BY <1>2, <3>2
    <3> QED  BY <3>1, <3>2
  <2>4. h \in Nat /\ (ds[k].tok = "func" => h > 0)
    BY <1>2
  <2>5. t(k) = [tok |-> ds[k].tok, paren |-> Parens(ds[k]), blank |-> BlankAbove(ds, k), doc |-> doc,
                specs |-> specs, h |-> h, wide |-> ds[k].wide, tall |-> ds[k].tall]
    BY DEF PrintedDecl
  <2>6. doc = IF Hoisted(ds[k]) THEN ds[k].specs[1].doc ELSE ds[k].doc
    OBVIOUS
  <2> HIDE DEF t, specs, doc, h
  <2>7. /\ t(k) \in DeclText /\ t(k).tok = ds[k].tok /\ t(k).paren = Parens(ds[k]) /\ t(k).doc = doc
        /\ t(k).specs = specs /\ t(k).h = h
    BY <1>2, <2>2, <2>3, <2>4, <2>5 DEF DeclText
  <2>8. ds[k].tok = "func" => specs = <<>> /\ ~Parens(ds[k])
    BY <1>2, <2>2, EmptySeq DEF Parens
  <2> QED  BY <2>2, <2>4, <2>6, <2>7, <2>8
<1>5. text = [k \in 1..n |-> t(k)]
  BY <1>1 DEF Printed
<1> HIDE DEF t
<1>6. text \in Seq(DeclText) /\ Len(text) = n /\ \A k \in 1..n : text[k] = t(k)
  <2>1. text \in [1..n -> DeclText]
    BY <1>4, <1>5
  <2>2. \A k \in 1..n : text[k] = t(k)
    BY <1>5
  <2> HIDE DEF text
  <2> QED  BY <2>1, <2>2, FunctionIsSeq
<1> HIDE DEF text, s
<1>7. ASSUME NEW k \in 1..n
      PROVE  /\ text[k].tok = ds[k].tok /\ text[k].paren = Parens(ds[k])
             /\ text[k].doc = IF Hoisted(ds[k]) THEN ds[k].specs[1].doc ELSE ds[k].doc
             /\ Len(text[k].specs) = Len(ds[k].specs)
             /\ \A j \in 1..Len(ds[k].specs) :
                  /\ text[k].specs[j].id = ds[k].specs[j].id
                  /\ text[k].specs[j].iota = ds[k].specs[j].iota
                  /\ text[k].specs[j].doc = IF up(k, j) THEN "none" ELSE ds[k].specs[j].doc
             /\ text[k].tok = "func" => text[k].specs = <<>> /\ ~text[k].paren /\ text[k].h > 0
  <2>1. text[k] = t(k)
    BY <1>6
  <2> HIDE DEF up
  <2>2. ASSUME NEW j \in 1..Len(ds[k].specs)
        PROVE  /\ text[k].specs[j].id = ds[k].specs[j].id
               /\ text[k].specs[j].iota = ds[k].specs[j].iota
               /\ text[k].specs[j].doc = IF up(k, j) THEN "none" ELSE ds[k].specs[j].doc
    <3>1. text[k].specs[j] = s(k, j)
      BY <1>4, <2>1
    <3> QED  BY <1>3, <3>1
  <2> QED  BY <1>4, <2>1, <2>2
<1>8. IsText(text)
  <2>1. DOMAIN text = 1..n
    BY <1>6, SeqFacts
  <2>2. ASSUME NEW k \in 1..n, text[k].tok # "func", ~text[k].paren
        PROVE  Len(text[k].specs) = 1 /\ text[k].specs[1].doc = "none"
    <3>1. ~Parens(ds[k]) /\ Len(ds[k].specs) = 1
      BY <1>7, <2>2 DEF Parens
    <3>2. 1 \in 1..Len(ds[k].specs) /\ up(k, 1)
      BY <3>1
    <3> QED  BY <1>7, <3>1, <3>2
  <2>3. ASSUME NEW k \in 1..n  PROVE DOMAIN text[k].specs = 1..Len(ds[k].specs)
    <3>1. text[k].specs \in Seq(SpecText) /\ Len(text[k].specs) = Len(ds[k].specs)
      BY <1>4, <1>6, <1>7 DEF DeclText
    <3> QED  BY <3>1, SeqFacts
  <2>4. ASSUME NEW k \in 1..n, NEW l \in 1..n,
               NEW j \in DOMAIN text[k].specs, NEW m \in DOMAIN text[l].specs,
               text[k].specs[j].id = text[l].specs[m].id
        PROVE  k = l /\ j = m
    <3>1. j \in 1..Len(ds[k].specs) /\ m \in 1..Len(ds[l].specs)
      BY <2>3
    <3>2. ds[k].specs[j].id = ds[l].specs[m].id
      BY <1>7, <2>4, <3>1
    <3>3. \A a \in 1..n, b \in 1..n :
            \A c \in 1..Len(ds[a].specs), d \in 1..Len(ds[b].specs) :
              ds[a].specs[c].id = ds[b].specs[d].id => a = b /\ c = d
      BY <1>1 DEF Unique
    <3> QED  BY <3>1, <3>2, <3>3
  <2>5. \A k \in 1..n : text[k].tok = "func" => text[k].specs = <<>> /\ ~text[k].paren /\ text[k].h > 0
    BY <1>7
  <2> QED  BY <1>6, <2>1, <2>2, <2>4, <2>5 DEF IsText
<1>9. SameSpecs(ds, text)
  BY <1>1, <1>6, <1>7 DEF SameSpecs, IdsOf
<1> QED  BY <1>1, <1>6, <1>7, <1>8, <1>9 DEF text

------------------------------------------------------------------------------
(* Joining *)

\* A sequence and what is before the last of it.
LEMMA LastIs ==
  ASSUME NEW S, NEW seq \in Seq(S), seq # <<>>, NEW n, n = Len(seq)
  PROVE  LET front == SubSeq(seq, 1, n - 1)
         IN  /\ n \in Nat /\ n >= 1 /\ front \in Seq(S) /\ Len(front) = n - 1
             /\ \A l \in 1..(n - 1) : front[l] = seq[l]
             /\ seq[n] \in S /\ seq = Append(front, seq[n])
<1> DEFINE front == SubSeq(seq, 1, n - 1)
<1>1. n \in Nat /\ n >= 1
  BY EmptySeq
<1>2. n \in 1..n /\ \A l \in 1..(n - 1) : l \in 1..n
  BY <1>1
<1>3. \A l \in 1..n : seq[l] \in S
  BY SeqFacts
<1>4. /\ front \in Seq(S) /\ Len(front) = n - 1
      /\ \A l \in 1..(n - 1) : front[l] = seq[l]
  <2>1. \A l \in 1..(n - 1) : seq[l] \in S
    BY <1>2, <1>3
  <2>2. 1 \in Int /\ n - 1 \in Int /\ (n - 1) - 1 + 1 = n - 1
    BY <1>1
  <2>3. /\ front \in Seq(S)
        /\ Len(front) = IF 1 <= n - 1 THEN (n - 1) - 1 + 1 ELSE 0
        /\ \A l \in 1..((n - 1) - 1 + 1) : front[l] = seq[1 + l - 1]
    BY <2>1, <2>2, SubSeqProperties
  <2>4. \A l \in 1..(n - 1) : 1 + l - 1 = l
    BY <1>1
  <2> HIDE DEF front
  <2> QED  BY <1>1, <2>2, <2>3, <2>4
<1> HIDE DEF front
<1>5. seq[n] \in S
  BY <1>2, <1>3
<1>6. seq = Append(front, seq[n])
  <2> DEFINE again == Append(front, seq[n])
  <2>1. front \in [1..(n - 1) -> S]
    BY <1>4, LenProperties
  <2>2. again \in Seq(S) /\ Len(again) = n
    BY <1>1, <1>4, <1>5
  <2>3. \A l \in 1..n : again[l] = seq[l]
    <3> TAKE l \in 1..n
    <3>1. CASE l = n
      BY <1>1, <1>4, <2>1, <3>1
    <3>2. CASE l # n
      <4>1. l \in 1..(n - 1)
        BY <1>1, <3>2
      <4>2. again[l] = front[l]
        BY <1>1, <1>4, <2>1, <4>1
      <4> QED  BY <1>4, <4>1, <4>2
    <3> QED  BY <3>1, <3>2
  <2> HIDE DEF again
  <2>4. again = seq
    BY <2>2, <2>3, SeqEqual
  <2> QED  BY <2>4 DEF again
<1> QED  BY <1>1, <1>4, <1>5, <1>6 DEF front

\* Another one in the place of the last.
LEMMA LastChanged ==
  ASSUME NEW S, NEW seq \in Seq(S), seq # <<>>, NEW n, n = Len(seq), NEW e \in S
  PROVE  /\ [seq EXCEPT ![n] = e] \in Seq(S) /\ Len([seq EXCEPT ![n] = e]) = n
         /\ [seq EXCEPT ![n] = e] = Append(SubSeq(seq, 1, n - 1), e)
<1> DEFINE front == SubSeq(seq, 1, n - 1)
           es == [seq EXCEPT ![n] = e]
           again == Append(front, e)
<1>1. /\ n \in Nat /\ n >= 1 /\ front \in Seq(S) /\ Len(front) = n - 1
      /\ \A l \in 1..(n - 1) : front[l] = seq[l]
  BY LastIs
<1>2. n \in 1..Len(seq)
  BY <1>1
<1>3. es \in Seq(S) /\ Len(es) = n /\ \A l \in 1..n : es[l] = IF l = n THEN e ELSE seq[l]
  BY <1>2, ExceptSeq
<1> HIDE DEF front, es
<1>4. front \in [1..(n - 1) -> S]
  BY <1>1, LenProperties
<1>5. again \in Seq(S) /\ Len(again) = n
  BY <1>1
<1>6. \A l \in 1..n : again[l] = es[l]
  <2> TAKE l \in 1..n
  <2>1. CASE l = n
    BY <1>1, <1>3, <1>4, <2>1
  <2>2. CASE l # n
    <3>1. l \in 1..(n - 1)
      BY <1>1, <2>2
    <3>2. again[l] = front[l]
      BY <1>1, <1>4, <3>1
    <3> QED  BY <1>1, <1>3, <2>2, <3>1, <3>2
  <2> QED  BY <2>1, <2>2
<1> HIDE DEF again
<1>7. es = again
  BY <1>3, <1>5, <1>6, SeqEqual
<1> QED  BY <1>3, <1>7 DEF es, again, front

\* What is known of one more.
LEMMA AppendFacts ==
  ASSUME NEW S, NEW seq \in Seq(S), NEW e \in S, NEW n, n = Len(seq)
  PROVE  /\ n \in Nat /\ Append(seq, e) \in Seq(S) /\ Len(Append(seq, e)) = n + 1
         /\ Append(seq, e)[n + 1] = e
         /\ \A l \in 1..n : Append(seq, e)[l] = seq[l]
<1>1. n \in Nat /\ seq \in [1..n -> S]
  BY LenProperties
<1> QED  BY <1>1

\* A declaration below the others.
LEMMA TreeAppend ==
  ASSUME NEW ds, NEW d
  PROVE  /\ ds \in Seq(DeclTree) /\ d \in DeclTree /\ IsTree(Append(ds, d)) =>
              IsTree(ds) /\ IsDecl(d) /\ (ds # <<>> => ds[Len(ds)].end < d.line)
         /\ IsTree(ds) /\ d \in DeclTree /\ IsDecl(d) /\ (ds # <<>> => ds[Len(ds)].end < d.line) =>
              IsTree(Append(ds, d))
<1> DEFINE es == Append(ds, d)
<1>1. ASSUME ds \in Seq(DeclTree), d \in DeclTree, IsTree(es)
      PROVE  IsTree(ds) /\ IsDecl(d) /\ (ds # <<>> => ds[Len(ds)].end < d.line)
  <2>1. PICK n \in Nat : n = Len(ds)
    BY <1>1, SeqFacts
  <2>2. Len(es) = n + 1 /\ es[n + 1] = d /\ \A l \in 1..n : es[l] = ds[l]
    BY <1>1, <2>1, AppendFacts
  <2>3. n + 1 \in 1..(n + 1) /\ \A l \in 1..n : l \in 1..(n + 1) /\ l < n + 1
    OBVIOUS
  <2> HIDE DEF es
  <2>4. IsDecl(d)
    BY <1>1, <2>2, <2>3 DEF IsTree
  <2>5. \A l \in 1..n : IsDecl(ds[l])
    BY <1>1, <2>2, <2>3 DEF IsTree
  <2>6. \A l \in 1..n, m \in 1..n : l < m => ds[l].end < ds[m].line
    BY <1>1, <2>2, <2>3 DEF IsTree
  <2>7. \A l \in 1..n : ds[l].end < d.line
    BY <1>1, <2>2, <2>3 DEF IsTree
  <2>8. ds # <<>> => n \in 1..n
    BY <1>1, <2>1, EmptySeq
  <2> QED  BY <1>1, <2>1, <2>4, <2>5, <2>6, <2>7, <2>8 DEF IsTree
<1>2. ASSUME IsTree(ds), d \in DeclTree, IsDecl(d), ds # <<>> => ds[Len(ds)].end < d.line
      PROVE  IsTree(es)
  <2>1. PICK n \in Nat : n = Len(ds)
    BY <1>2, SeqFacts DEF IsTree
  <2>2. es \in Seq(DeclTree) /\ Len(es) = n + 1 /\ es[n + 1] = d /\ \A l \in 1..n : es[l] = ds[l]
    BY <1>2, <2>1, AppendFacts DEF IsTree
  <2>3. \A l \in 1..(n + 1) : l \in 1..n \/ l = n + 1
    OBVIOUS
  <2> HIDE DEF es
  <2>4. \A l \in 1..(n + 1) : IsDecl(es[l])
    BY <1>2, <2>1, <2>2, <2>3 DEF IsTree
  <2>5. ASSUME NEW l \in 1..n  PROVE ds[l].end < d.line
    <3>1. n \in 1..n /\ ds # <<>>
      <4>1. Len(<<>>) = 0
        OBVIOUS
      <4> QED  BY <2>1, <4>1
    <3>2. ds[n].end < d.line
      BY <1>2, <2>1, <3>1
    <3>3. /\ ds[l].end \in Nat /\ ds[n].end \in Nat /\ ds[n].line \in Nat /\ d.line \in Nat
          /\ ds[n].line <= ds[n].end
      BY <1>2, <2>1, <3>1, TreeFacts, DeclFacts DEF IsDecl
    <3>4. l # n => ds[l].end < ds[n].line
      BY <1>2, <2>1, <3>1 DEF IsTree
    <3> QED  BY <3>2, <3>3, <3>4
  <2>6. ASSUME NEW l \in 1..(n + 1), NEW m \in 1..(n + 1), l < m  PROVE es[l].end < es[m].line
    <3>1. l \in 1..n
      BY <2>6
    <3>2. CASE m = n + 1
      BY <2>2, <2>5, <3>1, <3>2
    <3>3. CASE m # n + 1
      <4>1. m \in 1..n
        BY <3>3
      <4> QED  BY <1>2, <2>1, <2>2, <2>6, <3>1, <4>1 DEF IsTree
    <3> QED  BY <3>2, <3>3
  <2> QED  BY <2>2, <2>4, <2>6 DEF IsTree
<1> QED  BY <1>1, <1>2

\* Its specs are none of those before.
LEMMA UniqueAppend ==
  ASSUME NEW S, NEW ds \in Seq(S), NEW d \in S
  PROVE  Unique(Append(ds, d)) <=> Unique(ds) /\ Distinct(d) /\ Range(IdsOf(d)) \cap SpecIds(ds) = {}
<1> DEFINE es == Append(ds, d)
<1>1. PICK n \in Nat : n = Len(ds)
  BY SeqFacts
<1>2. Len(es) = n + 1 /\ es[n + 1] = d /\ \A l \in 1..n : es[l] = ds[l]
  BY <1>1, AppendFacts
<1>3. /\ n + 1 \in 1..(n + 1)
      /\ \A l \in 1..n : l \in 1..(n + 1) /\ l # n + 1
      /\ \A l \in 1..(n + 1) : l \in 1..n \/ l = n + 1
  OBVIOUS
<1> HIDE DEF es
<1>4. SpecIds(ds) = UNION {Range(IdsOf(ds[k])) : k \in 1..n}
  BY <1>1 DEF SpecIds
<1>5. \A e : Range(IdsOf(e)) = {e.specs[j].id : j \in 1..Len(e.specs)}
  BY DEF Range, IdsOf
<1>6. ASSUME Unique(es)  PROVE Unique(ds) /\ Distinct(d) /\ Range(IdsOf(d)) \cap SpecIds(ds) = {}
  <2>1. \A k \in 1..(n + 1), l \in 1..(n + 1) :
          \A j \in 1..Len(es[k].specs), m \in 1..Len(es[l].specs) :
            es[k].specs[j].id = es[l].specs[m].id => k = l /\ j = m
    BY <1>2, <1>6 DEF Unique
  <2>2. Unique(ds)
    BY <1>1, <1>2, <1>3, <2>1, SMTT(30) DEF Unique
  <2>3. Distinct(d)
    BY <1>2, <1>3, <2>1 DEF Distinct
  <2>4. ASSUME NEW x \in Range(IdsOf(d)), x \in SpecIds(ds)  PROVE FALSE
    <3>1. PICK j \in 1..Len(d.specs) : x = d.specs[j].id
      BY <1>5
    <3>2. PICK k \in 1..n : x \in Range(IdsOf(ds[k]))
      BY <1>4, <2>4
    <3>3. PICK m \in 1..Len(ds[k].specs) : x = ds[k].specs[m].id
      BY <1>5, <3>2
    <3>4. es[k] = ds[k] /\ k \in 1..(n + 1) /\ k # n + 1
      BY <1>2, <1>3
    <3>5. /\ j \in 1..Len(es[n + 1].specs) /\ m \in 1..Len(es[k].specs)
          /\ es[n + 1].specs[j].id = es[k].specs[m].id
      BY <1>2, <3>1, <3>3, <3>4
    <3> QED  BY <1>3, <2>1, <3>4, <3>5
  <2> QED  BY <2>2, <2>3, <2>4
<1>7. ASSUME Unique(ds), Distinct(d), Range(IdsOf(d)) \cap SpecIds(ds) = {}  PROVE Unique(es)
  <2>1. \A k \in 1..n, l \in 1..n :
          \A j \in 1..Len(ds[k].specs), m \in 1..Len(ds[l].specs) :
            ds[k].specs[j].id = ds[l].specs[m].id => k = l /\ j = m
    BY <1>1, <1>7 DEF Unique
  <2>2. \A j \in 1..Len(d.specs), m \in 1..Len(d.specs) : d.specs[j].id = d.specs[m].id => j = m
    BY <1>7 DEF Distinct
  <2>3. ASSUME NEW k \in 1..n, NEW j \in 1..Len(ds[k].specs), NEW m \in 1..Len(d.specs)
        PROVE  ds[k].specs[j].id # d.specs[m].id
    <3>1. ds[k].specs[j].id \in SpecIds(ds)
      BY <1>4, <1>5
    <3>2. d.specs[m].id \in Range(IdsOf(d))
      BY <1>5
    <3> QED  BY <1>7, <3>1, <3>2
  <2>4. ASSUME NEW k \in 1..(n + 1), NEW l \in 1..(n + 1),
               NEW j \in 1..Len(es[k].specs), NEW m \in 1..Len(es[l].specs),
               es[k].specs[j].id = es[l].specs[m].id
        PROVE  k = l /\ j = m
    <3>1. CASE k \in 1..n /\ l \in 1..n
      <4>1. es[k] = ds[k] /\ es[l] = ds[l]
        BY <1>2, <3>1
      <4>2. /\ j \in 1..Len(ds[k].specs) /\ m \in 1..Len(ds[l].specs)
            /\ ds[k].specs[j].id = ds[l].specs[m].id
        BY <2>4, <4>1
      <4>3. k \in 1..n /\ l \in 1..n
        BY <3>1
      <4> QED  BY ONLY <2>1, <4>2, <4>3
    <3>2. CASE k \in 1..n /\ l = n + 1
      <4>1. es[k] = ds[k] /\ es[l] = d
        BY <1>2, <3>2
      <4> QED  BY <2>3, <2>4, <3>2, <4>1
    <3>3. CASE k = n + 1 /\ l \in 1..n
      <4>1. es[k] = d /\ es[l] = ds[l]
        BY <1>2, <3>3
      <4> QED  BY <2>3, <2>4, <3>3, <4>1
    <3>4. CASE k = n + 1 /\ l = n + 1
      <4>1. es[k] = d /\ es[l] = d
        BY <1>2, <3>4
      <4> QED  BY <2>2, <2>4, <3>4, <4>1
    <3> QED  BY <1>3, <3>1, <3>2, <3>3, <3>4
  <2> QED  BY <1>2, <2>4 DEF Unique
<1> QED  BY <1>6, <1>7 DEF es

\* The first declarations of a tree.
Prefix(ds, k) == SubSeq(ds, 1, k)

LEMMA PrefixIs ==
  ASSUME NEW ds, IsTree(ds), Unique(ds), NEW k \in 0..Len(ds)
  PROVE  /\ Prefix(ds, k) \in Seq(DeclTree) /\ IsTree(Prefix(ds, k)) /\ Unique(Prefix(ds, k))
         /\ Len(Prefix(ds, k)) = k /\ \A l \in 1..k : Prefix(ds, k)[l] = ds[l]
         /\ k = Len(ds) => Prefix(ds, k) = ds
         /\ k < Len(ds) => Prefix(ds, k + 1) = Append(Prefix(ds, k), ds[k + 1])
<1>1. PICK n \in Nat : n = Len(ds)
  BY SeqFacts DEF IsTree
<1>2. ASSUME NEW m \in 0..n
      PROVE  /\ Prefix(ds, m) \in Seq(DeclTree) /\ Len(Prefix(ds, m)) = m
             /\ \A l \in 1..m : Prefix(ds, m)[l] = ds[l]
  <2>1. \A l \in 1..m : ds[l] \in DeclTree
    <3>1. \A l \in 1..m : l \in 1..n
      OBVIOUS
    <3> QED  BY <1>1, <3>1, TreeFacts
  <2>2. 1 \in Int /\ m \in Int /\ m - 1 + 1 = m
    OBVIOUS
  <2>3. /\ Prefix(ds, m) \in Seq(DeclTree)
        /\ Len(Prefix(ds, m)) = IF 1 <= m THEN m - 1 + 1 ELSE 0
        /\ \A l \in 1..(m - 1 + 1) : Prefix(ds, m)[l] = ds[1 + l - 1]
    BY <2>1, <2>2, SubSeqProperties DEF Prefix
  <2>4. \A l \in 1..m : 1 + l - 1 = l
    OBVIOUS
  <2> QED  BY <2>2, <2>3, <2>4
<1>3. k \in 0..n /\ \A l \in 1..k : l \in 1..n
  BY <1>1
<1> DEFINE es == Prefix(ds, k)
<1>4. es \in Seq(DeclTree) /\ Len(es) = k /\ \A l \in 1..k : es[l] = ds[l]
  BY <1>2, <1>3
<1> HIDE DEF es
<1>5. IsTree(es)
  <2>1. \A l \in 1..k : IsDecl(es[l])
    BY <1>1, <1>3, <1>4 DEF IsTree
  <2>2. \A l \in 1..k, m \in 1..k : l < m => es[l].end < es[m].line
    BY <1>1, <1>3, <1>4 DEF IsTree
  <2> QED  BY <1>4, <2>1, <2>2 DEF IsTree
<1>6. Unique(es)
  BY <1>1, <1>3, <1>4, SMTT(30) DEF Unique
<1>7. k = n => es = ds
  BY <1>1, <1>4, SeqEqual DEF IsTree
<1>8. k < n => Prefix(ds, k + 1) = Append(es, ds[k + 1])
  <2> SUFFICES ASSUME k < n  PROVE Prefix(ds, k + 1) = Append(es, ds[k + 1])
    OBVIOUS
  <2> DEFINE more == Prefix(ds, k + 1)
             again == Append(es, ds[k + 1])
  <2>1. k + 1 \in 0..n /\ k + 1 \in 1..n /\ k + 1 \in 1..(k + 1)
    BY <1>3
  <2>2. more \in Seq(DeclTree) /\ Len(more) = k + 1 /\ \A l \in 1..(k + 1) : more[l] = ds[l]
    BY <1>2, <2>1
  <2>3. ds[k + 1] \in DeclTree
    BY <1>1, <2>1, TreeFacts
  <2>4. again \in Seq(DeclTree) /\ Len(again) = k + 1 /\ again[k + 1] = ds[k + 1] /\ \A l \in 1..k : again[l] = es[l]
    BY <1>4, <2>3, AppendFacts
  <2>5. \A l \in 1..(k + 1) : l \in 1..k \/ l = k + 1
    BY <1>3
  <2> HIDE DEF more, again
  <2>6. \A l \in 1..(k + 1) : more[l] = again[l]
    BY <1>4, <2>2, <2>4, <2>5
  <2>7. more = again
    BY <2>2, <2>4, <2>6, SeqEqual
  <2> QED  BY <2>7 DEF more, again
<1> QED  BY <1>1, <1>4, <1>5, <1>6, <1>7, <1>8 DEF es

\* The group has its own specs and below them those of the declaration.
\* e is g with the specs of c after its own.
IsContinued(g, c, e) ==
  /\ e \in DeclTree /\ IsDecl(e)
  /\ e.tok = g.tok /\ e.paren = g.paren /\ e.doc = g.doc /\ e.line = g.line /\ e.end = c.end
  /\ e.wide = g.wide /\ e.tall = g.tall
  /\ Len(e.specs) = Len(g.specs) + Len(c.specs)
  /\ \A j \in 1..Len(g.specs) : e.specs[j] = g.specs[j]
  /\ \A j \in 1..Len(c.specs) :
       /\ e.specs[Len(g.specs) + j].id = c.specs[j].id
       /\ e.specs[Len(g.specs) + j].iota = c.specs[j].iota
       /\ e.specs[Len(g.specs) + j].line = c.specs[j].line
       /\ e.specs[Len(g.specs) + j].end = c.specs[j].end
       /\ e.specs[Len(g.specs) + j].doc = IF j = 1 /\ c.doc # "none" THEN c.doc ELSE c.specs[j].doc

LEMMA ContinuedIs ==
  ASSUME NEW g \in DeclTree, NEW c \in DeclTree, IsDecl(g), IsDecl(c),
         g.end < c.line, g.tok # "func"
  PROVE  IsContinued(g, c, Continued(g, c)) /\ IdsOf(Continued(g, c)) = IdsOf(g) \o IdsOf(c)
<1>1. PICK n \in Nat, m \in Nat : n = Len(g.specs) /\ m = Len(c.specs)
  BY DeclFacts
<1> DEFINE doc(j) == IF j = 1 /\ c.doc # "none" THEN c.doc ELSE c.specs[j].doc
           spec(j) == IF j = 1 /\ c.doc # "none" THEN [c.specs[1] EXCEPT !.doc = c.doc] ELSE c.specs[j]
           specs == [j \in 1..m |-> spec(j)]
           all == g.specs \o specs
           e == Continued(g, c)
<1>2. g.specs \in Seq(SpecTree) /\ c.doc \in Docs /\ \A j \in 1..m : c.specs[j] \in SpecTree
  BY <1>1, DeclFacts
<1>3. ASSUME NEW j \in 1..m
      PROVE  /\ spec(j) \in SpecTree /\ spec(j).id = c.specs[j].id /\ spec(j).iota = c.specs[j].iota
             /\ spec(j).line = c.specs[j].line /\ spec(j).end = c.specs[j].end /\ spec(j).doc = doc(j)
  <2>1. c.specs[j] \in SpecTree
    BY <1>2
  <2> QED  BY <1>2, <2>1 DEF SpecTree
<1>4. specs \in Seq(SpecTree) /\ Len(specs) = m /\ \A j \in 1..m : specs[j] = spec(j)
  <2> HIDE DEF spec
  <2>1. specs \in [1..m -> SpecTree]
    BY <1>3
  <2>2. \A j \in 1..m : specs[j] = spec(j)
    OBVIOUS
  <2> HIDE DEF specs
  <2> QED  BY <2>1, <2>2, FunctionIsSeq
<1>5. e = [g EXCEPT !.specs = all, !.end = c.end]
  BY <1>1 DEF Continued
<1> HIDE DEF specs, spec, doc
<1>6. /\ all \in Seq(SpecTree) /\ Len(all) = n + m
      /\ \A j \in 1..(n + m) : all[j] = IF j <= n THEN g.specs[j] ELSE specs[j - n]
  <2>1. Len(g.specs) = n /\ Len(specs) = m /\ g.specs \in Seq(SpecTree) /\ specs \in Seq(SpecTree)
    BY <1>1, <1>2, <1>4
  <2>2. /\ g.specs \o specs \in Seq(SpecTree) /\ Len(g.specs \o specs) = Len(g.specs) + Len(specs)
        /\ \A j \in 1..(Len(g.specs) + Len(specs)) :
             (g.specs \o specs)[j] = IF j <= Len(g.specs) THEN g.specs[j] ELSE specs[j - Len(g.specs)]
    BY ONLY <2>1, ConcatProperties
  <2> QED  BY <2>1, <2>2
<1> HIDE DEF all, e
<1>7. \A j \in 1..n : all[j] = g.specs[j]
  <2> TAKE j \in 1..n
  <2>1. j \in 1..(n + m) /\ j <= n
    OBVIOUS
  <2> QED  BY <1>6, <2>1
<1>8. \A j \in 1..m : all[n + j] = spec(j)
  <2> TAKE j \in 1..m
  <2>1. n + j \in 1..(n + m) /\ ~ (n + j <= n) /\ (n + j) - n = j
    OBVIOUS
  <2> QED  BY <1>4, <1>6, <2>1
<1>9. /\ e \in DeclTree /\ e.specs = all
      /\ e.tok = g.tok /\ e.paren = g.paren /\ e.doc = g.doc /\ e.line = g.line /\ e.end = c.end
      /\ e.wide = g.wide /\ e.tall = g.tall
  BY <1>5, <1>6, DeclFacts DEF DeclTree
<1>10. \A j \in 1..n : e.specs[j] = g.specs[j]
  BY <1>7, <1>9
<1>11. \A j \in 1..m : /\ e.specs[n + j].id = c.specs[j].id /\ e.specs[n + j].iota = c.specs[j].iota
                       /\ e.specs[n + j].line = c.specs[j].line /\ e.specs[n + j].end = c.specs[j].end
                       /\ e.specs[n + j].doc = doc(j)
  BY <1>3, <1>8, <1>9
<1>12. Len(e.specs) = n + m
  BY <1>6, <1>9
<1>13. /\ g.line \in Nat /\ g.end \in Nat /\ c.line \in Nat /\ c.end \in Nat
       /\ g.line <= g.end /\ c.line <= c.end /\ g.line >= 1
       /\ \A j \in 1..n : /\ g.specs[j].line \in Nat /\ g.specs[j].end \in Nat
                          /\ g.line <= g.specs[j].line /\ g.specs[j].line <= g.specs[j].end
                          /\ g.specs[j].end <= g.end
       /\ \A j \in 1..m : /\ c.specs[j].line \in Nat /\ c.specs[j].end \in Nat
                          /\ c.line <= c.specs[j].line /\ c.specs[j].line <= c.specs[j].end
                          /\ c.specs[j].end <= c.end
  BY <1>1, DeclFacts DEF IsDecl
<1>14. \A j \in 1..(n + m) : j \in 1..n \/ (j - n \in 1..m /\ n + (j - n) = j)
  OBVIOUS
<1>15. ASSUME NEW j \in 1..(n + m)
       PROVE  /\ e.specs[j].line \in Nat /\ e.specs[j].end \in Nat
              /\ e.line <= e.specs[j].line /\ e.specs[j].line <= e.specs[j].end /\ e.specs[j].end <= e.end
              /\ j \in 1..n => e.specs[j].end <= g.end
              /\ j \notin 1..n => c.line <= e.specs[j].line
  <2>1. CASE j \in 1..n
    BY <1>9, <1>10, <1>13, <2>1
  <2>2. CASE j \notin 1..n
    <3>1. PICK k \in 1..m : j = n + k
      BY <1>14, <2>2
    <3>2. e.specs[j].line = c.specs[k].line /\ e.specs[j].end = c.specs[k].end
      BY <1>11, <3>1
    <3> QED  BY <1>9, <1>13, <2>2, <3>2
  <2> QED  BY <2>1, <2>2
<1>16. ASSUME NEW j \in 1..(n + m), NEW k \in 1..(n + m), j < k  PROVE e.specs[j].end < e.specs[k].line
  <2>1. CASE j \in 1..n /\ k \in 1..n
    <3>1. g.specs[j].end < g.specs[k].line
      BY <1>1, <1>16, <2>1 DEF IsDecl
    <3> QED  BY <1>10, <2>1, <3>1
  <2>2. CASE j \in 1..n /\ k \notin 1..n
    <3>1. /\ e.specs[j].end \in Nat /\ e.specs[k].line \in Nat
          /\ e.specs[j].end <= g.end /\ c.line <= e.specs[k].line
      BY <1>15, <2>2
    <3> QED  BY <1>13, <3>1
  <2>3. CASE j \notin 1..n /\ k \notin 1..n
    <3>1. PICK p \in 1..m : j = n + p
      BY <1>14, <2>3
    <3>2. PICK q \in 1..m : k = n + q
      BY <1>14, <2>3
    <3>3. p < q
      BY <1>16, <3>1, <3>2
    <3>4. c.specs[p].end < c.specs[q].line
      BY <1>1, <3>3 DEF IsDecl
    <3>5. e.specs[j].end = c.specs[p].end
      BY <1>11, <3>1
    <3>6. e.specs[k].line = c.specs[q].line
      BY <1>11, <3>2
    <3> QED  BY <3>4, <3>5, <3>6
  <2>4. j \in 1..n \/ k \notin 1..n
    BY <1>16
  <2> QED  BY <2>1, <2>2, <2>3, <2>4
<1>17. IsDecl(e)
  <2>1. e.line >= 1 /\ e.line <= e.end
    BY <1>9, <1>13
  <2> QED  BY <1>9, <1>12, <1>15, <1>16, <2>1 DEF IsDecl
<1>18. IdsOf(e) = IdsOf(g) \o IdsOf(c)
  <2> DEFINE ids == IdsOf(g) \o IdsOf(c)
  <2>1. IdsOf(g) \in Seq(Int) /\ Len(IdsOf(g)) = n /\ \A j \in 1..n : IdsOf(g)[j] = g.specs[j].id
    <3>1. IdsOf(g) \in [1..n -> Int] /\ \A j \in 1..n : IdsOf(g)[j] = g.specs[j].id
      BY <1>1, DeclFacts DEF IdsOf
    <3> QED  BY <3>1, FunctionIsSeq
  <2>2. IdsOf(c) \in Seq(Int) /\ Len(IdsOf(c)) = m /\ \A j \in 1..m : IdsOf(c)[j] = c.specs[j].id
    <3>1. IdsOf(c) \in [1..m -> Int] /\ \A j \in 1..m : IdsOf(c)[j] = c.specs[j].id
      BY <1>1, DeclFacts DEF IdsOf
    <3> QED  BY <3>1, FunctionIsSeq
  <2>3. IdsOf(e) \in Seq(Int) /\ Len(IdsOf(e)) = n + m /\ \A j \in 1..(n + m) : IdsOf(e)[j] = e.specs[j].id
    <3>1. IdsOf(e) \in [1..(n + m) -> Int] /\ \A j \in 1..(n + m) : IdsOf(e)[j] = e.specs[j].id
      BY <1>9, <1>12, DeclFacts DEF IdsOf
    <3>2. n + m \in Nat
      OBVIOUS
    <3> QED  BY <3>1, <3>2, FunctionIsSeq
  <2>4. /\ ids \in Seq(Int) /\ Len(ids) = n + m
        /\ \A j \in 1..(n + m) : ids[j] = IF j <= n THEN IdsOf(g)[j] ELSE IdsOf(c)[j - n]
    <3> DEFINE first  == IdsOf(g)
               second == IdsOf(c)
    <3>1. first \in Seq(Int) /\ second \in Seq(Int) /\ Len(first) = n /\ Len(second) = m
      BY <2>1, <2>2
    <3>2. ids = first \o second
      OBVIOUS
    <3> HIDE DEF first, second, ids
    <3>3. /\ first \o second \in Seq(Int) /\ Len(first \o second) = Len(first) + Len(second)
          /\ \A j \in 1..(Len(first) + Len(second)) :
               (first \o second)[j] = IF j <= Len(first) THEN first[j] ELSE second[j - Len(first)]
      BY ONLY <3>1, ConcatProperties
    <3>4. /\ ids \in Seq(Int) /\ Len(ids) = n + m
          /\ \A j \in 1..(n + m) : ids[j] = IF j <= n THEN first[j] ELSE second[j - n]
      BY <3>1, <3>2, <3>3
    <3> QED  BY <3>4 DEF first, second
  <2> HIDE DEF ids
  <2>5. ASSUME NEW j \in 1..(n + m)  PROVE IdsOf(e)[j] = ids[j]
    <3>1. CASE j \in 1..n
      <4>1. j <= n /\ j \in 1..(n + m)
        BY <3>1
      <4>2. IdsOf(e)[j] = e.specs[j].id /\ e.specs[j] = g.specs[j]
        BY <1>10, <2>3, <3>1
      <4>3. IdsOf(g)[j] = g.specs[j].id
        BY <2>1, <3>1
      <4>4. ids[j] = IdsOf(g)[j]
        BY <2>4, <4>1
      <4> QED  BY <4>2, <4>3, <4>4
    <3>2. CASE j \notin 1..n
      <4>1. PICK k \in 1..m : j = n + k
        BY <1>14, <3>2
      <4>2. ~ (j <= n) /\ j - n = k
        BY <4>1
      <4>3. e.specs[j].id = c.specs[k].id
        BY <1>11, <4>1
      <4> QED  BY <2>2, <2>3, <2>4, <4>2, <4>3
    <3> QED  BY <3>1, <3>2
  <2>6. IdsOf(e) = ids
    BY <2>3, <2>4, <2>5, SeqEqual
  <2> QED  BY <2>6 DEF ids
<1>19. IsContinued(g, c, e)
  BY <1>1, <1>9, <1>10, <1>11, <1>12, <1>17 DEF doc, IsContinued
<1> QED  BY <1>18, <1>19 DEF e

LEMMA IdListsTyped ==
  ASSUME NEW ds, IsTree(ds)
  PROVE  /\ OtherIds(ds) \in Seq(Int)
         /\ \A k \in 1..Len(ds) : IdsOf(ds[k]) \in Seq(Int) /\ Others(ds[k]) \in Seq(Int)
<1>1. HasIds(ds)
  BY TreeHasIds
<1> DEFINE others == [k \in 1..Len(ds) |-> Others(ds[k])]
<1>2. OtherIds(ds) = FlattenSeq(others) /\ others \in Seq(Seq(Int))
  BY <1>1, IdsAre
<1>3. \A k \in 1..Len(ds) : IdsOf(ds[k]) \in Seq(Int) /\ Others(ds[k]) \in Seq(Int)
  BY <1>1, IdsAre
<1> HIDE DEF others
<1>4. OtherIds(ds) \in Seq(Int)
  BY <1>2, FlattenTyped
<1> QED  BY <1>3, <1>4

\* Merging two declarations, with what was said of one more.
LEMMA IdsMerged ==
  ASSUME NEW g, NEW c, NEW e, IdsOf(g) \in Seq(Int), IdsOf(c) \in Seq(Int),
         Len(g.specs) \in Nat, Len(c.specs) \in Nat, Len(e.specs) \in Nat,
         IdsOf(e) = IdsOf(g) \o IdsOf(c), c.tok = g.tok, e.tok = g.tok
  PROVE  /\ Others(e) = Others(g) \o Others(c)
         /\ Range(IdsOf(e)) = Range(IdsOf(g)) \cup Range(IdsOf(c))
         /\ Distinct(g) /\ Distinct(c) /\ Range(IdsOf(g)) \cap Range(IdsOf(c)) = {} => Distinct(e)
<1>1. Others(e) = Others(g) \o Others(c)
  <2>1. <<>> \o <<>> = <<>>
    BY EmptySeq, ConcatEmptySeq
  <2> QED  BY <2>1 DEF Others
<1>2. Range(IdsOf(e)) = Range(IdsOf(g)) \cup Range(IdsOf(c))
  BY RangeConcat
<1>3. PICK n \in Nat, m \in Nat : n = Len(g.specs) /\ m = Len(c.specs)
  OBVIOUS
<1>4. /\ Len(IdsOf(g)) = n /\ \A j \in 1..n : IdsOf(g)[j] = g.specs[j].id
      /\ Len(IdsOf(c)) = m /\ \A j \in 1..m : IdsOf(c)[j] = c.specs[j].id
  <2>1. DOMAIN IdsOf(g) = 1..n /\ DOMAIN IdsOf(c) = 1..m
    BY <1>3 DEF IdsOf
  <2>2. \A j \in 1..n : IdsOf(g)[j] = g.specs[j].id
    BY <1>3 DEF IdsOf
  <2>3. \A j \in 1..m : IdsOf(c)[j] = c.specs[j].id
    BY <1>3 DEF IdsOf
  <2>4. Len(IdsOf(g)) \in Nat /\ Len(IdsOf(c)) \in Nat
        /\ 1..Len(IdsOf(g)) = 1..n /\ 1..Len(IdsOf(c)) = 1..m
    BY <2>1, SeqFacts
  <2>5. Len(IdsOf(g)) = n /\ Len(IdsOf(c)) = m
    BY <2>4
  <2> QED  BY <2>2, <2>3, <2>5
<1>5. /\ Len(e.specs) = n + m
      /\ \A j \in 1..(n + m) : e.specs[j].id = IF j <= n THEN g.specs[j].id ELSE c.specs[j - n].id
  <2> DEFINE ids == IdsOf(e)
  <2>1. /\ ids \in Seq(Int) /\ Len(ids) = n + m
        /\ \A j \in 1..(n + m) : ids[j] = IF j <= n THEN IdsOf(g)[j] ELSE IdsOf(c)[j - n]
    <3> DEFINE first  == IdsOf(g)
               second == IdsOf(c)
    <3>1. first \in Seq(Int) /\ second \in Seq(Int) /\ Len(first) = n /\ Len(second) = m
      BY <1>4
    <3>2. ids = first \o second
      OBVIOUS
    <3> HIDE DEF first, second, ids
    <3>3. /\ first \o second \in Seq(Int) /\ Len(first \o second) = Len(first) + Len(second)
          /\ \A j \in 1..(Len(first) + Len(second)) :
               (first \o second)[j] = IF j <= Len(first) THEN first[j] ELSE second[j - Len(first)]
      BY ONLY <3>1, ConcatProperties
    <3>4. /\ ids \in Seq(Int) /\ Len(ids) = n + m
          /\ \A j \in 1..(n + m) : ids[j] = IF j <= n THEN first[j] ELSE second[j - n]
      BY <3>1, <3>2, <3>3
    <3> QED  BY <3>4 DEF first, second
  <2>2. DOMAIN ids = 1..Len(e.specs) /\ \A j \in 1..Len(e.specs) : ids[j] = e.specs[j].id
    BY DEF IdsOf
  <2> HIDE DEF ids
  <2>3. 1..Len(e.specs) = 1..(n + m)
    BY <2>1, <2>2, SeqFacts
  <2>4. Len(e.specs) = n + m
    BY <2>3
  <2>5. \A j \in 1..(n + m) : j <= n => j \in 1..n
    OBVIOUS
  <2>6. \A j \in 1..(n + m) : ~ (j <= n) => j - n \in 1..m
    OBVIOUS
  <2>7. ASSUME NEW j \in 1..(n + m)
        PROVE  e.specs[j].id = IF j <= n THEN g.specs[j].id ELSE c.specs[j - n].id
    <3>1. ids[j] = e.specs[j].id
      BY <2>2, <2>4
    <3>2. ids[j] = IF j <= n THEN IdsOf(g)[j] ELSE IdsOf(c)[j - n]
      BY <2>1
    <3>3. CASE j <= n
      BY <1>4, <2>5, <3>1, <3>2, <3>3
    <3>4. CASE ~ (j <= n)
      BY <1>4, <2>6, <3>1, <3>2, <3>4
    <3> QED  BY <3>3, <3>4
  <2> QED  BY <2>4, <2>7
<1>6. ASSUME Distinct(g), Distinct(c), Range(IdsOf(g)) \cap Range(IdsOf(c)) = {}  PROVE Distinct(e)
  <2> SUFFICES ASSUME NEW x \in 1..(n + m), NEW y \in 1..(n + m), e.specs[x].id = e.specs[y].id
               PROVE  x = y
    BY <1>5 DEF Distinct
  <2>1. \A j \in 1..n : g.specs[j].id \in Range(IdsOf(g))
    BY <1>3 DEF Range, IdsOf
  <2>2. \A j \in 1..m : c.specs[j].id \in Range(IdsOf(c))
    BY <1>3 DEF Range, IdsOf
  <2>3. \A a \in 1..n, b \in 1..m : g.specs[a].id # c.specs[b].id
    BY <1>6, <2>1, <2>2
  <2>4. /\ e.specs[x].id = IF x <= n THEN g.specs[x].id ELSE c.specs[x - n].id
        /\ e.specs[y].id = IF y <= n THEN g.specs[y].id ELSE c.specs[y - n].id
    BY <1>5
  <2>5. (x <= n => x \in 1..n) /\ (~ (x <= n) => x - n \in 1..m)
    OBVIOUS
  <2>6. (y <= n => y \in 1..n) /\ (~ (y <= n) => y - n \in 1..m)
    OBVIOUS
  <2>7. CASE x <= n /\ y <= n
    <3>1. g.specs[x].id = g.specs[y].id /\ x \in 1..n /\ y \in 1..n
      BY <2>4, <2>5, <2>6, <2>7
    <3> QED  BY <1>3, <1>6, <3>1 DEF Distinct
  <2>8. CASE ~ (x <= n) /\ ~ (y <= n)
    <3>1. c.specs[x - n].id = c.specs[y - n].id /\ x - n \in 1..m /\ y - n \in 1..m
      BY <2>4, <2>5, <2>6, <2>8
    <3>2. x - n = y - n
      BY <1>3, <1>6, <3>1 DEF Distinct
    <3> QED  BY <3>2
  <2>9. CASE x <= n /\ ~ (y <= n)
    BY <2>3, <2>4, <2>5, <2>6, <2>9
  <2>10. CASE ~ (x <= n) /\ y <= n
    BY <2>3, <2>4, <2>5, <2>6, <2>10
  <2> QED  BY <2>7, <2>8, <2>9, <2>10
<1> QED  BY <1>1, <1>2, <1>6

\* new holds the specs of the first k declarations.
JoinedSo(ds, k, ns) ==
  /\ IsTree(ns) /\ Unique(ns)
  /\ SpecIds(ns) = SpecIds(Prefix(ds, k))
  /\ OtherIds(ns) = OtherIds(Prefix(ds, k))
  /\ ns # <<>> => k >= 1 /\ ns[Len(ns)].end = ds[k].end

\* What the next declaration is to those before it.
LEMMA NextDecl ==
  ASSUME NEW ds, IsTree(ds), Unique(ds), NEW k \in Nat, k < Len(ds), NEW ns, JoinedSo(ds, k, ns)
  PROVE  LET c == ds[k + 1]
         IN  /\ c \in DeclTree /\ IsDecl(c) /\ Distinct(c)
             /\ ns # <<>> => ns[Len(ns)].end < c.line
             /\ Range(IdsOf(c)) \cap SpecIds(ns) = {}
             /\ SpecIds(Prefix(ds, k + 1)) = SpecIds(ns) \cup Range(IdsOf(c))
             /\ OtherIds(Prefix(ds, k + 1)) = OtherIds(ns) \o Others(c)
<1> DEFINE c == ds[k + 1]
           p == Prefix(ds, k)
<1>1. PICK n \in Nat : n = Len(ds)
  BY SeqFacts DEF IsTree
<1>2. k \in 0..n /\ k + 1 \in 1..n /\ k + 1 \in 0..n
  BY <1>1
<1>3. c \in DeclTree /\ IsDecl(c)
  BY <1>1, <1>2, TreeFacts
<1>4. /\ p \in Seq(DeclTree) /\ IsTree(p) /\ Prefix(ds, k + 1) = Append(p, c)
  BY <1>1, <1>2, PrefixIs
<1>5. IsTree(Append(p, c)) /\ Unique(Append(p, c))
  BY <1>1, <1>2, <1>4, PrefixIs
<1> HIDE DEF p, c
<1>6. Distinct(c) /\ Range(IdsOf(c)) \cap SpecIds(p) = {}
  BY <1>3, <1>4, <1>5, UniqueAppend
<1>7. OtherIds(Append(p, c)) = OtherIds(p) \o Others(c) /\ SpecIds(Append(p, c)) = SpecIds(p) \cup Range(IdsOf(c))
  <2>1. HasIds(p) /\ HasIds(Append(p, c))
    BY <1>4, <1>5, TreeHasIds
  <2> QED  BY <1>3, <1>4, <2>1, OneMore
<1>8. SpecIds(ns) = SpecIds(p) /\ OtherIds(ns) = OtherIds(p)
  BY DEF JoinedSo, p
<1>9. ns # <<>> => ns[Len(ns)].end < c.line
  <2> SUFFICES ASSUME ns # <<>>  PROVE ns[Len(ns)].end < c.line
    OBVIOUS
  <2>1. k >= 1 /\ ns[Len(ns)].end = ds[k].end
    BY DEF JoinedSo
  <2>2. k \in 1..n /\ k < k + 1
    BY <1>2, <2>1
  <2>3. ds[k].end < ds[k + 1].line
    BY <1>1, <1>2, <2>2 DEF IsTree
  <2> QED  BY <2>1, <2>3 DEF c
<1> QED  BY <1>3, <1>4, <1>6, <1>7, <1>8, <1>9 DEF c

LEMMA StartKeeps ==
  ASSUME NEW ds, IsTree(ds), Unique(ds), NEW k \in Nat, k < Len(ds), NEW ns, JoinedSo(ds, k, ns)
  PROVE  JoinedSo(ds, k + 1, Append(ns, ds[k + 1]))
<1> DEFINE c == ds[k + 1]
           es == Append(ns, c)
<1>1. /\ c \in DeclTree /\ IsDecl(c) /\ Distinct(c)
      /\ ns # <<>> => ns[Len(ns)].end < c.line
      /\ Range(IdsOf(c)) \cap SpecIds(ns) = {}
      /\ SpecIds(Prefix(ds, k + 1)) = SpecIds(ns) \cup Range(IdsOf(c))
      /\ OtherIds(Prefix(ds, k + 1)) = OtherIds(ns) \o Others(c)
  BY NextDecl
<1> HIDE DEF c
<1>2. IsTree(ns) /\ Unique(ns) /\ ns \in Seq(DeclTree)
  BY DEF JoinedSo, IsTree
<1>3. IsTree(es)
  BY <1>1, <1>2, TreeAppend
<1>4. Unique(es)
  BY <1>1, <1>2, UniqueAppend
<1>5. OtherIds(es) = OtherIds(ns) \o Others(c) /\ SpecIds(es) = SpecIds(ns) \cup Range(IdsOf(c))
  <2>1. HasIds(ns) /\ HasIds(es)
    BY <1>2, <1>3, TreeHasIds
  <2> QED  BY <1>1, <1>2, <2>1, OneMore
<1>6. es[Len(es)] = c
  <2>1. PICK n \in Nat : n = Len(ns)
    BY <1>2, SeqFacts
  <2>2. Len(es) = n + 1 /\ es[n + 1] = c
    BY <1>1, <1>2, <2>1, AppendFacts
  <2> QED  BY <2>2
<1>7. k + 1 >= 1
  OBVIOUS
<1> QED  BY <1>1, <1>3, <1>4, <1>5, <1>6, <1>7 DEF JoinedSo, c

\* es is ns with e for its last.
Ends(ns, n, front, e, es) ==
  /\ IsTree(es) /\ Unique(es)
  /\ SpecIds(es) = SpecIds(front) \cup Range(IdsOf(e))
  /\ OtherIds(es) = OtherIds(front) \o Others(e)
  /\ Len(es) = n /\ es[n] = e
  /\ \A l \in 1..(n - 1) : es[l] = ns[l]

\* ns is front and one more, which may be changed for one that holds other
\* specs.
LastOf(ns, n, front) ==
  /\ n \in Nat /\ n >= 1 /\ ns[n] \in DeclTree /\ IsDecl(ns[n]) /\ Distinct(ns[n])
  /\ IsTree(front)
  /\ SpecIds(ns) = SpecIds(front) \cup Range(IdsOf(ns[n]))
  /\ Range(IdsOf(ns[n])) \cap SpecIds(front) = {}
  /\ OtherIds(ns) = OtherIds(front) \o Others(ns[n])
  /\ \A e \in DeclTree :
       IsDecl(e) /\ e.line = ns[n].line /\ Distinct(e) /\ Range(IdsOf(e)) \cap SpecIds(front) = {} =>
         Ends(ns, n, front, e, [ns EXCEPT ![n] = e])

\* So it is while they are joined.
LEMMA LastKeeps ==
  ASSUME NEW ds, NEW k, NEW ns, JoinedSo(ds, k, ns), ns # <<>>, NEW n, n = Len(ns)
  PROVE  \E front : LastOf(ns, n, front)
<1> DEFINE g     == ns[n]
           front == SubSeq(ns, 1, n - 1)
<1>1. IsTree(ns) /\ Unique(ns) /\ ns \in Seq(DeclTree)
  BY DEF JoinedSo, IsTree
<1>2. n \in Nat /\ n >= 1 /\ front \in Seq(DeclTree) /\ Len(front) = n - 1 /\ g \in DeclTree /\ ns = Append(front, g)
  BY <1>1, LastIs
<1>3. \A e \in DeclTree : [ns EXCEPT ![n] = e] = Append(front, e)
  BY <1>1, LastChanged
<1>4. \A l \in 1..(n - 1) : front[l] = ns[l]
  BY <1>1, LastIs
<1> HIDE DEF front, g
<1>5. IsTree(front) /\ IsDecl(g) /\ (front # <<>> => front[Len(front)].end < g.line)
  BY <1>1, <1>2, TreeAppend
<1>6. Unique(front) /\ Distinct(g) /\ Range(IdsOf(g)) \cap SpecIds(front) = {}
  BY <1>1, <1>2, UniqueAppend
<1>7. HasIds(front) /\ HasIds(ns)
  BY <1>1, <1>5, TreeHasIds
<1>8. OtherIds(ns) = OtherIds(front) \o Others(g) /\ SpecIds(ns) = SpecIds(front) \cup Range(IdsOf(g))
  BY <1>2, <1>7, OneMore
<1>9. ASSUME NEW e \in DeclTree,
             IsDecl(e), e.line = g.line, Distinct(e), Range(IdsOf(e)) \cap SpecIds(front) = {}
      PROVE  Ends(ns, n, front, e, Append(front, e))
  <2> DEFINE es == Append(front, e)
  <2>1. IsTree(es)
    BY <1>5, <1>9, TreeAppend
  <2>2. Unique(es)
    BY <1>2, <1>6, <1>9, UniqueAppend
  <2>3. HasIds(es)
    BY <2>1, TreeHasIds
  <2>4. SpecIds(es) = SpecIds(front) \cup Range(IdsOf(e)) /\ OtherIds(es) = OtherIds(front) \o Others(e)
    BY <1>2, <1>7, <2>3, OneMore
  <2>5. /\ n - 1 \in Nat /\ Len(es) = (n - 1) + 1 /\ es[(n - 1) + 1] = e
        /\ \A l \in 1..(n - 1) : es[l] = front[l]
    BY <1>2, AppendFacts
  <2>6. (n - 1) + 1 = n
    BY <1>2
  <2> HIDE DEF es
  <2>7. Len(es) = n /\ es[n] = e /\ \A l \in 1..(n - 1) : es[l] = ns[l]
    BY <1>4, <2>5, <2>6
  <2> QED  BY <2>1, <2>2, <2>4, <2>7 DEF es, Ends
<1>10. \A e \in DeclTree :
         IsDecl(e) /\ e.line = g.line /\ Distinct(e) /\ Range(IdsOf(e)) \cap SpecIds(front) = {} =>
           Ends(ns, n, front, e, [ns EXCEPT ![n] = e])
  BY <1>3, <1>9
<1>11. LastOf(ns, n, front)
  BY <1>2, <1>5, <1>6, <1>8, <1>10 DEF LastOf, g
<1> QED  BY <1>11

LEMMA Associative ==
  ASSUME NEW a \in Seq(Int), NEW b \in Seq(Int), NEW c \in Seq(Int)
  PROVE  (a \o b) \o c = a \o (b \o c)
BY ConcatAssociative

\* A declaration that joins the group leaves its specs at the end of it.
LEMMA ContinueKeeps ==
  ASSUME NEW ds, IsTree(ds), Unique(ds), NEW k \in Nat, k < Len(ds), NEW ns, JoinedSo(ds, k, ns),
         ns # <<>>, NEW n, n = Len(ns), ns[n].tok # "func", ds[k + 1].tok = ns[n].tok
  PROVE  JoinedSo(ds, k + 1, [ns EXCEPT ![n] = Continued(ns[n], ds[k + 1])])
<1> DEFINE c == ds[k + 1]
           g == ns[n]
           e == Continued(g, c)
           es == [ns EXCEPT ![n] = e]
<1>1. /\ c \in DeclTree /\ IsDecl(c) /\ Distinct(c)
      /\ g.end < c.line
      /\ Range(IdsOf(c)) \cap SpecIds(ns) = {}
      /\ SpecIds(Prefix(ds, k + 1)) = SpecIds(ns) \cup Range(IdsOf(c))
      /\ OtherIds(Prefix(ds, k + 1)) = OtherIds(ns) \o Others(c)
  BY NextDecl
<1>2. PICK front : LastOf(ns, n, front)
  BY LastKeeps
<1>3. /\ n \in Nat /\ n >= 1 /\ g \in DeclTree /\ IsDecl(g) /\ Distinct(g)
      /\ IsTree(front)
      /\ SpecIds(ns) = SpecIds(front) \cup Range(IdsOf(g))
      /\ Range(IdsOf(g)) \cap SpecIds(front) = {}
      /\ OtherIds(ns) = OtherIds(front) \o Others(g)
      /\ \A x \in DeclTree :
           IsDecl(x) /\ x.line = g.line /\ Distinct(x) /\ Range(IdsOf(x)) \cap SpecIds(front) = {} =>
             Ends(ns, n, front, x, [ns EXCEPT ![n] = x])
  BY <1>2 DEF LastOf
<1>4. g.tok # "func" /\ c.tok = g.tok
  OBVIOUS
<1> HIDE DEF c, g
<1>5. /\ e \in DeclTree /\ IsDecl(e) /\ e.tok = g.tok /\ e.line = g.line /\ e.end = c.end
      /\ IdsOf(e) = IdsOf(g) \o IdsOf(c)
  <2>1. /\ g \in DeclTree /\ c \in DeclTree /\ IsDecl(g) /\ IsDecl(c)
        /\ g.end < c.line /\ g.tok # "func"
    BY <1>1, <1>3, <1>4
  <2>2. IsContinued(g, c, e) /\ IdsOf(e) = IdsOf(g) \o IdsOf(c)
    BY ONLY <2>1, ContinuedIs
  <2> HIDE DEF e
  <2> QED  BY ONLY <2>2 DEF IsContinued
<1> HIDE DEF e
<1>6. /\ IdsOf(g) \in Seq(Int) /\ IdsOf(c) \in Seq(Int) /\ Others(g) \in Seq(Int) /\ Others(c) \in Seq(Int)
      /\ OtherIds(front) \in Seq(Int)
  <2>1. IsTree(ns) /\ n \in 1..Len(ns)
    BY <1>3 DEF JoinedSo
  <2>2. k + 1 \in 1..Len(ds)
    BY SeqFacts DEF IsTree
  <2>3. IdsOf(g) \in Seq(Int) /\ Others(g) \in Seq(Int)
    BY <2>1, IdListsTyped DEF g
  <2>4. IdsOf(c) \in Seq(Int) /\ Others(c) \in Seq(Int)
    BY <2>2, IdListsTyped DEF c
  <2> QED  BY <1>3, <2>3, <2>4, IdListsTyped
<1>7. Len(g.specs) \in Nat /\ Len(c.specs) \in Nat /\ Len(e.specs) \in Nat
  BY <1>1, <1>3, <1>5, DeclFacts
<1>8. Range(IdsOf(g)) \cap Range(IdsOf(c)) = {} /\ Range(IdsOf(c)) \cap SpecIds(front) = {}
  BY <1>1, <1>3
<1>9. /\ Others(e) = Others(g) \o Others(c)
      /\ Range(IdsOf(e)) = Range(IdsOf(g)) \cup Range(IdsOf(c))
      /\ Distinct(e)
  BY <1>1, <1>3, <1>4, <1>5, <1>6, <1>7, <1>8, IdsMerged
<1>10. Range(IdsOf(e)) \cap SpecIds(front) = {}
  BY <1>3, <1>8, <1>9
<1>11. /\ IsTree(es) /\ Unique(es) /\ Len(es) = n /\ es[n] = e
       /\ SpecIds(es) = SpecIds(front) \cup Range(IdsOf(e))
       /\ OtherIds(es) = OtherIds(front) \o Others(e)
  BY <1>3, <1>5, <1>9, <1>10 DEF Ends
<1> HIDE DEF es
<1>12. SpecIds(es) = SpecIds(Prefix(ds, k + 1))
  BY <1>1, <1>3, <1>9, <1>11
<1>13. OtherIds(es) = OtherIds(Prefix(ds, k + 1))
  <2>1. (OtherIds(front) \o Others(g)) \o Others(c) = OtherIds(front) \o (Others(g) \o Others(c))
    BY <1>6, Associative
  <2> QED  BY <1>1, <1>3, <1>9, <1>11, <2>1
<1>14. k + 1 >= 1
  OBVIOUS
<1>15. es[Len(es)].end = ds[k + 1].end
  BY <1>5, <1>11 DEF c
<1>16. JoinedSo(ds, k + 1, es)
  BY <1>11, <1>12, <1>13, <1>14, <1>15 DEF JoinedSo
<1> QED  BY <1>16 DEF es, e, g, c

\* The imports of a group are sorted, which changes the order of no others.
LEMMA JoinedKeeps ==
  ASSUME NEW ds, NEW k, NEW ns, JoinedSo(ds, k, ns), ns # <<>>, NEW n, n = Len(ns), ns[n].tok = "import"
  PROVE  JoinedSo(ds, k, [ns EXCEPT ![n] = SortImports([ns[n] EXCEPT !.paren = TRUE])])
<1> DEFINE g == ns[n]
           d == [g EXCEPT !.paren = TRUE]
           e == SortImports(d)
           es == [ns EXCEPT ![n] = e]
<1>1. PICK front : LastOf(ns, n, front)
  BY LastKeeps
<1>2. /\ n \in Nat /\ n >= 1 /\ g \in DeclTree /\ IsDecl(g) /\ Distinct(g)
      /\ IsTree(front)
      /\ SpecIds(ns) = SpecIds(front) \cup Range(IdsOf(g))
      /\ Range(IdsOf(g)) \cap SpecIds(front) = {}
      /\ OtherIds(ns) = OtherIds(front) \o Others(g)
      /\ \A x \in DeclTree :
           IsDecl(x) /\ x.line = g.line /\ Distinct(x) /\ Range(IdsOf(x)) \cap SpecIds(front) = {} =>
             Ends(ns, n, front, x, [ns EXCEPT ![n] = x])
  BY <1>1 DEF LastOf
<1>3. g.tok = "import"
  OBVIOUS
<1>4. g.end = ds[k].end /\ k >= 1
  BY DEF JoinedSo, g
<1> HIDE DEF g
<1>5. /\ d \in DeclTree /\ d.tok = g.tok /\ d.line = g.line /\ d.end = g.end /\ d.specs = g.specs
      /\ d.paren = TRUE
  BY <1>2 DEF DeclTree
<1> HIDE DEF d
<1>6. IsDecl(d)
  BY <1>2, <1>3, <1>5 DEF IsDecl
<1>7. Distinct(d) /\ IdsOf(d) = IdsOf(g)
  BY <1>2, <1>5 DEF Distinct, IdsOf
<1>8. /\ e \in DeclTree /\ IsDecl(e) /\ e.tok = d.tok /\ e.line = d.line /\ e.end = d.end
      /\ Distinct(e) /\ Range(IdsOf(e)) = Range(IdsOf(d))
  <2>1. SortedFrom(d, e)
    BY <1>3, <1>5, <1>6, <1>7, SortImportsIs
  <2> QED  BY <2>1 DEF SortedFrom
<1> HIDE DEF e
<1>9. Others(e) = Others(g)
  BY <1>3, <1>5, <1>8 DEF Others
<1>10. /\ IsTree(es) /\ Unique(es) /\ Len(es) = n /\ es[n] = e
       /\ SpecIds(es) = SpecIds(front) \cup Range(IdsOf(e))
       /\ OtherIds(es) = OtherIds(front) \o Others(e)
  <2>1. /\ e \in DeclTree /\ IsDecl(e) /\ e.line = g.line /\ Distinct(e)
        /\ Range(IdsOf(e)) \cap SpecIds(front) = {}
    BY <1>2, <1>5, <1>7, <1>8
  <2>2. \A x \in DeclTree :
          IsDecl(x) /\ x.line = g.line /\ Distinct(x) /\ Range(IdsOf(x)) \cap SpecIds(front) = {} =>
            Ends(ns, n, front, x, [ns EXCEPT ![n] = x])
    BY <1>2
  <2>3. Ends(ns, n, front, e, es)
    BY ONLY <2>1, <2>2
  <2> HIDE DEF es
  <2> QED  BY ONLY <2>3 DEF Ends
<1> HIDE DEF es
<1>11. SpecIds(es) = SpecIds(ns) /\ OtherIds(es) = OtherIds(ns)
  BY <1>2, <1>7, <1>8, <1>9, <1>10
<1>12. es[Len(es)].end = ds[k].end
  BY <1>4, <1>5, <1>8, <1>10
<1>13. JoinedSo(ds, k, es)
  BY <1>4, <1>10, <1>11, <1>12 DEF JoinedSo
<1> QED  BY <1>13 DEF es, e, d, g

------------------------------------------------------------------------------
(* The loops of applyPre *)

\* What a text has of the source.
Kept(text) ==
  /\ IsText(text)
  /\ Range(Ids(text)) = Range(Ids(source))
  /\ OtherIds(text) = OtherIds(source)

\* What was printed, once or twice.
Prints ==
  /\ printed \in Seq(Seq(DeclText))
  /\ Len(printed) <= 2 /\ (Len(printed) = 2 <=> step = "done")
  /\ \A r \in 1..Len(printed) : Kept(printed[r])

\* node.Decls is a tree with the specs of the source.
Holds(ds) ==
  /\ IsTree(ds) /\ Unique(ds)
  /\ SpecIds(ds) = SpecIds(source)
  /\ OtherIds(ds) = OtherIds(source)

\* newDecls has those of the declarations that were joined.  The group that is
\* joined is its last.
Joins ==
  /\ joining \in BOOLEAN
  /\ step # "join" => new = <<>> /\ ~joining
  /\ step = "join" => JoinedSo(decls, i - 1, new)
  /\ joining => new # <<>> /\ Group.tok # "func"

InOrder ==
  /\ IsText(source)
  /\ step \in {"unwrap", "join", "separate", "walk", "print", "done"}
  /\ i \in Nat /\ i >= 1 /\ i <= Len(decls) + 1

IInv == InOrder /\ Holds(decls) /\ Joins /\ Prints

\* Moving lines and taking parentheses away leaves the specs where they are.
LEMMA SameHolds ==
  ASSUME NEW ds, Holds(ds), NEW es, IsTree(es), Len(es) = Len(ds), \A k \in 1..Len(ds) : Same(ds[k], es[k])
  PROVE  Holds(es)
<1>1. IsTree(ds) /\ Unique(ds) /\ SpecIds(ds) = SpecIds(source) /\ OtherIds(ds) = OtherIds(source)
  BY DEF Holds
<1>2. HasIds(ds) /\ HasIds(es)
  BY <1>1, TreeHasIds
<1>3. SameSpecs(ds, es)
  <2>1. ASSUME NEW k \in 1..Len(ds)  PROVE es[k].tok = ds[k].tok /\ IdsOf(es[k]) = IdsOf(ds[k])
    <3>1. Same(ds[k], es[k])
      OBVIOUS
    <3> QED  BY <3>1 DEF Same, IdsOf
  <2> QED  BY <2>1 DEF SameSpecs
<1>4. OtherIds(es) = OtherIds(ds) /\ SpecIds(es) = SpecIds(ds) /\ Unique(es)
  BY <1>1, <1>2, <1>3, SameSpecsKept
<1> QED  BY <1>1, <1>4 DEF Holds

\* What is read of a text that has the specs of the source has them.
LEMMA ReadHolds ==
  ASSUME NEW text, Kept(text), IsText(source)
  PROVE  Holds(Read(text))
<1>1. IsText(text) /\ Range(Ids(text)) = Range(Ids(source)) /\ OtherIds(text) = OtherIds(source)
  BY DEF Kept
<1> DEFINE ds == Read(text)
<1>2. Tree(text, ds) /\ Unique(ds) /\ OtherIds(ds) = OtherIds(text) /\ SpecIds(ds) = SpecIds(text)
  BY <1>1, ReadIs
<1> HIDE DEF ds
<1>3. SpecIds(text) = SpecIds(source)
  <2>1. Range(Ids(text)) = SpecIds(text) /\ Range(Ids(source)) = SpecIds(source)
    BY <1>1, TextHasIds, IdsAre
  <2> QED  BY <1>1, <2>1
<1> QED  BY <1>1, <1>2, <1>3 DEF Holds, Tree, ds

\* And so does what is printed.
LEMMA PrintedKept ==
  ASSUME NEW ds, Holds(ds), IsText(source)
  PROVE  Kept(Printed(ds))
<1>1. IsTree(ds) /\ Unique(ds) /\ SpecIds(ds) = SpecIds(source) /\ OtherIds(ds) = OtherIds(source)
  BY DEF Holds
<1>2. IsText(Printed(ds)) /\ SameSpecs(ds, Printed(ds))
  BY <1>1, PrintedIs
<1>3. HasIds(ds) /\ HasIds(Printed(ds)) /\ HasIds(source)
  BY <1>1, <1>2, TreeHasIds, TextHasIds
<1>4. OtherIds(Printed(ds)) = OtherIds(ds) /\ SpecIds(Printed(ds)) = SpecIds(ds)
  BY <1>2, <1>3, SameSpecsKept
<1>5. Range(Ids(Printed(ds))) = SpecIds(Printed(ds)) /\ Range(Ids(source)) = SpecIds(source)
  BY <1>3, IdsAre
<1> QED  BY <1>1, <1>2, <1>4, <1>5 DEF Kept

LEMMA InitIInv == Init => IInv
<1> SUFFICES ASSUME Init  PROVE IInv
  OBVIOUS
<1>1. IsText(source)
  BY SourcesAssumption DEF Init
<1>2. Kept(source)
  BY <1>1 DEF Kept
<1>3. Holds(decls)
  BY <1>1, <1>2, ReadHolds DEF Init
<1>4. Len(decls) \in Nat
  BY <1>3, SeqFacts DEF Holds, IsTree
<1>5. InOrder
  BY <1>1, <1>4 DEF InOrder, Init
<1>6. Joins
  BY DEF Joins, Init
<1>7. Prints
  <2>1. printed = <<>> /\ step # "done"
    BY DEF Init
  <2>2. printed \in Seq(Seq(DeclText)) /\ Len(printed) = 0
    BY <2>1, EmptySeq
  <2> QED  BY <2>1, <2>2 DEF Prints
<1> QED  BY <1>3, <1>5, <1>6, <1>7 DEF IInv

LEMMA UnwrapIInv == IInv /\ Unwrap => IInv'
<1> SUFFICES ASSUME IInv, Unwrap  PROVE IInv'
  OBVIOUS
<1> USE DEF IInv
<1>1. i \in Nat /\ i >= 1 /\ i <= Len(decls) /\ IsText(source) /\ step \in {"unwrap", "walk"}
  BY DEF InOrder, Unwrap, More
<1>2. IsTree(decls) /\ Len(decls) \in Nat
  BY SeqFacts DEF Holds, IsTree
<1>3. i \in 1..Len(decls)
  BY <1>1, <1>2
<1> DEFINE es == removeParens(decls, i)
<1>4. IsTree(es) /\ Len(es) = Len(decls) /\ \A l \in 1..Len(decls) : Same(decls[l], es[l])
  BY <1>2, <1>3, RemoveParensKeeps
<1> HIDE DEF es
<1>5. Holds(es)
  BY <1>4, SameHolds
<1>6. decls' = es /\ i' = i + 1 /\ UNCHANGED <<source, printed, step, new, joining, merged, last>>
  BY DEF Unwrap, es
<1>7. InOrder'
  BY <1>1, <1>2, <1>4, <1>6 DEF InOrder
<1>8. Holds(decls)'
  BY <1>5, <1>6 DEF Holds
<1>9. Joins'
  BY <1>1, <1>6 DEF Joins
<1>10. Prints'
  BY <1>6 DEF Prints, Kept
<1> QED  BY <1>7, <1>8, <1>9, <1>10

LEMMA StartIInv == IInv /\ Start => IInv'
<1> SUFFICES ASSUME IInv, Start  PROVE IInv'
  OBVIOUS
<1> USE DEF IInv
<1>1. i \in Nat /\ i >= 1 /\ i <= Len(decls) /\ step = "join" /\ IsText(source)
  BY DEF InOrder, Start, More
<1>2. IsTree(decls) /\ Unique(decls) /\ Len(decls) \in Nat
  BY SeqFacts DEF Holds, IsTree
<1>3. PICK k \in Nat : i = k + 1 /\ i - 1 = k /\ k < Len(decls)
  <2>1. i - 1 \in Nat /\ i = (i - 1) + 1 /\ i - 1 < Len(decls)
    BY <1>1, <1>2
  <2> QED  BY <2>1
<1>4. JoinedSo(decls, k, new)
  BY <1>1, <1>3 DEF Joins
<1>5. /\ new' = Append(new, decls[k + 1]) /\ i' = i + 1
      /\ UNCHANGED <<source, printed, step, decls>>
      /\ joining' = (decls[k + 1].tok # "func" /\ ~isCgoImport(decls[k + 1]) /\ decls[k + 1].doc # "directive")
  BY <1>3 DEF Start
<1>6. JoinedSo(decls, k + 1, new')
  BY <1>2, <1>3, <1>4, <1>5, StartKeeps
<1>7. i' - 1 = k + 1
  BY <1>3, <1>5
<1>8. joining' => new' # <<>> /\ Group'.tok # "func"
  <2>1. new \in Seq(DeclTree)
    BY <1>4 DEF JoinedSo, IsTree
  <2>2. decls[k + 1] \in DeclTree
    BY <1>2, <1>3, TreeFacts
  <2>3. PICK n \in Nat : n = Len(new)
    BY <2>1, SeqFacts
  <2>4. Len(new') = n + 1 /\ new'[n + 1] = decls[k + 1]
    BY <1>5, <2>1, <2>2, <2>3, AppendFacts
  <2>5. Len(<<>>) = 0
    OBVIOUS
  <2>6. new' # <<>>
    BY <2>4, <2>5
  <2>7. Group' = decls[k + 1]
    BY <2>4 DEF Group
  <2> QED  BY <1>5, <2>6, <2>7
<1>9. InOrder'
  BY <1>1, <1>2, <1>5 DEF InOrder
<1>10. Holds(decls)'
  BY <1>5 DEF Holds
<1>11. Joins'
  BY <1>1, <1>5, <1>6, <1>7, <1>8 DEF Joins
<1>12. Prints'
  BY <1>5 DEF Prints, Kept
<1> QED  BY <1>9, <1>10, <1>11, <1>12

LEMMA ContinueIInv == IInv /\ Continue => IInv'
<1> SUFFICES ASSUME IInv, Continue  PROVE IInv'
  OBVIOUS
<1> USE DEF IInv
<1>1. i \in Nat /\ i >= 1 /\ i <= Len(decls) /\ step = "join" /\ joining /\ IsText(source)
  BY DEF InOrder, Continue, More
<1>2. IsTree(decls) /\ Unique(decls) /\ Len(decls) \in Nat
  BY SeqFacts DEF Holds, IsTree
<1>3. PICK k \in Nat : i = k + 1 /\ i - 1 = k /\ k < Len(decls)
  <2>1. i - 1 \in Nat /\ i = (i - 1) + 1 /\ i - 1 < Len(decls)
    BY <1>1, <1>2
  <2> QED  BY <2>1
<1>4. JoinedSo(decls, k, new) /\ new # <<>> /\ Group.tok # "func"
  BY <1>1, <1>3 DEF Joins
<1>5. PICK n : n = Len(new)
  OBVIOUS
<1>6. /\ new' = [new EXCEPT ![n] = Continued(new[n], decls[k + 1])] /\ i' = i + 1
      /\ decls[k + 1].tok = new[n].tok /\ new[n].tok # "func"
      /\ UNCHANGED <<source, printed, step, decls, joining>>
  BY <1>3, <1>4, <1>5 DEF Continue, Continues, Group
<1>7. JoinedSo(decls, k + 1, new')
  BY <1>2, <1>3, <1>4, <1>5, <1>6, ContinueKeeps
<1>8. i' - 1 = k + 1
  BY <1>3, <1>6
<1>9. new' # <<>> /\ Group'.tok # "func"
  <2> DEFINE e == Continued(new[n], decls[k + 1])
  <2>1. new \in Seq(DeclTree)
    BY <1>4 DEF JoinedSo, IsTree
  <2>2. n \in 1..Len(new) /\ DOMAIN new = 1..Len(new)
    <3>1. n \in Nat /\ n >= 1
      BY <1>4, <1>5, <2>1, LastIs
    <3> QED  BY <1>5, <2>1, <3>1, SeqFacts
  <2>3. e.tok = new[n].tok
    <3>1. new[n] \in DeclTree
      BY <2>1, <2>2, SeqFacts
    <3> QED  BY <3>1 DEF Continued, DeclTree
  <2> HIDE DEF e
  <2>4. new' = [new EXCEPT ![n] = e]
    BY <1>6 DEF e
  <2>5. DOMAIN new' = 1..n /\ new'[n] = e
    BY <1>5, <2>2, <2>4
  <2>6. new' \in Seq(DeclTree)
    BY <1>7 DEF JoinedSo, IsTree
  <2>7. Len(new') \in Nat /\ 1..Len(new') = 1..n
    BY <2>5, <2>6, SeqFacts
  <2>8. n \in Nat
    BY <1>4, <1>5, <2>1, LastIs
  <2>9. Len(new') = n
    BY <2>7, <2>8
  <2>10. Len(<<>>) = 0 /\ n >= 1
    BY <2>2
  <2>11. new' # <<>>
    BY <2>9, <2>10
  <2> QED  BY <1>6, <2>3, <2>5, <2>9, <2>11 DEF Group
<1>10. InOrder'
  BY <1>1, <1>2, <1>6 DEF InOrder
<1>11. Holds(decls)'
  BY <1>6 DEF Holds
<1>12. Joins'
  BY <1>1, <1>6, <1>7, <1>8, <1>9 DEF Joins
<1>13. Prints'
  BY <1>6 DEF Prints, Kept
<1> QED  BY <1>10, <1>11, <1>12, <1>13

LEMMA JoinedIInv == IInv /\ Joined => IInv'
<1> SUFFICES ASSUME IInv, Joined  PROVE IInv'
  OBVIOUS
<1> USE DEF IInv
<1>1. i \in Nat /\ step = "join" /\ joining
  BY DEF InOrder, Joined
<1>2. JoinedSo(decls, i - 1, new) /\ new # <<>>
  BY <1>1 DEF Joins
<1>3. PICK n, k : n = Len(new) /\ k = i - 1
  OBVIOUS
<1>4. /\ joining' = FALSE /\ UNCHANGED <<source, printed, step, decls, i, merged, last>>
      /\ \/ new' = new
         \/ /\ new[n].tok = "import"
            /\ new' = [new EXCEPT ![n] = SortImports([new[n] EXCEPT !.paren = TRUE])]
  BY <1>3 DEF Joined, Group
<1>5. JoinedSo(decls, k, new')
  <2>1. CASE new' = new
    BY <1>2, <1>3, <2>1
  <2>2. CASE new[n].tok = "import" /\ new' = [new EXCEPT ![n] = SortImports([new[n] EXCEPT !.paren = TRUE])]
    BY <1>2, <1>3, <2>2, JoinedKeeps
  <2> QED  BY <1>4, <2>1, <2>2
<1>6. InOrder'
  BY <1>4 DEF InOrder
<1>7. Holds(decls)'
  BY <1>4 DEF Holds
<1>8. Joins'
  BY <1>1, <1>3, <1>4, <1>5 DEF Joins
<1>9. Prints'
  BY <1>4 DEF Prints, Kept
<1> QED  BY <1>6, <1>7, <1>8, <1>9

LEMMA SeparateIInv == IInv /\ Separate => IInv'
<1> SUFFICES ASSUME IInv, Separate  PROVE IInv'
  OBVIOUS
<1> USE DEF IInv
<1>1. i \in Nat /\ i >= 1 /\ i <= Len(decls) /\ IsText(source) /\ step = "separate"
  BY DEF InOrder, Separate, More
<1>2. IsTree(decls) /\ Len(decls) \in Nat /\ Len(decls) > 0
  BY <1>1, SeqFacts DEF Holds, IsTree
<1>3. /\ decls' = decls \/ (i > 1 /\ decls' = addNewline(decls, decls[i - 1].end))
      /\ i' = i + 1 /\ UNCHANGED <<source, printed, step, new, joining, merged, last>>
  BY DEF Separate
<1>4. Holds(decls') /\ Len(decls') = Len(decls)
  <2>1. CASE decls' = decls
    BY <2>1
  <2>2. CASE i > 1 /\ decls' = addNewline(decls, decls[i - 1].end)
    <3>1. i - 1 \in 1..Len(decls)
      BY <1>1, <1>2, <2>2
    <3>2. decls[i - 1].end \in Nat
      BY <1>2, <3>1, TreeFacts
    <3> DEFINE es == addNewline(decls, decls[i - 1].end)
    <3>3. /\ IsTree(es)
          /\ Lined(decls, es, [L \in LinesOf(decls) |-> IF L > decls[i - 1].end THEN L + 1 ELSE L])
      BY <1>2, <3>2, AddNewlineKeeps DEF Spread
    <3> HIDE DEF es
    <3>4. Len(es) = Len(decls) /\ \A l \in 1..Len(decls) : Same(decls[l], es[l])
      BY <3>3 DEF Lined
    <3>5. Holds(es)
      BY <3>3, <3>4, SameHolds
    <3> QED  BY <2>2, <3>4, <3>5 DEF es
  <2> QED  BY <1>3, <2>1, <2>2
<1>5. InOrder'
  BY <1>1, <1>2, <1>3, <1>4 DEF InOrder
<1>6. Holds(decls)'
  BY <1>3, <1>4 DEF Holds
<1>7. Joins'
  BY <1>1, <1>3 DEF Joins
<1>8. Prints'
  BY <1>3 DEF Prints, Kept
<1> QED  BY <1>5, <1>6, <1>7, <1>8

\* At first there are none.
LEMMA JoinedFirst ==
  ASSUME NEW ds, IsTree(ds), Unique(ds)
  PROVE  JoinedSo(ds, 0, <<>>)
<1>1. 0 \in 0..Len(ds)
  BY SeqFacts DEF IsTree
<1> DEFINE p == Prefix(ds, 0)
<1>2. p \in Seq(DeclTree) /\ IsTree(p) /\ Unique(p) /\ Len(p) = 0
  BY <1>1, PrefixIs
<1> HIDE DEF p
<1>3. p = <<>>
  BY <1>2, EmptySeq
<1> QED  BY <1>2, <1>3 DEF JoinedSo, p

\* From a loop to the next.
LEMMA LoopDoes ==
  ASSUME NextLoop
  PROVE  /\ \/ step = "unwrap" /\ step' = "join"
            \/ step = "join" /\ step' = "separate"
            \/ step = "separate" /\ step' = "walk"
            \/ step = "walk" /\ step' = "print"
         /\ i' = 1 /\ new' = <<>> /\ decls' = (IF step = "join" THEN new ELSE decls)
         /\ UNCHANGED <<source, printed, joining, merged, last>>
<1>1. DOMAIN After = {"unwrap", "join", "separate", "walk"}
  BY DEF After
<1>2. /\ After["unwrap"] = "join" /\ After["join"] = "separate"
      /\ After["separate"] = "walk" /\ After["walk"] = "print"
  BY DEF After
<1>3. step \in DOMAIN After /\ step' = After[step]
  BY DEF NextLoop
<1>4. \/ step = "unwrap" /\ step' = "join"
      \/ step = "join" /\ step' = "separate"
      \/ step = "separate" /\ step' = "walk"
      \/ step = "walk" /\ step' = "print"
  <2>1. step \in {"unwrap", "join", "separate", "walk"}
    BY <1>1, <1>3
  <2>2. CASE step = "unwrap"
    BY ONLY <1>2, <1>3, <2>2
  <2>3. CASE step = "join"
    BY ONLY <1>2, <1>3, <2>3
  <2>4. CASE step = "separate"
    BY ONLY <1>2, <1>3, <2>4
  <2>5. CASE step = "walk"
    BY ONLY <1>2, <1>3, <2>5
  <2> QED  BY <2>1, <2>2, <2>3, <2>4, <2>5
<1> QED  BY <1>4 DEF NextLoop

LEMMA NextLoopIInv == IInv /\ NextLoop => IInv'
<1> SUFFICES ASSUME IInv, NextLoop  PROVE IInv'
  OBVIOUS
<1> USE DEF IInv
<1>1. i \in Nat /\ i >= 1 /\ i <= Len(decls) + 1 /\ ~ (i <= Len(decls)) /\ IsText(source) /\ ~joining
  BY DEF InOrder, NextLoop, More
<1>2. IsTree(decls) /\ Unique(decls) /\ Len(decls) \in Nat
  BY SeqFacts DEF Holds, IsTree
<1>3. i - 1 = Len(decls)
  BY <1>1, <1>2
<1>4. /\ \/ step = "unwrap" /\ step' = "join"
         \/ step = "join" /\ step' = "separate"
         \/ step = "separate" /\ step' = "walk"
         \/ step = "walk" /\ step' = "print"
      /\ i' = 1 /\ new' = <<>> /\ decls' = (IF step = "join" THEN new ELSE decls)
      /\ UNCHANGED <<source, printed, joining, merged, last>>
  BY LoopDoes
<1>5. Holds(decls')
  <2>1. CASE step # "join"
    BY <1>4, <2>1
  <2>2. CASE step = "join"
    <3>1. JoinedSo(decls, Len(decls), new)
      BY <1>3, <2>2 DEF Joins
    <3>2. Prefix(decls, Len(decls)) = decls
      <4>1. Len(decls) \in 0..Len(decls)
        BY <1>2
      <4> QED  BY <1>2, <4>1, PrefixIs
    <3>3. IsTree(new) /\ Unique(new) /\ SpecIds(new) = SpecIds(decls) /\ OtherIds(new) = OtherIds(decls)
      BY <3>1, <3>2 DEF JoinedSo
    <3> QED  BY <1>4, <2>2, <3>3 DEF Holds
  <2> QED  BY <2>1, <2>2
<1>6. Len(decls') \in Nat /\ IsTree(decls') /\ Unique(decls')
  BY <1>5, SeqFacts DEF Holds, IsTree
<1>7. InOrder'
  BY <1>1, <1>4, <1>6 DEF InOrder
<1>8. Holds(decls)'
  BY <1>4, <1>5 DEF Holds
<1>9. Joins'
  <2>1. JoinedSo(decls', 0, <<>>)
    BY <1>6, JoinedFirst
  <2>2. i' - 1 = 0
    BY <1>4
  <2> QED  BY <1>1, <1>4, <2>1, <2>2 DEF Joins
<1>10. Prints'
  BY <1>4 DEF Prints, Kept
<1> QED  BY <1>7, <1>8, <1>9, <1>10

LEMMA RenderIInv == IInv /\ Render => IInv'
<1> SUFFICES ASSUME IInv, Render  PROVE IInv'
  OBVIOUS
<1> USE DEF IInv
<1>1. IsText(source) /\ step = "print"
  BY DEF InOrder, Render
<1>2. /\ printed' = Append(printed, Printed(decls))
      /\ \/ Len(printed) = 0 /\ step' = "unwrap" /\ decls' = Read(Printed(decls))
         \/ Len(printed) # 0 /\ step' = "done" /\ decls' = decls
      /\ i' = 1 /\ UNCHANGED <<source, new, joining, merged, last>>
  BY DEF Render
<1>3. Kept(Printed(decls))
  BY <1>1, PrintedKept
<1>4. Holds(decls')
  BY <1>1, <1>2, <1>3, ReadHolds
<1>5. Len(decls') \in Nat
  BY <1>4, SeqFacts DEF Holds, IsTree
<1>6. InOrder'
  BY <1>1, <1>2, <1>5 DEF InOrder
<1>7. Holds(decls)'
  BY <1>2, <1>4 DEF Holds
<1>8. Joins'
  BY <1>1, <1>2 DEF Joins
<1>9. Prints'
  <2>1. printed \in Seq(Seq(DeclText)) /\ Printed(decls) \in Seq(DeclText)
    BY <1>3 DEF Prints, Kept, IsText
  <2>2. PICK n : n = Len(printed)
    OBVIOUS
  <2>3. /\ n \in Nat /\ printed' \in Seq(Seq(DeclText)) /\ Len(printed') = n + 1
        /\ printed'[n + 1] = Printed(decls)
        /\ \A r \in 1..n : printed'[r] = printed[r]
    BY <1>2, <2>1, <2>2, AppendFacts
  <2>4. n = 0 \/ n = 1
    BY <1>1, <2>2, <2>3 DEF Prints
  <2>5. Len(printed') <= 2 /\ (Len(printed') = 2 <=> step' = "done")
    <3>1. CASE n = 0
      <4>1. step' = "unwrap" /\ Len(printed') = 1
        BY <1>2, <2>2, <2>3, <3>1
      <4> QED  BY <4>1
    <3>2. CASE n = 1
      <4>1. step' = "done" /\ Len(printed') = 2
        BY <1>2, <2>2, <2>3, <3>2
      <4> QED  BY <4>1
    <3> QED  BY <2>4, <3>1, <3>2
  <2>6. ASSUME NEW r \in 1..(n + 1)  PROVE Kept(printed'[r])
    <3>1. CASE r = n + 1
      BY <1>3, <2>3, <3>1
    <3>2. CASE r # n + 1
      <4>1. r \in 1..n
        BY <2>3, <3>2
      <4> QED  BY <2>2, <2>3, <4>1 DEF Prints
    <3> QED  BY <3>1, <3>2
  <2>7. \A r \in 1..Len(printed') : Kept(printed'[r])
    BY <2>3, <2>6
  <2> QED  BY <1>2, <2>3, <2>5, <2>7 DEF Prints, Kept
<1> QED  BY <1>6, <1>7, <1>8, <1>9

LEMMA StepIInv == IInv /\ [Next]_vars => IInv'
<1> SUFFICES ASSUME IInv, [Next]_vars  PROVE IInv'
  OBVIOUS
<1>1. CASE Unwrap
  BY <1>1, UnwrapIInv
<1>2. CASE Start
  BY <1>2, StartIInv
<1>3. CASE Continue
  BY <1>3, ContinueIInv
<1>4. CASE Joined
  BY <1>4, JoinedIInv
<1>5. CASE Separate
  BY <1>5, SeparateIInv
<1>6. CASE NextLoop
  BY <1>6, NextLoopIInv
<1>7. CASE Render
  BY <1>7, RenderIInv
<1>8. CASE UNCHANGED vars
  BY <1>8 DEF IInv, InOrder, Holds, Joins, Group, Prints, Kept, vars
<1> QED  BY <1>1, <1>2, <1>3, <1>4, <1>5, <1>6, <1>7, <1>8 DEF Next, Done

LEMMA InvariantIInv == Spec => []IInv
BY InitIInv, StepIInv, PTL DEF Spec

\* Formatting loses, repeats and moves no spec: what the two runs print has
\* those of the source, and in their order but for imports, whatever the file
\* (format.go:484-581, and SortImports).
THEOREM SpecsStay == Spec => []SpecsKept
<1>1. IInv => SpecsKept
  <2> SUFFICES ASSUME IInv, NEW text \in Outputs
               PROVE  Range(Ids(text)) = Range(Ids(source)) /\ OtherIds(text) = OtherIds(source)
    BY DEF SpecsKept
  <2>1. step = "done" /\ (text = printed[1] \/ text = printed[2])
    BY DEF Outputs
  <2>2. Kept(printed[1]) /\ Kept(printed[2])
    <3>1. Len(printed) = 2 /\ \A r \in 1..Len(printed) : Kept(printed[r])
      BY <2>1 DEF IInv, Prints
    <3>2. 1 \in 1..2 /\ 2 \in 1..2
      OBVIOUS
    <3> QED  BY <3>1, <3>2
  <2> QED  BY <2>1, <2>2 DEF Kept
<1> QED  BY <1>1, InvariantIInv, PTL

------------------------------------------------------------------------------
(* What the loops do to one declaration *)

\* It is moved, and may lose its parentheses.
Shifted(d, e) ==
  /\ Same(d, e)
  /\ \/ e.paren = d.paren /\ (Beside(e) <=> Beside(d))
     \/ Wrapped(d) /\ ~e.paren /\ Beside(e)

\* Declarations come no closer to one another.
Looser(ds, es) ==
  \A l \in 2..Len(ds) : es[l].line - es[l - 1].end >= ds[l].line - ds[l - 1].end

LEMMA FollowsLooser ==
  ASSUME NEW ds, IsTree(ds), NEW k \in 1..Len(ds), Len(ds[k].specs) = 1, NEW es, NEW to,
         Collapses(to, ds, ds[k].line, ds[k].end), Follows(ds, k, es, to)
  PROVE  Looser(ds, es)
<1> SUFFICES ASSUME NEW l \in 2..Len(ds)
             PROVE  es[l].line - es[l - 1].end >= ds[l].line - ds[l - 1].end
  BY DEF Looser
<1>1. Len(ds) \in Nat
  BY SeqFacts DEF IsTree
<1>2. l \in 1..Len(ds) /\ l - 1 \in 1..Len(ds) /\ l - 1 < l
  BY <1>1
<1> DEFINE x == ds[l - 1].end
           y == ds[l].line
           z == ds[k].specs[1].line
<1>3. x \in LinesOf(ds) /\ y \in LinesOf(ds) /\ LinesOf(ds) \subseteq Nat
  BY <1>2, LinesIn
<1>4. z \in LinesOf(ds) /\ ds[k].line <= z
  <2>1. 1 \in 1..Len(ds[k].specs) /\ IsDecl(ds[k])
    BY TreeFacts
  <2> QED  BY <2>1, LinesIn DEF IsDecl
<1>5. x < y
  BY <1>2 DEF IsTree
<1>6. ds[k].line \in Nat /\ ds[k].end \in Nat /\ ds[k].line <= ds[k].end
  BY TreeFacts DEF IsDecl
<1>7. y <= ds[k].line \/ ds[k].end <= x
  <2>1. CASE l = k
    BY <1>3, <2>1
  <2>2. CASE l < k
    <3>1. ds[l].end < ds[k].line /\ ds[l].line <= ds[l].end /\ ds[l].end \in Nat
      BY <1>2, <2>2, TreeFacts DEF IsTree, IsDecl
    <3> QED  BY <1>3, <1>6, <3>1
  <2>3. CASE l > k
    <3>1. l - 1 = k \/ k < l - 1
      BY <1>1, <2>3
    <3>2. CASE l - 1 = k
      BY <1>6, <3>2
    <3>3. CASE k < l - 1
      <4>1. ds[k].end < ds[l - 1].line /\ ds[l - 1].line <= ds[l - 1].end /\ ds[l - 1].line \in Nat
        BY <1>2, <3>3, TreeFacts DEF IsTree, IsDecl
      <4> QED  BY <1>3, <1>6, <4>1
    <3> QED  BY <3>1, <3>2, <3>3
  <2> QED  BY <1>1, <2>1, <2>2, <2>3
<1>8. to[x] \in Nat /\ to[y] \in Nat /\ to[z] \in Nat
  BY <1>3, <1>4 DEF Collapses
<1>9. to[y] - to[x] >= y - x
  <2> HIDE DEF x, y
  <2> QED  BY <1>3, <1>5, <1>7 DEF Collapses
<1>10. es[l - 1].end = to[x] /\ (es[l].line = to[y] \/ (l = k /\ es[l].line = to[z]))
  BY <1>2 DEF Follows
<1>11. l = k => to[z] >= to[y]
  <2> SUFFICES ASSUME l = k  PROVE to[z] >= to[y]
    OBVIOUS
  <2>1. y <= z
    BY <1>4
  <2> HIDE DEF y, z
  <2>2. y < z => to[y] <= to[z]
    BY <1>3, <1>4 DEF Collapses
  <2> QED  BY <1>3, <1>4, <1>8, <2>1, <2>2
<1> HIDE DEF x, y, z
<1>12. es[l].line - es[l - 1].end >= y - x
  BY <1>3, <1>8, <1>9, <1>10, <1>11
<1> QED  BY <1>12 DEF x, y

LEMMA SpreadLooser ==
  ASSUME NEW ds, IsTree(ds), NEW at \in Nat, NEW es, Spread(ds, at, es)
  PROVE  Looser(ds, es)
<1> SUFFICES ASSUME NEW l \in 2..Len(ds)
             PROVE  es[l].line - es[l - 1].end >= ds[l].line - ds[l - 1].end
  BY DEF Looser
<1>1. Len(ds) \in Nat
  BY SeqFacts DEF IsTree
<1>2. l \in 1..Len(ds) /\ l - 1 \in 1..Len(ds) /\ l - 1 < l
  BY <1>1
<1> DEFINE x == ds[l - 1].end
           y == ds[l].line
<1>3. x \in LinesOf(ds) /\ y \in LinesOf(ds) /\ LinesOf(ds) \subseteq Nat
  BY <1>2, LinesIn
<1>4. x < y
  BY <1>2 DEF IsTree
<1>5. /\ es[l - 1].end = (IF x > at THEN x + 1 ELSE x)
      /\ es[l].line = (IF y > at THEN y + 1 ELSE y)
  BY <1>2, <1>3 DEF Spread, Lined
<1> HIDE DEF x, y
<1>6. es[l].line - es[l - 1].end >= y - x
  BY <1>3, <1>4, <1>5
<1> QED  BY <1>6 DEF x, y

LEMMA MovesDo ==
  IInv /\ (Unwrap \/ Separate) =>
    /\ step # "join" /\ i \in 1..Len(decls) /\ i' = i + 1
    /\ UNCHANGED <<source, printed, step, new, joining, merged, last>>
    /\ IsTree(decls') /\ Len(decls') = Len(decls)
    /\ \A l \in 1..Len(decls) : Shifted(decls[l], decls'[l])
    /\ Looser(decls, decls')
<1> SUFFICES ASSUME IInv, Unwrap \/ Separate
             PROVE  /\ step # "join" /\ i \in 1..Len(decls) /\ i' = i + 1
                    /\ UNCHANGED <<source, printed, step, new, joining, merged, last>>
                    /\ IsTree(decls') /\ Len(decls') = Len(decls)
                    /\ \A l \in 1..Len(decls) : Shifted(decls[l], decls'[l])
                    /\ Looser(decls, decls')
  OBVIOUS
<1>1. /\ i \in Nat /\ i >= 1 /\ i <= Len(decls) /\ step # "join" /\ i' = i + 1
      /\ UNCHANGED <<source, printed, step, new, joining, merged, last>>
  BY DEF IInv, InOrder, Unwrap, Separate, More
<1>2. IsTree(decls) /\ Len(decls) \in Nat
  BY SeqFacts DEF IInv, Holds, IsTree
<1>3. i \in 1..Len(decls) /\ Len(decls) > 0
  BY <1>1, <1>2
<1>4. (\A l \in 1..Len(decls) : Shifted(decls[l], decls[l])) /\ Looser(decls, decls)
  <2>1. \A l \in 2..Len(decls) : l \in 1..Len(decls) /\ l - 1 \in 1..Len(decls)
    BY <1>2
  <2>2. \A l \in 1..Len(decls) : decls[l].line \in Nat /\ decls[l].end \in Nat
    BY <1>2, TreeFacts
  <2>3. Looser(decls, decls)
    BY <2>1, <2>2 DEF Looser
  <2> QED  BY <2>3 DEF Shifted, Same
<1>5. CASE Unwrap
  <2> DEFINE es == removeParens(decls, i)
  <2>1. decls' = es
    BY <1>5 DEF Unwrap
  <2>2. /\ IsTree(es) /\ Len(es) = Len(decls)
        /\ \A l \in 1..Len(decls) :
             /\ Same(decls[l], es[l])
             /\ es[l].paren = (decls[l].paren /\ ~ (l = i /\ Wrapped(decls[l])))
             /\ Beside(es[l]) <=> \/ Beside(decls[l])
                                  \/ l = i /\ Wrapped(decls[l])
        /\ ~ Wrapped(decls[i]) => es = decls
        /\ Wrapped(decls[i]) =>
             \E to : Collapses(to, decls, decls[i].line, decls[i].end) /\ Follows(decls, i, es, to)
    BY <1>2, <1>3, RemoveParensKeeps
  <2> HIDE DEF es
  <2>3. ASSUME NEW l \in 1..Len(decls)  PROVE Shifted(decls[l], es[l])
    <3>1. decls[l].paren \in BOOLEAN /\ es[l].paren \in BOOLEAN
      BY <1>2, <2>2, TreeFacts, DeclFacts
    <3>2. CASE l = i /\ Wrapped(decls[l])
      BY <2>2, <3>1, <3>2 DEF Shifted
    <3>3. CASE ~ (l = i /\ Wrapped(decls[l]))
      BY <2>2, <3>1, <3>3 DEF Shifted
    <3> QED  BY <3>2, <3>3
  <2>4. Looser(decls, es)
    <3>1. CASE Wrapped(decls[i])
      <4>1. PICK to : Collapses(to, decls, decls[i].line, decls[i].end) /\ Follows(decls, i, es, to)
        BY <2>2, <3>1
      <4>2. Len(decls[i].specs) = 1
        BY <3>1 DEF Wrapped
      <4> QED  BY <1>2, <1>3, <4>1, <4>2, FollowsLooser
    <3>2. CASE ~ Wrapped(decls[i])
      BY <1>4, <2>2, <3>2
    <3> QED  BY <3>1, <3>2
  <2> QED  BY <1>1, <1>3, <2>1, <2>2, <2>3, <2>4
<1>6. CASE Separate
  <2>1. decls' = decls \/ (i > 1 /\ decls' = addNewline(decls, decls[i - 1].end))
    BY <1>6 DEF Separate
  <2>2. CASE decls' = decls
    BY <1>1, <1>2, <1>3, <1>4, <2>2
  <2>3. CASE i > 1 /\ decls' = addNewline(decls, decls[i - 1].end)
    <3>1. i - 1 \in 1..Len(decls)
      BY <1>1, <1>2, <2>3
    <3>2. decls[i - 1].end \in Nat
      BY <1>2, <3>1, TreeFacts
    <3>3. Spread(decls, decls[i - 1].end, decls')
      BY <1>2, <1>3, <2>3, <3>2, AddNewlineKeeps
    <3>4. /\ IsTree(decls') /\ Len(decls') = Len(decls)
          /\ \A l \in 1..Len(decls) :
               /\ Same(decls[l], decls'[l]) /\ decls'[l].paren = decls[l].paren
               /\ Beside(decls'[l]) <=> Beside(decls[l])
      BY <3>3 DEF Spread, Lined
    <3>5. Looser(decls, decls')
      BY <1>2, <3>2, <3>3, SpreadLooser
    <3> QED  BY <1>1, <1>3, <3>4, <3>5 DEF Shifted
  <2> QED  BY <2>1, <2>2, <2>3
<1> QED  BY <1>5, <1>6

\* n is how many of newDecls there are after a step that leaves all but the
\* last of them alone.
Keeps(n) == Len(new') = n /\ \A l \in 1..(n - 1) : new'[l] = new[l]

LEMMA StartDoes ==
  IInv /\ Start =>
    /\ step = "join" /\ i \in 1..Len(decls) /\ IsTree(decls) /\ IsTree(new) /\ IsTree(new')
    /\ UNCHANGED <<source, printed, step, decls>> /\ i' = i + 1
    /\ \E n \in Nat : n >= 1 /\ Len(new) = n - 1 /\ Keeps(n) /\ new'[n] = decls[i]
<1> SUFFICES ASSUME IInv, Start
             PROVE  /\ step = "join" /\ i \in 1..Len(decls) /\ IsTree(decls) /\ IsTree(new) /\ IsTree(new')
                    /\ UNCHANGED <<source, printed, step, decls>> /\ i' = i + 1
                    /\ \E n \in Nat : n >= 1 /\ Len(new) = n - 1 /\ Keeps(n) /\ new'[n] = decls[i]
  OBVIOUS
<1>1. /\ i \in Nat /\ i >= 1 /\ i <= Len(decls) /\ step = "join"
      /\ UNCHANGED <<source, printed, step, decls>> /\ i' = i + 1 /\ new' = Append(new, decls[i])
  BY DEF IInv, InOrder, Start, More
<1>2. IsTree(decls) /\ Len(decls) \in Nat
  BY SeqFacts DEF IInv, Holds, IsTree
<1>3. i \in 1..Len(decls)
  BY <1>1, <1>2
<1>4. IsTree(new) /\ new \in Seq(DeclTree)
  BY <1>1 DEF IInv, Joins, JoinedSo, IsTree
<1>5. IsTree(new')
  <2>1. IInv'
    BY StartIInv
  <2> QED  BY <1>1, <2>1 DEF IInv, Joins, JoinedSo
<1>6. PICK m : m = Len(new)
  OBVIOUS
<1>7. decls[i] \in DeclTree
  BY <1>2, <1>3, TreeFacts
<1>8. m \in Nat /\ Len(new') = m + 1 /\ new'[m + 1] = decls[i] /\ \A l \in 1..m : new'[l] = new[l]
  BY <1>1, <1>4, <1>6, <1>7, AppendFacts
<1>9. m + 1 \in Nat /\ m + 1 >= 1 /\ Len(new) = (m + 1) - 1 /\ (m + 1) - 1 = m
  BY <1>6, <1>8
<1>10. Keeps(m + 1)
  BY <1>8, <1>9 DEF Keeps
<1> QED  BY <1>1, <1>2, <1>3, <1>4, <1>5, <1>8, <1>9, <1>10

LEMMA ContinueDoes ==
  IInv /\ Continue =>
    /\ step = "join" /\ joining /\ i \in 1..Len(decls) /\ IsTree(decls) /\ IsTree(new) /\ IsTree(new')
    /\ UNCHANGED <<source, printed, step, decls, joining>> /\ i' = i + 1
    /\ \E n \in Nat : /\ n >= 1 /\ Len(new) = n /\ Keeps(n)
                      /\ Continues(new[n], decls[i]) /\ new[n].tok # "func"
                      /\ new[n].end < decls[i].line /\ IsContinued(new[n], decls[i], new'[n])
<1> SUFFICES ASSUME IInv, Continue
             PROVE  /\ step = "join" /\ joining /\ i \in 1..Len(decls)
                    /\ IsTree(decls) /\ IsTree(new) /\ IsTree(new')
                    /\ UNCHANGED <<source, printed, step, decls, joining>> /\ i' = i + 1
                    /\ \E n \in Nat : /\ n >= 1 /\ Len(new) = n /\ Keeps(n)
                                      /\ Continues(new[n], decls[i]) /\ new[n].tok # "func"
                                      /\ new[n].end < decls[i].line
                                      /\ IsContinued(new[n], decls[i], new'[n])
  OBVIOUS
<1>1. /\ i \in Nat /\ i >= 1 /\ i <= Len(decls) /\ step = "join" /\ joining /\ i' = i + 1
      /\ UNCHANGED <<source, printed, step, decls, joining>>
      /\ Continues(Group, decls[i]) /\ new' = [new EXCEPT ![Len(new)] = Continued(Group, decls[i])]
  BY DEF IInv, InOrder, Continue, More
<1>2. IsTree(decls) /\ Unique(decls) /\ Len(decls) \in Nat
  BY SeqFacts DEF IInv, Holds, IsTree
<1>3. i \in 1..Len(decls)
  BY <1>1, <1>2
<1>4. /\ IsTree(new) /\ new \in Seq(DeclTree) /\ new # <<>> /\ Group.tok # "func"
      /\ JoinedSo(decls, i - 1, new)
  BY <1>1 DEF IInv, Joins, JoinedSo, IsTree
<1>5. IsTree(new') /\ new' \in Seq(DeclTree)
  <2>1. IInv'
    BY ContinueIInv
  <2> QED  BY <1>1, <2>1 DEF IInv, Joins, JoinedSo, IsTree
<1>6. PICK n : n = Len(new)
  OBVIOUS
<1>7. n \in Nat /\ n >= 1 /\ new[n] \in DeclTree
  BY <1>4, <1>6, LastIs
<1>8. DOMAIN new = 1..n /\ Group = new[n]
  BY <1>4, <1>6, SeqFacts DEF Group
<1> DEFINE e == Continued(new[n], decls[i])
<1>9. new' = [new EXCEPT ![n] = e]
  BY <1>1, <1>6, <1>8
<1> HIDE DEF e
<1>10. DOMAIN new' = 1..n /\ new'[n] = e /\ \A l \in 1..(n - 1) : new'[l] = new[l]
  BY <1>7, <1>8, <1>9
<1>11. Len(new') = n
  <2>1. Len(new') \in Nat /\ 1..Len(new') = 1..n
    BY <1>5, <1>10, SeqFacts
  <2> QED  BY <1>7, <2>1
<1>12. new[n].end < decls[i].line
  <2>1. PICK k \in Nat : i = k + 1 /\ i - 1 = k /\ k < Len(decls)
    <3>1. i - 1 \in Nat /\ i = (i - 1) + 1 /\ i - 1 < Len(decls)
      BY <1>1, <1>2
    <3> QED  BY <3>1
  <2>2. JoinedSo(decls, k, new)
    BY <1>4, <2>1
  <2>3. new # <<>> => new[Len(new)].end < decls[k + 1].line
    BY <1>2, <2>1, <2>2, NextDecl
  <2> QED  BY <1>4, <1>6, <2>1, <2>3
<1>13. IsContinued(new[n], decls[i], e)
  <2>1. IsDecl(new[n])
    BY <1>4, <1>6, <1>7 DEF IsTree
  <2>2. decls[i] \in DeclTree /\ IsDecl(decls[i])
    BY <1>2, <1>3, TreeFacts
  <2> QED  BY <1>4, <1>7, <1>8, <1>12, <2>1, <2>2, ContinuedIs DEF e
<1> QED  BY <1>1, <1>2, <1>3, <1>4, <1>5, <1>6, <1>7, <1>8, <1>10, <1>11, <1>12, <1>13 DEF Keeps

\* e has the specs of g, sorted in parentheses.
SortedIn(g, e) ==
  \E d \in DeclTree :
    /\ d.tok = g.tok /\ d.paren /\ d.doc = g.doc /\ d.line = g.line /\ d.end = g.end
    /\ d.specs = g.specs /\ d.wide = g.wide /\ d.tall = g.tall
    /\ SortedFrom(d, e)

LEMMA JoinedDoes ==
  IInv /\ Joined =>
    /\ step = "join" /\ joining /\ ~joining' /\ IsTree(decls) /\ IsTree(new) /\ IsTree(new')
    /\ UNCHANGED <<source, printed, step, decls, i, merged, last>>
    /\ \E n \in Nat : /\ n >= 1 /\ Len(new) = n /\ Keeps(n)
                      /\ ~ (More /\ Continues(new[n], decls[i]))
                      /\ \/ new'[n] = new[n]
                         \/ merged /\ new[n].tok = "import" /\ SortedIn(new[n], new'[n])
<1> SUFFICES ASSUME IInv, Joined
             PROVE  /\ step = "join" /\ joining /\ ~joining'
                    /\ IsTree(decls) /\ IsTree(new) /\ IsTree(new')
                    /\ UNCHANGED <<source, printed, step, decls, i, merged, last>>
                    /\ \E n \in Nat : /\ n >= 1 /\ Len(new) = n /\ Keeps(n)
                                      /\ ~ (More /\ Continues(new[n], decls[i]))
                                      /\ \/ new'[n] = new[n]
                                         \/ merged /\ new[n].tok = "import" /\ SortedIn(new[n], new'[n])
  OBVIOUS
<1>1. /\ step = "join" /\ joining /\ ~joining' /\ ~ (More /\ Continues(Group, decls[i]))
      /\ UNCHANGED <<source, printed, step, decls, i, merged, last>>
      /\ new' = IF merged /\ Group.tok = "import"
                THEN [new EXCEPT ![Len(new)] = SortImports([Group EXCEPT !.paren = TRUE])]
                ELSE new
  BY DEF Joined
<1>2. IsTree(decls) /\ IsTree(new) /\ Unique(new) /\ new \in Seq(DeclTree) /\ new # <<>>
  BY <1>1 DEF IInv, Holds, Joins, JoinedSo, IsTree
<1>3. IsTree(new') /\ new' \in Seq(DeclTree)
  <2>1. IInv'
    BY JoinedIInv
  <2> QED  BY <1>1, <2>1 DEF IInv, Joins, JoinedSo, IsTree
<1>4. PICK n : n = Len(new)
  OBVIOUS
<1>5. n \in Nat /\ n >= 1 /\ new[n] \in DeclTree
  BY <1>2, <1>4, LastIs
<1>6. DOMAIN new = 1..n /\ Group = new[n] /\ n \in 1..n
  BY <1>2, <1>4, <1>5, SeqFacts DEF Group
<1>7. CASE new' = new
  BY <1>1, <1>2, <1>3, <1>4, <1>5, <1>6, <1>7 DEF Keeps
<1>8. CASE merged /\ Group.tok = "import" /\ new' # new
  <2> DEFINE d == [new[n] EXCEPT !.paren = TRUE]
             e == SortImports(d)
  <2>1. new' = [new EXCEPT ![n] = e]
    BY <1>1, <1>4, <1>6, <1>8
  <2>2. /\ d \in DeclTree /\ d.tok = new[n].tok /\ d.doc = new[n].doc /\ d.line = new[n].line
        /\ d.end = new[n].end /\ d.specs = new[n].specs /\ d.wide = new[n].wide /\ d.tall = new[n].tall
        /\ d.paren = TRUE
    BY <1>5 DEF DeclTree
  <2> HIDE DEF e, d
  <2>3. DOMAIN new' = 1..n /\ new'[n] = e /\ \A l \in 1..(n - 1) : new'[l] = new[l]
    BY <1>5, <1>6, <2>1
  <2>4. Len(new') = n
    <3>1. Len(new') \in Nat /\ 1..Len(new') = 1..n
      BY <1>3, <2>3, SeqFacts
    <3> QED  BY <1>5, <3>1
  <2>5. IsDecl(new[n]) /\ Distinct(new[n])
    <3>1. n \in 1..Len(new)
      BY <1>4, <1>6
    <3>2. \A x \in 1..Len(new[n].specs), y \in 1..Len(new[n].specs) :
            new[n].specs[x].id = new[n].specs[y].id => x = y
      BY <1>2, <3>1 DEF Unique
    <3> QED  BY <1>2, <3>1, <3>2 DEF IsTree, Distinct
  <2>6. IsDecl(d) /\ Distinct(d) /\ d.tok = "import"
    <3>1. d.tok # "func"
      BY <1>6, <1>8, <2>2
    <3> QED  BY <1>6, <1>8, <2>2, <2>5, <3>1 DEF IsDecl, Distinct
  <2>7. SortedFrom(d, e)
    BY <2>2, <2>6, SortImportsIs DEF e
  <2>8. SortedIn(new[n], new'[n])
    BY <2>2, <2>3, <2>7 DEF SortedIn
  <2> QED  BY <1>1, <1>2, <1>3, <1>4, <1>5, <1>6, <1>8, <2>3, <2>4, <2>8 DEF Keeps
<1> QED  BY <1>1, <1>7, <1>8

------------------------------------------------------------------------------
(* Constants *)

\* The constants of a declaration that use iota, with their places in it.
IotasOf(d) ==
  {<<d.specs[j].id, j>> : j \in {j \in 1..Len(d.specs) : d.specs[j].iota}}

\* iota is used for constants in parentheses only.
IotaSafe(d) == \A j \in 1..Len(d.specs) : d.specs[j].iota => d.tok = "const" /\ d.paren

AllSafe(ds) == \A l \in 1..Len(ds) : IotaSafe(ds[l])

\* Those of a file, and of its first k declarations.
IotaSets(ds) == [l \in 1..Len(ds) |-> IotasOf(ds[l])]

UpTo(F, k) == UNION {F[l] : l \in 1..k}

AllIotas(ds) == UpTo(IotaSets(ds), Len(ds))

LEMMA UpToSame ==
  ASSUME NEW F, NEW G, NEW n \in Nat, \A l \in 1..n : G[l] = F[l]
  PROVE  UpTo(G, n) = UpTo(F, n)
BY DEF UpTo

LEMMA UpToMore ==
  ASSUME NEW F, NEW G, NEW n \in Nat, n >= 1, \A l \in 1..(n - 1) : G[l] = F[l]
  PROVE  UpTo(G, n) = UpTo(F, n - 1) \cup G[n]
<1>1. \A l \in 1..n : l \in 1..(n - 1) \/ l = n
  OBVIOUS
<1>2. n \in 1..n /\ \A l \in 1..(n - 1) : l \in 1..n
  OBVIOUS
<1>3. ASSUME NEW x \in UpTo(G, n)  PROVE x \in UpTo(F, n - 1) \cup G[n]
  <2>1. PICK l \in 1..n : x \in G[l]
    BY <1>3 DEF UpTo
  <2> QED  BY <1>1, <2>1 DEF UpTo
<1>4. ASSUME NEW x \in UpTo(F, n - 1) \cup G[n]  PROVE x \in UpTo(G, n)
  <2>1. CASE x \in G[n]
    BY <1>2, <2>1 DEF UpTo
  <2>2. CASE x \in UpTo(F, n - 1)
    <3>1. PICK l \in 1..(n - 1) : x \in F[l]
      BY <2>2 DEF UpTo
    <3>2. l \in 1..n /\ x \in G[l]
      BY <1>2, <3>1
    <3> QED  BY <3>2 DEF UpTo
  <2> QED  BY <1>4, <2>1, <2>2
<1> QED  BY <1>3, <1>4

LEMMA UpToNone == ASSUME NEW F  PROVE UpTo(F, 0) = {}
<1>1. 1..0 = {}
  OBVIOUS
<1> QED  BY <1>1 DEF UpTo

LEMMA IotasAre ==
  ASSUME NEW ds, Len(ds) \in Nat, \A l \in 1..Len(ds) : Len(ds[l].specs) \in Nat
  PROVE  Iotas(ds) = AllIotas(ds)
<1>1. ASSUME NEW x \in Iotas(ds)  PROVE x \in AllIotas(ds)
  <2>1. PICK kj \in Places(ds) : /\ ds[kj[1]].specs[kj[2]].iota
                                 /\ x = <<ds[kj[1]].specs[kj[2]].id, kj[2]>>
    BY <1>1 DEF Iotas
  <2>2. PICK l \in 1..Len(ds) : kj \in {l} \X (1..Len(ds[l].specs))
    BY <2>1 DEF Places
  <2>3. PICK j \in 1..Len(ds[l].specs) : kj = <<l, j>>
    BY <2>2
  <2>4. kj[1] = l /\ kj[2] = j
    BY <2>3
  <2>5. x \in IotasOf(ds[l])
    BY <2>1, <2>3, <2>4 DEF IotasOf
  <2> QED  BY <2>5 DEF AllIotas, UpTo, IotaSets
<1>2. ASSUME NEW x \in AllIotas(ds)  PROVE x \in Iotas(ds)
  <2>1. PICK l \in 1..Len(ds) : x \in IotasOf(ds[l])
    BY <1>2 DEF AllIotas, UpTo, IotaSets
  <2>2. PICK j \in 1..Len(ds[l].specs) : ds[l].specs[j].iota /\ x = <<ds[l].specs[j].id, j>>
    BY <2>1 DEF IotasOf
  <2> DEFINE kj == <<l, j>>
  <2>3. kj[1] = l /\ kj[2] = j
    OBVIOUS
  <2>4. kj \in {l} \X (1..Len(ds[l].specs))
    OBVIOUS
  <2> HIDE DEF kj
  <2>5. kj \in Places(ds)
    BY <2>4 DEF Places
  <2> QED  BY <2>2, <2>3, <2>5 DEF Iotas
<1> QED  BY <1>1, <1>2

LEMMA SameIotas ==
  ASSUME NEW d, NEW e, Shifted(d, e), IotaSafe(d)
  PROVE  IotaSafe(e) /\ IotasOf(e) = IotasOf(d)
<1>1. /\ e.tok = d.tok /\ Len(e.specs) = Len(d.specs)
      /\ \A j \in 1..Len(d.specs) : e.specs[j].id = d.specs[j].id /\ e.specs[j].iota = d.specs[j].iota
      /\ e.paren = d.paren \/ d.tok = "var"
  BY DEF Shifted, Same, Wrapped
<1>2. IotaSafe(e)
  BY <1>1 DEF IotaSafe
<1>3. IotasOf(e) = IotasOf(d)
  BY <1>1 DEF IotasOf
<1> QED  BY <1>2, <1>3

\* What joins a group brings no iota.
LEMMA ContinuedIotas ==
  ASSUME NEW g \in DeclTree, NEW c \in DeclTree, NEW e, IsContinued(g, c, e),
         IotaSafe(g), IotaSafe(c), ~c.paren
  PROVE  IotaSafe(e) /\ IotasOf(e) = IotasOf(g) /\ IotasOf(c) = {}
<1>1. PICK n \in Nat, m \in Nat : n = Len(g.specs) /\ m = Len(c.specs)
  BY DeclFacts
<1>2. \A j \in 1..m : ~c.specs[j].iota
  BY <1>1 DEF IotaSafe
<1>3. /\ Len(e.specs) = n + m /\ e.tok = g.tok /\ e.paren = g.paren
      /\ \A j \in 1..n : e.specs[j] = g.specs[j]
      /\ \A j \in 1..m : e.specs[n + j].iota = c.specs[j].iota
  BY <1>1 DEF IsContinued
<1>4. ASSUME NEW j \in 1..(n + m), e.specs[j].iota  PROVE j \in 1..n
  <2>1. ASSUME ~ (j \in 1..n)  PROVE FALSE
    <3>1. j - n \in 1..m /\ n + (j - n) = j
      BY <2>1
    <3>2. e.specs[n + (j - n)].iota = c.specs[j - n].iota
      BY <1>3, <3>1
    <3> QED  BY <1>2, <1>4, <3>1, <3>2
  <2> QED  BY <2>1
<1>5. \A j \in 1..n : j \in 1..(n + m)
  OBVIOUS
<1>6. IotaSafe(e)
  BY <1>1, <1>3, <1>4 DEF IotaSafe
<1>7. IotasOf(e) = IotasOf(g)
  <2> DEFINE J == {j \in 1..n : g.specs[j].iota}
  <2>1. {j \in 1..Len(e.specs) : e.specs[j].iota} = J
    BY <1>3, <1>4, <1>5
  <2>2. \A j \in J : e.specs[j] = g.specs[j]
    BY <1>3
  <2>3. IotasOf(e) = {<<e.specs[j].id, j>> : j \in J}
    BY <2>1 DEF IotasOf
  <2>4. IotasOf(g) = {<<g.specs[j].id, j>> : j \in J}
    BY <1>1 DEF IotasOf
  <2> HIDE DEF J
  <2> QED  BY <2>2, <2>3, <2>4
<1>8. IotasOf(c) = {}
  BY <1>1, <1>2 DEF IotasOf
<1> QED  BY <1>6, <1>7, <1>8

\* Nor do imports.
LEMMA SortedIotas ==
  ASSUME NEW d, NEW e, SortedFrom(d, e), d.tok # "const", IotaSafe(d)
  PROVE  IotaSafe(e) /\ IotasOf(e) = {} /\ IotasOf(d) = {}
<1>1. \A j \in 1..Len(d.specs) : ~d.specs[j].iota
  BY DEF IotaSafe
<1>2. /\ Len(e.specs) = Len(d.specs)
      /\ \A j \in 1..Len(d.specs) : /\ Sorted(d.specs, j) \in 1..Len(d.specs)
                                    /\ e.specs[j].iota = d.specs[Sorted(d.specs, j)].iota
  BY DEF SortedFrom
<1>3. \A j \in 1..Len(e.specs) : ~e.specs[j].iota
  BY <1>1, <1>2
<1> QED  BY <1>1, <1>3 DEF IotaSafe, IotasOf

\* Printing and parsing leave them as they are.
LEMMA PrintedIotas ==
  ASSUME NEW ds, IsTree(ds), Unique(ds), AllSafe(ds)
  PROVE  AllSafe(Printed(ds)) /\ AllIotas(Printed(ds)) = AllIotas(ds)
<1> DEFINE text == Printed(ds)
<1>1. /\ Len(text) = Len(ds)
      /\ \A k \in 1..Len(ds) :
           /\ text[k].tok = ds[k].tok /\ text[k].paren = Parens(ds[k])
           /\ Len(text[k].specs) = Len(ds[k].specs)
           /\ \A j \in 1..Len(ds[k].specs) : /\ text[k].specs[j].id = ds[k].specs[j].id
                                             /\ text[k].specs[j].iota = ds[k].specs[j].iota
  BY PrintedIs
<1> HIDE DEF text
<1>2. ASSUME NEW k \in 1..Len(ds)  PROVE IotaSafe(text[k]) /\ IotasOf(text[k]) = IotasOf(ds[k])
  <2>1. IotaSafe(ds[k])
    BY DEF AllSafe
  <2>2. ASSUME NEW j \in 1..Len(ds[k].specs), ds[k].specs[j].iota
        PROVE  text[k].tok = "const" /\ text[k].paren
    <3>1. ds[k].tok = "const" /\ ds[k].paren
      BY <2>1, <2>2 DEF IotaSafe
    <3>2. Parens(ds[k])
      BY <3>1 DEF Parens
    <3> QED  BY <1>1, <3>1, <3>2
  <2>3. IotaSafe(text[k])
    BY <1>1, <2>2 DEF IotaSafe
  <2>4. IotasOf(text[k]) = IotasOf(ds[k])
    BY <1>1 DEF IotasOf
  <2> QED  BY <2>3, <2>4
<1>3. Len(ds) \in Nat
  BY SeqFacts DEF IsTree
<1>4. AllIotas(text) = AllIotas(ds)
  <2>1. \A l \in 1..Len(ds) : IotaSets(text)[l] = IotaSets(ds)[l]
    BY <1>1, <1>2 DEF IotaSets
  <2> QED  BY <1>1, <1>3, <2>1, UpToSame DEF AllIotas
<1>5. AllSafe(text)
  BY <1>1, <1>2 DEF AllSafe
<1> QED  BY <1>4, <1>5 DEF text

LEMMA ReadIotas ==
  ASSUME NEW text, IsText(text), AllSafe(text)
  PROVE  AllSafe(Read(text)) /\ AllIotas(Read(text)) = AllIotas(text)
<1> DEFINE ds == Parse(text)
           es == Read(text)
<1>1. /\ Tree(text, ds) /\ Tree(text, es)
      /\ \A k \in 1..Len(text) : SameNames(text[k], ds[k])
      /\ \A k \in 1..Len(text) :
           \/ es[k] = ds[k]
           \/ ds[k].tok = "import" /\ ds[k].paren /\ Distinct(ds[k]) /\ es[k] = SortImports(ds[k])
  BY ParseIs, ReadIs
<1> HIDE DEF ds, es
<1>2. /\ IsTree(ds) /\ IsTree(es) /\ Len(ds) = Len(text) /\ Len(es) = Len(text)
      /\ \A k \in 1..Len(text) : ds[k].tok = text[k].tok /\ ds[k].paren = text[k].paren
  BY <1>1 DEF Tree
<1>3. ASSUME NEW k \in 1..Len(text)  PROVE IotaSafe(es[k]) /\ IotasOf(es[k]) = IotasOf(text[k])
  <2>1. SameNames(text[k], ds[k]) /\ IotaSafe(text[k])
    BY <1>1 DEF AllSafe
  <2>2. IotaSafe(ds[k]) /\ IotasOf(ds[k]) = IotasOf(text[k])
    BY <1>2, <2>1 DEF SameNames, IotaSafe, IotasOf
  <2>3. CASE es[k] = ds[k]
    BY <2>2, <2>3
  <2>4. CASE ds[k].tok = "import" /\ Distinct(ds[k]) /\ es[k] = SortImports(ds[k])
    <3>1. ds[k] \in DeclTree /\ IsDecl(ds[k])
      BY <1>2, TreeFacts
    <3>2. SortedFrom(ds[k], es[k])
      BY <2>4, <3>1, SortImportsIs
    <3> QED  BY <2>2, <2>4, <3>2, SortedIotas
  <2> QED  BY <1>1, <2>3, <2>4
<1>4. Len(text) \in Nat
  BY SeqFacts DEF IsText
<1>5. AllIotas(es) = AllIotas(text)
  <2>1. \A l \in 1..Len(text) : IotaSets(es)[l] = IotaSets(text)[l]
    BY <1>2, <1>3 DEF IotaSets
  <2> QED  BY <1>2, <1>4, <2>1, UpToSame DEF AllIotas
<1>6. AllSafe(es)
  BY <1>2, <1>3 DEF AllSafe
<1> QED  BY <1>5, <1>6 DEF es

\* The constants that use iota keep their places while they are joined: those
\* without parentheses are the only ones that get another.
ConstInv ==
  /\ AllSafe(source) /\ AllSafe(decls) /\ AllSafe(new)
  /\ step = "join" => AllIotas(new) = UpTo(IotaSets(decls), i - 1)
  /\ AllIotas(decls) = AllIotas(source)
  /\ \A r \in 1..Len(printed) : AllIotas(printed[r]) = AllIotas(source)

LEMMA InitConst ==
  ASSUME \A text \in Sources : AllSafe(text)
  PROVE  Init => ConstInv
<1> SUFFICES ASSUME Init  PROVE ConstInv
  OBVIOUS
<1>1. /\ IsText(source) /\ AllSafe(source) /\ decls = Read(source)
      /\ new = <<>> /\ printed = <<>> /\ step # "join"
  BY SourcesAssumption DEF Init
<1>2. Len(<<>>) = 0
  OBVIOUS
<1>3. AllSafe(decls) /\ AllIotas(decls) = AllIotas(source)
  BY <1>1, ReadIotas
<1> QED  BY <1>1, <1>2, <1>3 DEF ConstInv, AllSafe

\* One more is joined: it brings its own, or none.
LEMMA JoinsConst ==
  ASSUME IInv, ConstInv, step = "join", i \in 1..Len(decls),
         UNCHANGED <<source, printed, decls>>, i' = i + 1,
         NEW n \in Nat, n >= 1, Keeps(n), IotaSafe(new'[n]),
         \/ Len(new) = n - 1 /\ IotasOf(new'[n]) = IotasOf(decls[i])
         \/ Len(new) = n /\ IotasOf(new'[n]) = IotasOf(new[n]) /\ IotasOf(decls[i]) = {}
  PROVE  ConstInv'
<1>1. /\ AllSafe(source) /\ AllSafe(decls) /\ AllSafe(new)
      /\ AllIotas(new) = UpTo(IotaSets(decls), i - 1)
      /\ AllIotas(decls) = AllIotas(source)
      /\ \A r \in 1..Len(printed) : AllIotas(printed[r]) = AllIotas(source)
  BY DEF ConstInv
<1>2. Len(new') = n /\ \A l \in 1..(n - 1) : new'[l] = new[l]
  BY DEF Keeps
<1>3. \A l \in 1..(n - 1) : l \in 1..Len(new)
  OBVIOUS
<1>4. \A l \in 1..n : l = n \/ l \in 1..(n - 1)
  OBVIOUS
<1>5. AllSafe(new')
  BY <1>1, <1>2, <1>3, <1>4 DEF AllSafe
<1>6. i \in Nat /\ i' - 1 = i /\ i >= 1 /\ n \in 1..n
  BY DEF IInv, InOrder
<1> DEFINE F == IotaSets(decls)
           N == IotaSets(new)
           M == IotaSets(new')
<1>7. /\ \A l \in 1..(n - 1) : M[l] = N[l]
      /\ M[n] = IotasOf(new'[n]) /\ F[i] = IotasOf(decls[i])
      /\ AllIotas(new') = UpTo(M, n)
  <2>1. \A l \in 1..(n - 1) : M[l] = N[l]
    BY <1>2, <1>3, <1>4 DEF IotaSets
  <2>2. M[n] = IotasOf(new'[n]) /\ F[i] = IotasOf(decls[i])
    BY <1>2, <1>6 DEF IotaSets
  <2> QED  BY <1>2, <2>1, <2>2 DEF AllIotas
<1> HIDE DEF F, M
<1>8. UpTo(F, i) = UpTo(F, i - 1) \cup F[i]
  BY <1>6, UpToMore
<1>9. AllIotas(new') = UpTo(F, i)
  <2>1. UpTo(M, n) = UpTo(N, n - 1) \cup M[n]
    <3>1. n \in Nat /\ n >= 1 /\ \A l \in 1..(n - 1) : M[l] = N[l]
      BY <1>7
    <3> HIDE DEF N
    <3> QED  BY ONLY <3>1, UpToMore
  <2>2. CASE Len(new) = n - 1 /\ IotasOf(new'[n]) = IotasOf(decls[i])
    BY <1>1, <1>7, <1>8, <2>1, <2>2 DEF AllIotas, F
  <2>3. CASE Len(new) = n /\ IotasOf(new'[n]) = IotasOf(new[n]) /\ IotasOf(decls[i]) = {}
    <3>1. N[n] = M[n]
      BY <1>6, <1>7, <2>3 DEF IotaSets
    <3>2. AllIotas(new) = UpTo(N, n)
      BY <2>3 DEF AllIotas
    <3> HIDE DEF N
    <3>3. UpTo(N, n) = UpTo(N, n - 1) \cup N[n]
      BY UpToMore
    <3> QED  BY <1>1, <1>7, <1>8, <2>1, <2>3, <3>1, <3>2, <3>3 DEF F
  <2> QED  BY <2>2, <2>3
<1>10. AllIotas(new)' = UpTo(IotaSets(decls), i - 1)'
  BY <1>6, <1>9 DEF F
<1> QED  BY <1>1, <1>5, <1>10 DEF ConstInv

LEMMA StepConst == IInv /\ ConstInv /\ [Next]_vars => ConstInv'
<1> SUFFICES ASSUME IInv, ConstInv, [Next]_vars  PROVE ConstInv'
  OBVIOUS
<1>1. /\ AllSafe(source) /\ AllSafe(decls) /\ AllSafe(new)
      /\ step = "join" => AllIotas(new) = UpTo(IotaSets(decls), i - 1)
      /\ AllIotas(decls) = AllIotas(source)
      /\ \A r \in 1..Len(printed) : AllIotas(printed[r]) = AllIotas(source)
  BY DEF ConstInv
<1>2. IsTree(decls) /\ Unique(decls) /\ Len(decls) \in Nat
  BY SeqFacts DEF IInv, Holds, IsTree
<1>3. CASE Unwrap \/ Separate
  <2>1. /\ step # "join" /\ UNCHANGED <<source, printed, step, new>>
        /\ Len(decls') = Len(decls) /\ \A l \in 1..Len(decls) : Shifted(decls[l], decls'[l])
    BY <1>3, MovesDo
  <2>2. ASSUME NEW l \in 1..Len(decls)
        PROVE  IotaSafe(decls'[l]) /\ IotasOf(decls'[l]) = IotasOf(decls[l])
    <3>1. Shifted(decls[l], decls'[l]) /\ IotaSafe(decls[l])
      BY <1>1, <2>1 DEF AllSafe
    <3> QED  BY <3>1, SameIotas
  <2>3. AllSafe(decls')
    BY <2>1, <2>2 DEF AllSafe
  <2>4. AllIotas(decls') = AllIotas(decls)
    <3>1. \A l \in 1..Len(decls) : IotaSets(decls')[l] = IotaSets(decls)[l]
      BY <2>1, <2>2 DEF IotaSets
    <3> QED  BY <1>2, <2>1, <3>1, UpToSame DEF AllIotas
  <2> QED  BY <1>1, <2>1, <2>3, <2>4 DEF ConstInv
<1>4. CASE Start
  <2>1. /\ step = "join" /\ i \in 1..Len(decls) /\ UNCHANGED <<source, printed, decls>> /\ i' = i + 1
        /\ \E n \in Nat : n >= 1 /\ Len(new) = n - 1 /\ Keeps(n) /\ new'[n] = decls[i]
    BY <1>4, StartDoes
  <2>2. PICK n \in Nat : n >= 1 /\ Len(new) = n - 1 /\ Keeps(n) /\ new'[n] = decls[i]
    BY <2>1
  <2>3. IotaSafe(new'[n])
    BY <1>1, <2>1, <2>2 DEF AllSafe
  <2> QED  BY <2>1, <2>2, <2>3, JoinsConst
<1>5. CASE Continue
  <2>1. /\ step = "join" /\ i \in 1..Len(decls) /\ UNCHANGED <<source, printed, decls>> /\ i' = i + 1
        /\ IsTree(decls) /\ IsTree(new)
        /\ \E n \in Nat : /\ n >= 1 /\ Len(new) = n /\ Keeps(n)
                          /\ Continues(new[n], decls[i]) /\ IsContinued(new[n], decls[i], new'[n])
    BY <1>5, ContinueDoes
  <2>2. PICK n \in Nat : /\ n >= 1 /\ Len(new) = n /\ Keeps(n)
                         /\ Continues(new[n], decls[i]) /\ IsContinued(new[n], decls[i], new'[n])
    BY <2>1
  <2>3. n \in 1..Len(new)
    BY <2>2
  <2>4. /\ new[n] \in DeclTree /\ decls[i] \in DeclTree /\ ~decls[i].paren
        /\ IotaSafe(new[n]) /\ IotaSafe(decls[i])
    BY <1>1, <2>1, <2>2, <2>3, TreeFacts DEF AllSafe, Continues
  <2>5. IotaSafe(new'[n]) /\ IotasOf(new'[n]) = IotasOf(new[n]) /\ IotasOf(decls[i]) = {}
    BY <2>2, <2>4, ContinuedIotas
  <2> QED  BY <2>1, <2>2, <2>5, JoinsConst
<1>6. CASE Joined
  <2>1. /\ UNCHANGED <<source, printed, step, decls, i>>
        /\ \E n \in Nat : /\ n >= 1 /\ Len(new) = n /\ Keeps(n)
                          /\ \/ new'[n] = new[n]
                             \/ merged /\ new[n].tok = "import" /\ SortedIn(new[n], new'[n])
    BY <1>6, JoinedDoes
  <2>2. PICK n \in Nat : /\ n >= 1 /\ Len(new) = n /\ Keeps(n)
                         /\ \/ new'[n] = new[n]
                            \/ merged /\ new[n].tok = "import" /\ SortedIn(new[n], new'[n])
    BY <2>1
  <2>3. n \in 1..n /\ IotaSafe(new[n])
    BY <1>1, <2>2 DEF AllSafe
  <2>4. IotaSafe(new'[n]) /\ IotasOf(new'[n]) = IotasOf(new[n])
    <3>1. CASE new'[n] = new[n]
      BY <2>3, <3>1
    <3>2. CASE new[n].tok = "import" /\ SortedIn(new[n], new'[n])
      <4>1. PICK d \in DeclTree : d.tok = new[n].tok /\ d.specs = new[n].specs /\ SortedFrom(d, new'[n])
        BY <3>2 DEF SortedIn
      <4>2. IotaSafe(d) /\ IotasOf(d) = IotasOf(new[n]) /\ d.tok # "const"
        BY <2>3, <3>2, <4>1 DEF IotaSafe, IotasOf
      <4> QED  BY <4>1, <4>2, SortedIotas
    <3> QED  BY <2>2, <3>1, <3>2
  <2>5. Len(new') = n /\ \A l \in 1..(n - 1) : new'[l] = new[l]
    BY <2>2 DEF Keeps
  <2>6. \A l \in 1..n : l = n \/ l \in 1..(n - 1)
    OBVIOUS
  <2>7. ASSUME NEW l \in 1..n  PROVE IotaSafe(new'[l]) /\ IotasOf(new'[l]) = IotasOf(new[l])
    BY <1>1, <2>2, <2>4, <2>5, <2>6 DEF AllSafe
  <2>8. AllSafe(new')
    BY <2>5, <2>7 DEF AllSafe
  <2>9. AllIotas(new') = AllIotas(new)
    <3>1. \A l \in 1..n : IotaSets(new')[l] = IotaSets(new)[l]
      BY <2>2, <2>5, <2>7 DEF IotaSets
    <3> QED  BY <2>2, <2>5, <3>1, UpToSame DEF AllIotas
  <2> QED  BY <1>1, <2>1, <2>8, <2>9 DEF ConstInv
<1>7. CASE NextLoop
  <2>1. /\ step = "unwrap" \/ step = "join" \/ step = "separate" \/ step = "walk"
        /\ i' = 1 /\ new' = <<>> /\ decls' = (IF step = "join" THEN new ELSE decls)
        /\ UNCHANGED <<source, printed>>
    BY <1>7, LoopDoes
  <2>2. i - 1 = Len(decls)
    <3>1. i \in Nat /\ i <= Len(decls) + 1 /\ ~ (i <= Len(decls))
      BY <1>7 DEF NextLoop, More, IInv, InOrder
    <3> QED  BY <1>2, <3>1
  <2>3. AllSafe(decls') /\ AllIotas(decls') = AllIotas(source)
    BY <1>1, <2>1, <2>2 DEF AllIotas
  <2>4. Len(<<>>) = 0
    OBVIOUS
  <2>5. AllSafe(new')
    BY <2>1, <2>4 DEF AllSafe
  <2>6. AllIotas(new)' = UpTo(IotaSets(decls), i - 1)'
    <3>1. UpTo(IotaSets(new'), 0) = {} /\ UpTo(IotaSets(decls'), 0) = {}
      BY UpToNone
    <3>2. i' - 1 = 0 /\ Len(new') = 0
      BY <2>1, <2>4
    <3> QED  BY <3>1, <3>2 DEF AllIotas
  <2> QED  BY <1>1, <2>1, <2>3, <2>5, <2>6 DEF ConstInv
<1>8. CASE Render
  <2>1. /\ printed' = Append(printed, Printed(decls))
        /\ \/ step' = "unwrap" /\ decls' = Read(Printed(decls))
           \/ step' = "done" /\ decls' = decls
        /\ UNCHANGED <<source, new>>
    BY <1>8 DEF Render
  <2>2. AllSafe(Printed(decls)) /\ AllIotas(Printed(decls)) = AllIotas(source)
    BY <1>1, <1>2, PrintedIotas
  <2>3. IsText(Printed(decls)) /\ Printed(decls) \in Seq(DeclText)
    BY <1>2, PrintedIs DEF IsText
  <2>4. AllSafe(decls') /\ AllIotas(decls') = AllIotas(source)
    BY <1>1, <2>1, <2>2, <2>3, ReadIotas
  <2>5. PICK n : n = Len(printed)
    OBVIOUS
  <2>6. printed \in Seq(Seq(DeclText))
    BY DEF IInv, Prints
  <2>7. /\ n \in Nat /\ Len(printed') = n + 1 /\ printed'[n + 1] = Printed(decls)
        /\ \A r \in 1..n : printed'[r] = printed[r]
    BY <2>1, <2>3, <2>5, <2>6, AppendFacts
  <2>8. ASSUME NEW r \in 1..(n + 1)  PROVE AllIotas(printed'[r]) = AllIotas(source)
    <3>1. CASE r = n + 1
      BY <2>2, <2>7, <3>1
    <3>2. CASE r # n + 1
      <4>1. r \in 1..n
        BY <2>7, <3>2
      <4> QED  BY <1>1, <2>5, <2>7, <4>1
    <3> QED  BY <3>1, <3>2
  <2>9. step' # "join"
    BY <2>1
  <2> QED  BY <1>1, <2>1, <2>4, <2>7, <2>8, <2>9 DEF ConstInv
<1>9. CASE UNCHANGED vars
  BY <1>9 DEF ConstInv, vars
<1> QED  BY <1>3, <1>4, <1>5, <1>6, <1>7, <1>8, <1>9 DEF Next, Done

\* Constants keep their values, if iota is used in parentheses only: one that
\* uses it keeps its place among those of its declaration (format.go:147-149 and
\* 514-544).  Of others, DeclsIota.cfg shows that they may not.
THEOREM ConstantsStay ==
  ASSUME \A text \in Sources : AllSafe(text)
  PROVE  Spec => []ConstantsKept
<1>1. Spec => []ConstInv
  BY InvariantIInv, InitConst, StepConst, PTL DEF Spec
<1>2. IInv /\ ConstInv => ConstantsKept
  <2> SUFFICES ASSUME IInv, ConstInv, NEW text \in Outputs  PROVE Iotas(text) = Iotas(source)
    BY DEF ConstantsKept
  <2>1. step = "done" /\ (text = printed[1] \/ text = printed[2])
    BY DEF Outputs
  <2>2. /\ IsText(source) /\ Kept(printed[1]) /\ Kept(printed[2])
        /\ AllIotas(printed[1]) = AllIotas(source) /\ AllIotas(printed[2]) = AllIotas(source)
    <3>1. Len(printed) = 2 /\ \A r \in 1..Len(printed) : Kept(printed[r]) /\ AllIotas(printed[r]) = AllIotas(source)
      BY <2>1 DEF IInv, Prints, ConstInv
    <3>2. 1 \in 1..2 /\ 2 \in 1..2
      OBVIOUS
    <3> QED  BY <3>1, <3>2 DEF IInv, InOrder
  <2>3. IsText(text) /\ AllIotas(text) = AllIotas(source)
    BY <2>1, <2>2 DEF Kept
  <2>4. HasIds(text) /\ HasIds(source)
    BY <2>2, <2>3, TextHasIds
  <2>5. Iotas(text) = AllIotas(text) /\ Iotas(source) = AllIotas(source)
    BY <2>4, IotasAre DEF HasIds
  <2> QED  BY <2>3, <2>5
<1> QED  BY <1>1, <1>2, InvariantIInv, PTL

------------------------------------------------------------------------------
(* Directives *)

\* What the specs of a declaration are called, and what is above them.
Says(d) == {<<d.specs[j].id, d.specs[j].doc>> : j \in 1..Len(d.specs)}

\* The specs that a directive above the declaration, or above one of them, is
\* about.
AboveDecl(d) == IF d.doc = "directive" THEN {{x[1] : x \in Says(d)}} ELSE {}
AboveSpec(d) == {{x[1]} : x \in {x \in Says(d) : x[2] = "directive"}}

NoDirective(d) == \A j \in 1..Len(d.specs) : d.specs[j].doc # "directive"

DeclSets(ds) == [l \in 1..Len(ds) |-> AboveDecl(ds[l])]
SpecSets(ds) == [l \in 1..Len(ds) |-> AboveSpec(ds[l])]

\* What directives are about in the first k declarations, and in all.
Above(ds, k) == <<UpTo(DeclSets(ds), k), UpTo(SpecSets(ds), k)>>
AllAbove(ds) == Above(ds, Len(ds))

\* No group of one variable has a directive in its parentheses.
NoneInParens(ds) == \A l \in 1..Len(ds) : Wrapped(ds[l]) => NoDirective(ds[l])

\* A directive is above a spec only if it stays there: in parentheses, on a line
\* below the keyword.  No comment is put in the place of one.
Clear(d) ==
  /\ ~d.paren \/ Wrapped(d) \/ Beside(d) => NoDirective(d)
  /\ Hoisted(d) => d.doc # "directive"

AllClear(ds) == \A l \in 1..Len(ds) : Clear(ds[l])

\* What is below a directive touches nothing above it.
Apart(ds) == \A l \in 2..Len(ds) : ds[l].doc = "directive" => ds[l].line - ds[l - 1].end >= 2

DirectiveInv ==
  /\ AllClear(decls) /\ AllClear(new)
  /\ step \in {"unwrap", "join"} => Apart(decls)
  /\ joining => i > 1 /\ last = decls[i - 1].line /\ Group.doc # "directive"
  /\ step = "join" => AllAbove(new) = Above(decls, i - 1)
  /\ AllAbove(decls) = AllAbove(source)
  /\ \A r \in 1..Len(printed) : AllAbove(printed[r]) = AllAbove(source)

LEMMA SaysFacts ==
  ASSUME NEW d
  PROVE  /\ NoDirective(d) <=> \A x \in Says(d) : x[2] # "directive"
         /\ {x[1] : x \in Says(d)} = {d.specs[j].id : j \in 1..Len(d.specs)}
         /\ NoDirective(d) => AboveSpec(d) = {}
         /\ AboveSpec(d) = {{d.specs[j].id} : j \in {j \in 1..Len(d.specs) : d.specs[j].doc = "directive"}}
<1> DEFINE pair(j) == <<d.specs[j].id, d.specs[j].doc>>
<1>1. \A j \in 1..Len(d.specs) : /\ pair(j)[1] = d.specs[j].id /\ pair(j)[2] = d.specs[j].doc
                                 /\ pair(j) \in Says(d)
  BY DEF Says
<1>2. \A x \in Says(d) : \E j \in 1..Len(d.specs) : x = pair(j)
  BY DEF Says
<1> HIDE DEF pair
<1>3. NoDirective(d) <=> \A x \in Says(d) : x[2] # "directive"
  BY <1>1, <1>2 DEF NoDirective
<1>4. {x[1] : x \in Says(d)} = {d.specs[j].id : j \in 1..Len(d.specs)}
  BY <1>1, <1>2
<1>5. NoDirective(d) => AboveSpec(d) = {}
  BY <1>3 DEF AboveSpec
<1>6. AboveSpec(d) = {{d.specs[j].id} : j \in {j \in 1..Len(d.specs) : d.specs[j].doc = "directive"}}
  BY <1>1, <1>2, SMTT(30) DEF AboveSpec
<1> QED  BY <1>3, <1>4, <1>5, <1>6

LEMMA SameSays ==
  ASSUME NEW d, NEW e, e.doc = d.doc, Says(e) = Says(d)
  PROVE  /\ AboveDecl(e) = AboveDecl(d) /\ AboveSpec(e) = AboveSpec(d)
         /\ NoDirective(e) <=> NoDirective(d)
BY SaysFacts DEF AboveDecl, AboveSpec

LEMMA HoistedIs ==
  ASSUME NEW d
  PROVE  Hoisted(d) <=> Beside(d) /\ d.specs[1].doc # "none"
BY DEF Hoisted, Beside

LEMMA ShiftedClear ==
  ASSUME NEW d \in DeclTree, NEW e \in DeclTree, Shifted(d, e), Clear(d)
  PROVE  Clear(e) /\ Says(e) = Says(d) /\ e.doc = d.doc
<1>1. /\ e.tok = d.tok /\ e.doc = d.doc /\ Len(e.specs) = Len(d.specs)
      /\ \A j \in 1..Len(d.specs) : e.specs[j].id = d.specs[j].id /\ e.specs[j].doc = d.specs[j].doc
      /\ \/ e.paren = d.paren /\ (Beside(e) <=> Beside(d))
         \/ Wrapped(d) /\ ~e.paren /\ Beside(e)
  BY DEF Shifted, Same
<1>2. Says(e) = Says(d)
  BY <1>1 DEF Says
<1>3. NoDirective(e) <=> NoDirective(d)
  BY <1>1, <1>2, SameSays
<1>4. CASE e.paren = d.paren /\ (Beside(e) <=> Beside(d))
  <2>1. Wrapped(e) => Wrapped(d)
    BY <1>1, <1>4 DEF Wrapped
  <2>2. Hoisted(e) => Hoisted(d)
    <3> SUFFICES ASSUME Hoisted(e)  PROVE Hoisted(d)
      OBVIOUS
    <3>1. Beside(d) /\ e.specs[1].doc # "none"
      BY <1>4, HoistedIs
    <3>2. d.specs # <<>> /\ d.specs \in Seq(SpecTree)
      BY <3>1, DeclFacts DEF Beside
    <3>3. 1 \in 1..Len(d.specs)
      BY <3>2, EmptySeq
    <3> QED  BY <1>1, <3>1, <3>3, HoistedIs
  <2> QED  BY <1>1, <1>2, <1>3, <1>4, <2>1, <2>2 DEF Clear
<1>5. CASE Wrapped(d) /\ ~e.paren /\ Beside(e)
  <2>1. NoDirective(e) /\ d.doc = "none"
    BY <1>3, <1>5 DEF Clear, Wrapped
  <2> QED  BY <1>1, <1>2, <2>1 DEF Clear
<1> QED  BY <1>1, <1>4, <1>5

\* What joins a group brings no directive, and changes what is above none.
LEMMA ContinuedClear ==
  ASSUME NEW g \in DeclTree, NEW c \in DeclTree, NEW e, IsContinued(g, c, e), Clear(g), Clear(c),
         ~c.paren, c.doc # "directive", g.doc # "directive"
  PROVE  /\ Clear(e) /\ e.doc # "directive"
         /\ AboveDecl(e) = AboveDecl(g) /\ AboveDecl(c) = {}
         /\ AboveSpec(e) = AboveSpec(g) /\ AboveSpec(c) = {}
<1>1. PICK n \in Nat, m \in Nat : n = Len(g.specs) /\ m = Len(c.specs)
  BY DeclFacts
<1>2. /\ e \in DeclTree /\ e.tok = g.tok /\ e.paren = g.paren /\ e.doc = g.doc /\ e.line = g.line
      /\ Len(e.specs) = n + m
      /\ \A j \in 1..n : e.specs[j] = g.specs[j]
      /\ \A j \in 1..m : e.specs[n + j].doc = IF j = 1 /\ c.doc # "none" THEN c.doc ELSE c.specs[j].doc
  BY <1>1 DEF IsContinued
<1>3. NoDirective(c)
  BY DEF Clear
<1>4. ASSUME NEW j \in 1..(n + m), e.specs[j].doc = "directive"  PROVE j \in 1..n
  <2>1. ASSUME ~ (j \in 1..n)  PROVE FALSE
    <3>1. j - n \in 1..m /\ n + (j - n) = j
      BY <2>1
    <3>2. e.specs[n + (j - n)].doc = IF j - n = 1 /\ c.doc # "none" THEN c.doc ELSE c.specs[j - n].doc
      BY <1>2, <3>1
    <3>3. c.specs[j - n].doc # "directive"
      BY <1>1, <1>3, <3>1 DEF NoDirective
    <3> QED  BY <1>4, <3>1, <3>2, <3>3
  <2> QED  BY <2>1
<1>5. \A j \in 1..n : j \in 1..(n + m)
  OBVIOUS
<1>6. NoDirective(g) => NoDirective(e)
  BY <1>1, <1>2, <1>4 DEF NoDirective
<1>7. AboveSpec(e) = AboveSpec(g)
  <2> DEFINE J == {j \in 1..n : g.specs[j].doc = "directive"}
  <2>1. {j \in 1..Len(e.specs) : e.specs[j].doc = "directive"} = J
    BY <1>2, <1>4, <1>5
  <2>2. \A j \in J : e.specs[j] = g.specs[j]
    BY <1>2
  <2>3. AboveSpec(e) = {{e.specs[j].id} : j \in J}
    BY <2>1, SaysFacts
  <2>4. AboveSpec(g) = {{g.specs[j].id} : j \in J}
    BY <1>1, SaysFacts
  <2> HIDE DEF J
  <2> QED  BY <2>2, <2>3, <2>4
<1>8. Clear(e)
  <2>1. ASSUME ~e.paren \/ Wrapped(e) \/ Beside(e)  PROVE NoDirective(g)
    <3>1. CASE n = 0
      BY <1>1, <3>1 DEF NoDirective
    <3>2. CASE n # 0
      <4>1. 1 \in 1..n /\ g.specs # <<>>
        <5>1. Len(<<>>) = 0
          OBVIOUS
        <5> QED  BY <1>1, <3>2, <5>1
      <4>2. e.specs[1] = g.specs[1]
        BY <1>2, <4>1
      <4>3. ~e.paren => ~g.paren
        BY <1>2
      <4>4. Wrapped(e) => Wrapped(g)
        <5>1. Len(e.specs) = 1 => Len(g.specs) = 1
          <6>1. n + m = 1 => n = 1
            BY <3>2
          <6> QED  BY <1>1, <1>2, <6>1
        <5> QED  BY <1>2, <5>1 DEF Wrapped
      <4>5. Beside(e) => Beside(g)
        BY <1>2, <4>1, <4>2 DEF Beside
      <4> QED  BY <2>1, <4>3, <4>4, <4>5 DEF Clear
    <3> QED  BY <3>1, <3>2
  <2> QED  BY <1>2, <1>6, <2>1 DEF Clear
<1>9. AboveDecl(e) = AboveDecl(g) /\ AboveDecl(c) = {}
  BY <1>2 DEF AboveDecl
<1> QED  BY <1>2, <1>3, <1>7, <1>8, <1>9, SaysFacts

\* Sorting imports takes each comment along.
LEMMA SortedSays ==
  ASSUME NEW d, NEW e, SortedFrom(d, e)
  PROVE  Says(e) = Says(d)
<1>1. /\ Len(e.specs) = Len(d.specs)
      /\ \A j \in 1..Len(d.specs) : /\ Sorted(d.specs, j) \in 1..Len(d.specs)
                                    /\ e.specs[j].id = d.specs[Sorted(d.specs, j)].id
                                    /\ e.specs[j].doc = d.specs[Sorted(d.specs, j)].doc
      /\ \A x \in 1..Len(d.specs) : \E j \in 1..Len(d.specs) : Sorted(d.specs, j) = x
  BY DEF SortedFrom
<1>2. ASSUME NEW x \in Says(e)  PROVE x \in Says(d)
  <2>1. PICK j \in 1..Len(d.specs) : x = <<e.specs[j].id, e.specs[j].doc>>
    BY <1>1, <1>2 DEF Says
  <2> QED  BY <1>1, <2>1 DEF Says
<1>3. ASSUME NEW x \in Says(d)  PROVE x \in Says(e)
  <2>1. PICK k \in 1..Len(d.specs) : x = <<d.specs[k].id, d.specs[k].doc>>
    BY <1>3 DEF Says
  <2>2. PICK j \in 1..Len(d.specs) : Sorted(d.specs, j) = k
    BY <1>1
  <2>3. x = <<e.specs[j].id, e.specs[j].doc>>
    BY <1>1, <2>1, <2>2
  <2> QED  BY <1>1, <2>3 DEF Says
<1> QED  BY <1>2, <1>3

LEMMA SortedClear ==
  ASSUME NEW g \in DeclTree, NEW e, SortedIn(g, e), g.tok = "import", Clear(g), g.doc # "directive"
  PROVE  Clear(e) /\ Says(e) = Says(g) /\ e.doc = g.doc
<1>1. PICK d \in DeclTree : /\ d.tok = g.tok /\ d.paren /\ d.doc = g.doc /\ d.line = g.line /\ d.end = g.end
                            /\ d.specs = g.specs /\ SortedFrom(d, e)
  BY DEF SortedIn
<1>2. /\ e \in DeclTree /\ e.tok = "import" /\ e.doc = g.doc /\ e.paren /\ e.line = g.line
      /\ Len(e.specs) = Len(g.specs)
      /\ \A j \in 1..Len(g.specs) : e.specs[j].line = g.specs[j].line
  BY <1>1 DEF SortedFrom
<1>3. Says(e) = Says(g)
  <2>1. Says(e) = Says(d)
    BY <1>1, SortedSays
  <2> QED  BY <1>1, <2>1 DEF Says
<1>4. Beside(e) => Beside(g)
  <2> SUFFICES ASSUME Beside(e)  PROVE Beside(g)
    OBVIOUS
  <2>1. e.specs # <<>> /\ e.specs \in Seq(SpecTree)
    BY <1>2, DeclFacts DEF Beside
  <2>2. 1 \in 1..Len(g.specs)
    BY <1>2, <2>1, EmptySeq
  <2>3. g.specs # <<>>
    <3>1. Len(<<>>) = 0
      OBVIOUS
    <3> QED  BY <2>2, <3>1
  <2> QED  BY <1>2, <2>2, <2>3 DEF Beside
<1>5. NoDirective(e) <=> NoDirective(g)
  BY <1>2, <1>3, SameSays
<1>6. ~ Wrapped(e)
  BY <1>2 DEF Wrapped
<1>7. Clear(e)
  BY <1>2, <1>4, <1>5, <1>6 DEF Clear
<1> QED  BY <1>2, <1>3, <1>7

\* What is above each, for texts and for trees.
LEMMA AboveAre ==
  ASSUME NEW ds, Len(ds) \in Nat, \A l \in 1..Len(ds) : Len(ds[l].specs) \in Nat
  PROVE  AllAbove(ds) = <<AboveDecls(ds), AboveSpecs(ds)>>
<1>1. ASSUME NEW l \in 1..Len(ds)
      PROVE  /\ AboveDecl(ds[l]) = IF ds[l].doc = "directive"
                                   THEN {{ds[l].specs[j].id : j \in 1..Len(ds[l].specs)}} ELSE {}
             /\ AboveSpec(ds[l]) = {{ds[l].specs[j].id} :
                                      j \in {j \in 1..Len(ds[l].specs) : ds[l].specs[j].doc = "directive"}}
  BY SaysFacts DEF AboveDecl
<1>2. ASSUME NEW x \in AboveDecls(ds)  PROVE x \in UpTo(DeclSets(ds), Len(ds))
  <2>1. PICK l \in {k \in 1..Len(ds) : ds[k].doc = "directive"} : x = {ds[l].specs[j].id : j \in 1..Len(ds[l].specs)}
    BY <1>2 DEF AboveDecls
  <2>2. l \in 1..Len(ds) /\ x \in AboveDecl(ds[l])
    BY <1>1, <2>1
  <2> QED  BY <2>2 DEF UpTo, DeclSets
<1>3. ASSUME NEW x \in UpTo(DeclSets(ds), Len(ds))  PROVE x \in AboveDecls(ds)
  <2>1. PICK l \in 1..Len(ds) : x \in AboveDecl(ds[l])
    BY <1>3 DEF UpTo, DeclSets
  <2>2. ds[l].doc = "directive" /\ x = {ds[l].specs[j].id : j \in 1..Len(ds[l].specs)}
    BY <1>1, <2>1
  <2> QED  BY <2>2 DEF AboveDecls
<1>4. ASSUME NEW x \in AboveSpecs(ds)  PROVE x \in UpTo(SpecSets(ds), Len(ds))
  <2>1. PICK kj \in Places(ds) : ds[kj[1]].specs[kj[2]].doc = "directive" /\ x = {ds[kj[1]].specs[kj[2]].id}
    BY <1>4 DEF AboveSpecs
  <2>2. PICK l \in 1..Len(ds) : kj \in {l} \X (1..Len(ds[l].specs))
    BY <2>1 DEF Places
  <2>3. PICK j \in 1..Len(ds[l].specs) : kj = <<l, j>>
    BY <2>2
  <2>4. kj[1] = l /\ kj[2] = j
    BY <2>3
  <2>5. x \in AboveSpec(ds[l])
    <3>1. ds[l].specs[j].doc = "directive" /\ x = {ds[l].specs[j].id}
      BY <2>1, <2>4
    <3>2. x \in {{ds[l].specs[y].id} : y \in {y \in 1..Len(ds[l].specs) : ds[l].specs[y].doc = "directive"}}
      BY ONLY <3>1, j \in 1..Len(ds[l].specs)
    <3> QED  BY <1>1, <3>2
  <2> QED  BY <2>5 DEF UpTo, SpecSets
<1>5. ASSUME NEW x \in UpTo(SpecSets(ds), Len(ds))  PROVE x \in AboveSpecs(ds)
  <2>1. PICK l \in 1..Len(ds) : x \in AboveSpec(ds[l])
    BY <1>5 DEF UpTo, SpecSets
  <2>2. PICK j \in 1..Len(ds[l].specs) : ds[l].specs[j].doc = "directive" /\ x = {ds[l].specs[j].id}
    <3>1. x \in {{ds[l].specs[y].id} : y \in {y \in 1..Len(ds[l].specs) : ds[l].specs[y].doc = "directive"}}
      BY <1>1, <2>1
    <3> QED  BY ONLY <3>1
  <2> DEFINE kj == <<l, j>>
  <2>3. kj[1] = l /\ kj[2] = j
    OBVIOUS
  <2>4. kj \in {l} \X (1..Len(ds[l].specs))
    OBVIOUS
  <2> HIDE DEF kj
  <2>5. kj \in Places(ds)
    BY <2>4 DEF Places
  <2> QED  BY <2>2, <2>3, <2>5 DEF AboveSpecs
<1>6. UpTo(DeclSets(ds), Len(ds)) = AboveDecls(ds)
  BY <1>2, <1>3
<1>7. UpTo(SpecSets(ds), Len(ds)) = AboveSpecs(ds)
  BY <1>4, <1>5
<1> QED  BY <1>6, <1>7 DEF AllAbove, Above

\* Declarations that say the same, one by one.
LEMMA SameAbove ==
  ASSUME NEW ds, NEW es, NEW n \in Nat, n = Len(ds), n = Len(es),
         \A l \in 1..n : AboveDecl(es[l]) = AboveDecl(ds[l]) /\ AboveSpec(es[l]) = AboveSpec(ds[l])
  PROVE  AllAbove(es) = AllAbove(ds)
<1>1. \A l \in 1..n : DeclSets(es)[l] = DeclSets(ds)[l]
  BY DEF DeclSets
<1>2. \A l \in 1..n : SpecSets(es)[l] = SpecSets(ds)[l]
  BY DEF SpecSets
<1>3. UpTo(DeclSets(es), n) = UpTo(DeclSets(ds), n)
  BY <1>1, UpToSame
<1>4. UpTo(SpecSets(es), n) = UpTo(SpecSets(ds), n)
  BY <1>2, UpToSame
<1> QED  BY <1>3, <1>4 DEF AllAbove, Above

\* One of those that are printed: the comment that goes before the keyword is no
\* directive.
LEMMA PrintedOneAbove ==
  ASSUME NEW d \in DeclTree, IsDecl(d), Clear(d), NEW t,
         t.tok = d.tok, t.paren = Parens(d),
         t.doc = (IF Hoisted(d) THEN d.specs[1].doc ELSE d.doc),
         Len(t.specs) = Len(d.specs),
         \A j \in 1..Len(d.specs) :
           /\ t.specs[j].id = d.specs[j].id
           /\ t.specs[j].doc = IF j = 1 /\ (Hoisted(d) \/ ~Parens(d)) THEN "none" ELSE d.specs[j].doc
  PROVE  /\ Wrapped(t) => NoDirective(t)
         /\ AboveDecl(t) = AboveDecl(d) /\ AboveSpec(t) = AboveSpec(d)
<1>1. Hoisted(d) => NoDirective(d) /\ d.doc # "directive"
  BY HoistedIs DEF Clear
<1>2. Hoisted(d) => d.specs[1].doc # "directive"
  <2> SUFFICES ASSUME Hoisted(d)  PROVE d.specs[1].doc # "directive"
    OBVIOUS
  <2>1. d.specs # <<>> /\ d.specs \in Seq(SpecTree)
    BY DeclFacts DEF Hoisted
  <2>2. 1 \in 1..Len(d.specs)
    BY <2>1, EmptySeq
  <2> QED  BY <1>1, <2>2 DEF NoDirective
<1>3. ~Parens(d) => NoDirective(d)
  <2>1. d.paren \in BOOLEAN /\ (d.tok = "func" => ~d.paren)
    BY DeclFacts DEF IsDecl
  <2>2. ~Parens(d) => ~d.paren
    BY <2>1 DEF Parens
  <2> QED  BY <2>2 DEF Clear
<1>4. AboveDecl(t) = AboveDecl(d)
  <2>1. t.doc = "directive" <=> d.doc = "directive"
    BY <1>1, <1>2
  <2>2. {t.specs[j].id : j \in 1..Len(t.specs)} = {d.specs[j].id : j \in 1..Len(d.specs)}
    OBVIOUS
  <2> QED  BY <2>1, <2>2, SaysFacts DEF AboveDecl
<1>5. ASSUME NoDirective(d)  PROVE NoDirective(t)
  BY <1>5 DEF NoDirective
<1>6. AboveSpec(t) = AboveSpec(d)
  <2>1. CASE NoDirective(d)
    BY <1>5, <2>1, SaysFacts
  <2>2. CASE ~NoDirective(d)
    <3>1. \A j \in 1..Len(d.specs) : t.specs[j].id = d.specs[j].id /\ t.specs[j].doc = d.specs[j].doc
      BY <1>1, <1>3, <2>2
    <3>2. Says(t) = Says(d)
      BY <3>1 DEF Says
    <3> QED  BY <3>2 DEF AboveSpec
  <2> QED  BY <2>1, <2>2
<1>7. Wrapped(t) => NoDirective(t)
  <2> SUFFICES ASSUME Wrapped(t)  PROVE NoDirective(d)
    BY <1>5
  <2>1. CASE Hoisted(d)
    BY <1>1, <2>1
  <2>2. CASE ~Hoisted(d)
    <3>1. d.tok = "var" /\ Len(d.specs) = 1 /\ Parens(d) /\ d.doc = "none"
      BY <2>2 DEF Wrapped
    <3>2. Wrapped(d)
      BY <3>1 DEF Wrapped, Parens
    <3> QED  BY <3>2 DEF Clear
  <2> QED  BY <2>1, <2>2
<1> QED  BY <1>4, <1>6, <1>7

LEMMA PrintedAbove ==
  ASSUME NEW ds, IsTree(ds), Unique(ds), AllClear(ds)
  PROVE  NoneInParens(Printed(ds)) /\ AllAbove(Printed(ds)) = AllAbove(ds)
<1> DEFINE text == Printed(ds)
<1>1. /\ Len(text) = Len(ds)
      /\ \A k \in 1..Len(ds) :
           /\ text[k].tok = ds[k].tok /\ text[k].paren = Parens(ds[k])
           /\ text[k].doc = IF Hoisted(ds[k]) THEN ds[k].specs[1].doc ELSE ds[k].doc
           /\ Len(text[k].specs) = Len(ds[k].specs)
           /\ \A j \in 1..Len(ds[k].specs) :
                /\ text[k].specs[j].id = ds[k].specs[j].id
                /\ text[k].specs[j].doc = IF j = 1 /\ (Hoisted(ds[k]) \/ ~Parens(ds[k]))
                                          THEN "none" ELSE ds[k].specs[j].doc
  BY PrintedIs
<1> HIDE DEF text
<1>2. ASSUME NEW k \in 1..Len(ds)
      PROVE  /\ Wrapped(text[k]) => NoDirective(text[k])
             /\ AboveDecl(text[k]) = AboveDecl(ds[k]) /\ AboveSpec(text[k]) = AboveSpec(ds[k])
  <2>1. ds[k] \in DeclTree /\ IsDecl(ds[k]) /\ Clear(ds[k])
    BY TreeFacts DEF AllClear
  <2>2. PICK d : d = ds[k]
    OBVIOUS
  <2>3. PICK t : t = text[k]
    OBVIOUS
  <2>4. /\ t.tok = d.tok /\ t.paren = Parens(d)
        /\ t.doc = (IF Hoisted(d) THEN d.specs[1].doc ELSE d.doc)
        /\ Len(t.specs) = Len(d.specs)
        /\ \A j \in 1..Len(d.specs) :
             /\ t.specs[j].id = d.specs[j].id
             /\ t.specs[j].doc = IF j = 1 /\ (Hoisted(d) \/ ~Parens(d)) THEN "none" ELSE d.specs[j].doc
    BY <1>1, <2>2, <2>3
  <2>5. /\ Wrapped(t) => NoDirective(t)
        /\ AboveDecl(t) = AboveDecl(d) /\ AboveSpec(t) = AboveSpec(d)
    BY <2>1, <2>2, <2>4, PrintedOneAbove, SMTT(30)
  <2> QED  BY <2>2, <2>3, <2>5
<1>3. Len(ds) \in Nat
  BY SeqFacts DEF IsTree
<1>4. AllAbove(text) = AllAbove(ds)
  BY <1>1, <1>2, <1>3, SameAbove
<1>5. NoneInParens(text)
  BY <1>1, <1>2 DEF NoneInParens
<1> QED  BY <1>4, <1>5 DEF text

LEMMA ReadAbove ==
  ASSUME NEW text, IsText(text), NoneInParens(text)
  PROVE  AllClear(Read(text)) /\ Apart(Read(text)) /\ AllAbove(Read(text)) = AllAbove(text)
<1> DEFINE ds == Parse(text)
           es == Read(text)
<1>1. /\ Tree(text, ds) /\ Tree(text, es)
      /\ \A k \in 1..Len(text) : SameNames(text[k], ds[k])
      /\ \A k \in 1..Len(text) :
           \/ es[k] = ds[k]
           \/ ds[k].tok = "import" /\ ds[k].paren /\ Distinct(ds[k]) /\ es[k] = SortImports(ds[k])
  BY ParseIs, ReadIs
<1> HIDE DEF ds, es
<1>2. /\ IsTree(ds) /\ IsTree(es) /\ Len(ds) = Len(text) /\ Len(es) = Len(text)
      /\ \A k \in 1..Len(text) :
           /\ ds[k].tok = text[k].tok /\ ds[k].paren = text[k].paren /\ ds[k].doc = text[k].doc
           /\ es[k].tok = text[k].tok /\ es[k].paren = text[k].paren /\ es[k].doc = text[k].doc
           /\ Len(es[k].specs) = Len(text[k].specs)
           /\ \A j \in 1..Len(text[k].specs) :
                IF es[k].paren THEN es[k].line < es[k].specs[j].line ELSE es[k].specs[j].line = es[k].line
           /\ k > 1 /\ es[k].doc # "none" => es[k - 1].end < es[k].line - 1
  BY <1>1 DEF Tree
<1>3. Len(text) \in Nat
  BY SeqFacts DEF IsText
<1>4. ASSUME NEW k \in 1..Len(text)  PROVE Says(es[k]) = Says(text[k])
  <2>1. Says(ds[k]) = Says(text[k])
    <3>1. SameNames(text[k], ds[k])
      BY <1>1
    <3>2. Len(ds[k].specs) = Len(text[k].specs)
      BY ONLY <3>1 DEF SameNames
    <3>3. \A j \in 1..Len(ds[k].specs) :
            <<ds[k].specs[j].id, ds[k].specs[j].doc>> = <<text[k].specs[j].id, text[k].specs[j].doc>>
      BY ONLY <3>1, <3>2 DEF SameNames
    <3> QED  BY ONLY <3>2, <3>3 DEF Says
  <2>2. CASE es[k] = ds[k]
    BY <2>1, <2>2
  <2>3. CASE ds[k].tok = "import" /\ Distinct(ds[k]) /\ es[k] = SortImports(ds[k])
    <3>1. ds[k] \in DeclTree /\ IsDecl(ds[k])
      BY <1>2, TreeFacts
    <3>2. SortedFrom(ds[k], es[k])
      BY <2>3, <3>1, SortImportsIs
    <3> QED  BY <2>1, <3>2, SortedSays
  <2> QED  BY <1>1, <2>2, <2>3
<1>5. ASSUME NEW k \in 1..Len(text)
      PROVE  /\ AboveDecl(es[k]) = AboveDecl(text[k]) /\ AboveSpec(es[k]) = AboveSpec(text[k])
             /\ NoDirective(es[k]) <=> NoDirective(text[k])
  BY <1>2, <1>4, SameSays
<1>6. AllAbove(es) = AllAbove(text)
  BY <1>2, <1>3, <1>5, SameAbove
<1>7. ASSUME NEW k \in 1..Len(text)  PROVE Clear(es[k])
  <2>1. ~text[k].paren => \A j \in 1..Len(text[k].specs) : text[k].specs[j].doc = "none"
    <3>1. Len(<<>>) = 0
      OBVIOUS
    <3> QED  BY <3>1, TextFacts
  <2>2. Beside(es[k]) => 1 \in 1..Len(text[k].specs)
    <3>1. Beside(es[k]) => es[k].specs # <<>> /\ es[k].specs \in Seq(SpecTree)
      BY <1>2, TreeFacts DEF Beside
    <3> QED  BY <1>2, <3>1, EmptySeq
  <2>3. Beside(es[k]) => ~es[k].paren
    <3> SUFFICES ASSUME Beside(es[k]), es[k].paren  PROVE FALSE
      OBVIOUS
    <3>1. es[k].line < es[k].specs[1].line /\ es[k].specs[1].line <= es[k].line
      BY <1>2, <2>2 DEF Beside
    <3>2. es[k].line \in Nat /\ es[k].specs[1].line \in Nat
      BY <1>2, <2>2, TreeFacts, DeclFacts
    <3> QED  BY <3>1, <3>2
  <2>4. ~es[k].paren => NoDirective(es[k])
    BY <1>2, <1>5, <2>1 DEF NoDirective
  <2>5. Wrapped(es[k]) => NoDirective(es[k])
    <3>1. Wrapped(es[k]) => Wrapped(text[k])
      BY <1>2 DEF Wrapped
    <3> QED  BY <1>5, <3>1 DEF NoneInParens
  <2>6. ~Hoisted(es[k])
    <3> SUFFICES ASSUME Hoisted(es[k])  PROVE FALSE
      OBVIOUS
    <3>1. Beside(es[k]) /\ es[k].specs[1].doc # "none"
      BY HoistedIs
    <3>2. ~text[k].paren /\ ~es[k].paren /\ 1 \in 1..Len(text[k].specs)
      BY <1>2, <2>2, <2>3, <3>1
    <3>3. <<es[k].specs[1].id, es[k].specs[1].doc>> \in Says(text[k])
      <4>1. 1 \in 1..Len(es[k].specs)
        BY <1>2, <3>2
      <4> QED  BY <1>4, <4>1 DEF Says
    <3>4. PICK j \in 1..Len(text[k].specs) :
            <<es[k].specs[1].id, es[k].specs[1].doc>> = <<text[k].specs[j].id, text[k].specs[j].doc>>
      BY <3>3 DEF Says
    <3>5. es[k].specs[1].doc = text[k].specs[j].doc
      BY <3>4
    <3> QED  BY <2>1, <3>1, <3>2, <3>5
  <2> QED  BY <2>3, <2>4, <2>5, <2>6 DEF Clear
<1>8. Apart(es)
  <2> SUFFICES ASSUME NEW l \in 2..Len(es), es[l].doc = "directive"  PROVE es[l].line - es[l - 1].end >= 2
    BY DEF Apart
  <2>1. l \in 1..Len(text) /\ l - 1 \in 1..Len(text) /\ l > 1
    BY <1>2, <1>3
  <2>2. es[l - 1].end < es[l].line - 1
    BY <1>2, <2>1
  <2>3. es[l].line \in Nat /\ es[l - 1].end \in Nat
    BY <1>2, <2>1, TreeFacts
  <2> QED  BY <2>2, <2>3
<1>9. AllClear(es)
  BY <1>2, <1>7 DEF AllClear
<1> QED  BY <1>6, <1>8, <1>9 DEF es

LEMMA InitDirective ==
  ASSUME \A text \in Sources : NoneInParens(text)
  PROVE  Init => DirectiveInv
<1> SUFFICES ASSUME Init  PROVE DirectiveInv
  OBVIOUS
<1>1. /\ IsText(source) /\ NoneInParens(source) /\ decls = Read(source)
      /\ new = <<>> /\ printed = <<>> /\ step = "unwrap" /\ ~joining
  BY SourcesAssumption DEF Init
<1>2. Len(<<>>) = 0
  OBVIOUS
<1>3. AllClear(decls) /\ Apart(decls) /\ AllAbove(decls) = AllAbove(source)
  BY <1>1, ReadAbove
<1> QED  BY <1>1, <1>2, <1>3 DEF DirectiveInv, AllClear

\* One more is joined, as a group of its own or into the last one.
LEMMA JoinsAbove ==
  ASSUME IInv, DirectiveInv, step = "join", i \in 1..Len(decls),
         NEW n \in Nat, n >= 1, Keeps(n), Clear(new'[n]),
         \/ /\ Len(new) = n - 1
            /\ AboveDecl(new'[n]) = AboveDecl(decls[i]) /\ AboveSpec(new'[n]) = AboveSpec(decls[i])
         \/ /\ Len(new) = n
            /\ AboveDecl(new'[n]) = AboveDecl(new[n]) /\ AboveSpec(new'[n]) = AboveSpec(new[n])
            /\ AboveDecl(decls[i]) = {} /\ AboveSpec(decls[i]) = {}
  PROVE  AllClear(new') /\ AllAbove(new') = Above(decls, i)
<1>1. AllClear(decls) /\ AllClear(new) /\ AllAbove(new) = Above(decls, i - 1)
  BY DEF DirectiveInv
<1>2. Len(new') = n /\ \A l \in 1..(n - 1) : new'[l] = new[l]
  BY DEF Keeps
<1>3. \A l \in 1..(n - 1) : l \in 1..Len(new)
  OBVIOUS
<1>4. \A l \in 1..n : l = n \/ l \in 1..(n - 1)
  OBVIOUS
<1>5. AllClear(new')
  BY <1>1, <1>2, <1>3, <1>4 DEF AllClear
<1>6. i \in Nat /\ i >= 1 /\ n \in 1..n
  BY DEF IInv, InOrder
<1>7. UpTo(DeclSets(new), Len(new)) = UpTo(DeclSets(decls), i - 1)
  BY <1>1 DEF AllAbove, Above
<1>8. UpTo(SpecSets(new), Len(new)) = UpTo(SpecSets(decls), i - 1)
  BY <1>1 DEF AllAbove, Above
<1>9. ASSUME NEW F, NEW N, NEW M, UpTo(N, Len(new)) = UpTo(F, i - 1),
             \A l \in 1..(n - 1) : M[l] = N[l],
             \/ Len(new) = n - 1 /\ M[n] = F[i]
             \/ Len(new) = n /\ M[n] = N[n] /\ F[i] = {}
      PROVE  UpTo(M, n) = UpTo(F, i)
  <2>1. UpTo(M, n) = UpTo(N, n - 1) \cup M[n]
    <3>1. n \in Nat /\ n >= 1 /\ \A l \in 1..(n - 1) : M[l] = N[l]
      BY <1>9
    <3> QED  BY ONLY <3>1, UpToMore
  <2>2. UpTo(F, i) = UpTo(F, i - 1) \cup F[i]
    BY <1>6, UpToMore
  <2>3. UpTo(N, n) = UpTo(N, n - 1) \cup N[n]
    BY UpToMore
  <2> QED  BY <1>9, <2>1, <2>2, <2>3
<1>10. UpTo(DeclSets(new'), n) = UpTo(DeclSets(decls), i)
  <2>1. \A l \in 1..(n - 1) : DeclSets(new')[l] = DeclSets(new)[l]
    BY <1>2, <1>3, <1>4 DEF DeclSets
  <2>2. DeclSets(new')[n] = AboveDecl(new'[n]) /\ DeclSets(decls)[i] = AboveDecl(decls[i])
    BY <1>2, <1>6 DEF DeclSets
  <2>3. Len(new) = n => DeclSets(new)[n] = AboveDecl(new[n])
    BY <1>6 DEF DeclSets
  <2>4. \/ Len(new) = n - 1 /\ DeclSets(new')[n] = DeclSets(decls)[i]
        \/ Len(new) = n /\ DeclSets(new')[n] = DeclSets(new)[n] /\ DeclSets(decls)[i] = {}
    BY <2>2, <2>3
  <2> QED  BY <1>7, <1>9, <2>1, <2>4
<1>11. UpTo(SpecSets(new'), n) = UpTo(SpecSets(decls), i)
  <2>1. \A l \in 1..(n - 1) : SpecSets(new')[l] = SpecSets(new)[l]
    BY <1>2, <1>3, <1>4 DEF SpecSets
  <2>2. SpecSets(new')[n] = AboveSpec(new'[n]) /\ SpecSets(decls)[i] = AboveSpec(decls[i])
    BY <1>2, <1>6 DEF SpecSets
  <2>3. Len(new) = n => SpecSets(new)[n] = AboveSpec(new[n])
    BY <1>6 DEF SpecSets
  <2>4. \/ Len(new) = n - 1 /\ SpecSets(new')[n] = SpecSets(decls)[i]
        \/ Len(new) = n /\ SpecSets(new')[n] = SpecSets(new)[n] /\ SpecSets(decls)[i] = {}
    BY <2>2, <2>3
  <2> QED  BY <1>8, <1>9, <2>1, <2>4
<1> QED  BY <1>2, <1>5, <1>10, <1>11 DEF AllAbove, Above

LEMMA LastJoined ==
  ASSUME NEW n \in Nat, Keeps(n)
  PROVE  Group' = new'[n]
BY DEF Keeps, Group

LEMMA StepDirective == IInv /\ DirectiveInv /\ [Next]_vars => DirectiveInv'
<1> SUFFICES ASSUME IInv, DirectiveInv, [Next]_vars  PROVE DirectiveInv'
  OBVIOUS
<1>1. /\ AllClear(decls) /\ AllClear(new)
      /\ step \in {"unwrap", "join"} => Apart(decls)
      /\ joining => i > 1 /\ last = decls[i - 1].line /\ Group.doc # "directive"
      /\ step = "join" => AllAbove(new) = Above(decls, i - 1)
      /\ AllAbove(decls) = AllAbove(source)
      /\ \A r \in 1..Len(printed) : AllAbove(printed[r]) = AllAbove(source)
  BY DEF DirectiveInv
<1>2. /\ IsTree(decls) /\ Unique(decls) /\ Len(decls) \in Nat
      /\ i \in Nat /\ i >= 1 /\ i <= Len(decls) + 1
      /\ step # "join" => ~joining
  BY SeqFacts DEF IInv, Holds, IsTree, InOrder, Joins
<1>3. CASE Unwrap \/ Separate
  <2>1. /\ step # "join" /\ UNCHANGED <<source, printed, step, new, joining>>
        /\ IsTree(decls') /\ Len(decls') = Len(decls)
        /\ \A l \in 1..Len(decls) : Shifted(decls[l], decls'[l])
        /\ Looser(decls, decls')
    BY <1>3, MovesDo
  <2>2. ASSUME NEW l \in 1..Len(decls)
        PROVE  Clear(decls'[l]) /\ Says(decls'[l]) = Says(decls[l]) /\ decls'[l].doc = decls[l].doc
    <3>1. Shifted(decls[l], decls'[l]) /\ Clear(decls[l])
      BY <1>1, <2>1 DEF AllClear
    <3>2. decls[l] \in DeclTree /\ decls'[l] \in DeclTree
      BY <1>2, <2>1, TreeFacts
    <3> QED  BY <3>1, <3>2, ShiftedClear
  <2>3. AllClear(decls')
    BY <2>1, <2>2 DEF AllClear
  <2>4. AllAbove(decls') = AllAbove(decls)
    <3>1. \A l \in 1..Len(decls) : /\ AboveDecl(decls'[l]) = AboveDecl(decls[l])
                                   /\ AboveSpec(decls'[l]) = AboveSpec(decls[l])
      BY <2>2, SameSays
    <3> QED  BY <1>2, <2>1, <3>1, SameAbove
  <2>5. Apart(decls) => Apart(decls')
    <3> SUFFICES ASSUME Apart(decls), NEW l \in 2..Len(decls), decls'[l].doc = "directive"
                 PROVE  decls'[l].line - decls'[l - 1].end >= 2
      BY <2>1 DEF Apart
    <3>1. l \in 1..Len(decls) /\ l - 1 \in 1..Len(decls)
      BY <1>2
    <3>2. decls[l].line - decls[l - 1].end >= 2
      BY <2>2, <3>1 DEF Apart
    <3>3. decls'[l].line - decls'[l - 1].end >= decls[l].line - decls[l - 1].end
      BY <2>1 DEF Looser
    <3>4. /\ decls[l].line \in Nat /\ decls[l - 1].end \in Nat
          /\ decls'[l].line \in Nat /\ decls'[l - 1].end \in Nat
      BY <1>2, <2>1, <3>1, TreeFacts
    <3> QED  BY <3>2, <3>3, <3>4
  <2> QED  BY <1>1, <1>2, <2>1, <2>3, <2>4, <2>5 DEF DirectiveInv
<1>4. CASE Start
  <2>1. /\ step = "join" /\ i \in 1..Len(decls) /\ UNCHANGED <<source, printed, step, decls>> /\ i' = i + 1
        /\ \E n \in Nat : n >= 1 /\ Len(new) = n - 1 /\ Keeps(n) /\ new'[n] = decls[i]
    BY <1>4, StartDoes
  <2>2. PICK n \in Nat : n >= 1 /\ Len(new) = n - 1 /\ Keeps(n) /\ new'[n] = decls[i]
    BY <2>1
  <2>3. last' = decls[i].line /\ (joining' => decls[i].doc # "directive")
    BY <1>4 DEF Start
  <2>4. Clear(new'[n])
    BY <1>1, <2>1, <2>2 DEF AllClear
  <2>5. AllClear(new') /\ AllAbove(new') = Above(decls, i)
    <3>1. /\ Len(new) = n - 1
          /\ AboveDecl(new'[n]) = AboveDecl(decls[i]) /\ AboveSpec(new'[n]) = AboveSpec(decls[i])
      BY <2>2
    <3> QED  BY <2>1, <2>2, <2>4, <3>1, JoinsAbove
  <2>6. Group' = new'[n]
    BY <2>2, LastJoined
  <2>7. i' - 1 = i /\ i' > 1
    BY <1>2, <2>1
  <2> QED  BY <1>1, <2>1, <2>2, <2>3, <2>5, <2>6, <2>7 DEF DirectiveInv
<1>5. CASE Continue
  <2>1. /\ step = "join" /\ joining /\ i \in 1..Len(decls)
        /\ UNCHANGED <<source, printed, step, decls, joining>> /\ i' = i + 1
        /\ IsTree(new)
        /\ \E n \in Nat : /\ n >= 1 /\ Len(new) = n /\ Keeps(n)
                          /\ Continues(new[n], decls[i]) /\ IsContinued(new[n], decls[i], new'[n])
    BY <1>5, ContinueDoes
  <2>2. PICK n \in Nat : /\ n >= 1 /\ Len(new) = n /\ Keeps(n)
                         /\ Continues(new[n], decls[i]) /\ IsContinued(new[n], decls[i], new'[n])
    BY <2>1
  <2>3. n \in 1..Len(new)
    BY <2>2
  <2>4. /\ new[n] \in DeclTree /\ decls[i] \in DeclTree /\ ~decls[i].paren
        /\ Clear(new[n]) /\ Clear(decls[i]) /\ new[n].doc # "directive"
    BY <1>1, <1>2, <2>1, <2>2, <2>3, TreeFacts DEF AllClear, Continues, Group
  <2>5. decls[i].doc # "directive"
    <3> SUFFICES ASSUME decls[i].doc = "directive"  PROVE FALSE
      OBVIOUS
    <3>1. last >= decls[i].line - 1
      BY <2>2 DEF Continues
    <3>2. i \in 2..Len(decls) /\ i - 1 \in 1..Len(decls) /\ last = decls[i - 1].line
      BY <1>1, <1>2, <2>1
    <3>3. decls[i].line - decls[i - 1].end >= 2
      BY <1>1, <2>1, <3>2 DEF Apart
    <3>4. /\ decls[i].line \in Nat /\ decls[i - 1].end \in Nat
          /\ decls[i - 1].line \in Nat /\ decls[i - 1].line <= decls[i - 1].end
      BY <1>2, <2>1, <3>2, TreeFacts DEF IsDecl
    <3> QED  BY <3>1, <3>2, <3>3, <3>4
  <2>6. /\ Clear(new'[n]) /\ new'[n].doc # "directive"
        /\ AboveDecl(new'[n]) = AboveDecl(new[n]) /\ AboveDecl(decls[i]) = {}
        /\ AboveSpec(new'[n]) = AboveSpec(new[n]) /\ AboveSpec(decls[i]) = {}
    BY <2>2, <2>4, <2>5, ContinuedClear
  <2>7. AllClear(new') /\ AllAbove(new') = Above(decls, i)
    BY <2>1, <2>2, <2>6, JoinsAbove
  <2>8. Group' = new'[n] /\ last' = decls[i].line
    BY <1>5, <2>2, LastJoined DEF Continue
  <2>9. i' - 1 = i /\ i' > 1
    BY <1>2, <2>1
  <2> QED  BY <1>1, <2>1, <2>6, <2>7, <2>8, <2>9 DEF DirectiveInv
<1>6. CASE Joined
  <2>1. /\ step = "join" /\ joining /\ ~joining' /\ IsTree(new) /\ UNCHANGED <<source, printed, step, decls, i>>
        /\ \E n \in Nat : /\ n >= 1 /\ Len(new) = n /\ Keeps(n)
                          /\ \/ new'[n] = new[n]
                             \/ merged /\ new[n].tok = "import" /\ SortedIn(new[n], new'[n])
    BY <1>6, JoinedDoes
  <2>2. PICK n \in Nat : /\ n >= 1 /\ Len(new) = n /\ Keeps(n)
                         /\ \/ new'[n] = new[n]
                            \/ merged /\ new[n].tok = "import" /\ SortedIn(new[n], new'[n])
    BY <2>1
  <2>3. n \in 1..n /\ new[n] \in DeclTree /\ Clear(new[n]) /\ new[n].doc # "directive"
    <3>1. n \in 1..Len(new)
      BY <2>2
    <3> QED  BY <1>1, <2>1, <2>2, <3>1, TreeFacts DEF AllClear, Group
  <2>4. Clear(new'[n]) /\ Says(new'[n]) = Says(new[n]) /\ new'[n].doc = new[n].doc
    BY <2>2, <2>3, SortedClear
  <2>5. AboveDecl(new'[n]) = AboveDecl(new[n]) /\ AboveSpec(new'[n]) = AboveSpec(new[n])
    BY <2>4, SameSays
  <2>6. Len(new') = n /\ \A l \in 1..(n - 1) : new'[l] = new[l]
    BY <2>2 DEF Keeps
  <2>7. \A l \in 1..n : l = n \/ l \in 1..(n - 1)
    OBVIOUS
  <2>8. AllClear(new')
    BY <1>1, <2>2, <2>4, <2>6, <2>7 DEF AllClear
  <2>9. AllAbove(new') = AllAbove(new)
    <3>1. \A l \in 1..n : AboveDecl(new'[l]) = AboveDecl(new[l]) /\ AboveSpec(new'[l]) = AboveSpec(new[l])
      BY <2>5, <2>6, <2>7
    <3> QED  BY <2>2, <2>6, <3>1, SameAbove
  <2> QED  BY <1>1, <2>1, <2>8, <2>9 DEF DirectiveInv
<1>7. CASE NextLoop
  <2>1. /\ \/ step = "unwrap" /\ step' = "join"
           \/ step = "join" /\ step' = "separate"
           \/ step = "separate" /\ step' = "walk"
           \/ step = "walk" /\ step' = "print"
        /\ i' = 1 /\ new' = <<>> /\ decls' = (IF step = "join" THEN new ELSE decls)
        /\ UNCHANGED <<source, printed, joining>>
    BY <1>7, LoopDoes
  <2>2. i - 1 = Len(decls)
    <3>1. ~ (i <= Len(decls))
      BY <1>7 DEF NextLoop, More
    <3> QED  BY <1>2, <3>1
  <2>3. AllClear(decls') /\ AllAbove(decls') = AllAbove(source)
    BY <1>1, <2>1, <2>2 DEF AllAbove
  <2>4. Len(<<>>) = 0
    OBVIOUS
  <2>5. AllClear(new')
    BY <2>1, <2>4 DEF AllClear
  <2>6. AllAbove(new)' = Above(decls, i - 1)'
    <3>1. Above(new', 0) = <<{}, {}>> /\ Above(decls', 0) = <<{}, {}>>
      BY UpToNone DEF Above
    <3>2. i' - 1 = 0 /\ Len(new') = 0
      BY <2>1, <2>4
    <3> QED  BY <3>1, <3>2 DEF AllAbove
  <2>7. ~joining'
    BY <1>7, <2>1 DEF NextLoop
  <2>8. step' \in {"unwrap", "join"} => Apart(decls')
    BY <1>1, <2>1
  <2> QED  BY <1>1, <2>1, <2>3, <2>5, <2>6, <2>7, <2>8 DEF DirectiveInv
<1>8. CASE Render
  <2>1. /\ step = "print" /\ printed' = Append(printed, Printed(decls))
        /\ \/ step' = "unwrap" /\ decls' = Read(Printed(decls))
           \/ step' = "done" /\ decls' = decls
        /\ UNCHANGED <<source, new, joining>>
    BY <1>8 DEF Render
  <2>2. NoneInParens(Printed(decls)) /\ AllAbove(Printed(decls)) = AllAbove(source)
    BY <1>1, <1>2, PrintedAbove
  <2>3. IsText(Printed(decls)) /\ Printed(decls) \in Seq(DeclText)
    BY <1>2, PrintedIs DEF IsText
  <2>4. /\ AllClear(decls') /\ AllAbove(decls') = AllAbove(source)
        /\ step' = "unwrap" => Apart(decls')
    BY <1>1, <2>1, <2>2, <2>3, ReadAbove
  <2>5. PICK n : n = Len(printed)
    OBVIOUS
  <2>6. printed \in Seq(Seq(DeclText))
    BY DEF IInv, Prints
  <2>7. /\ n \in Nat /\ Len(printed') = n + 1 /\ printed'[n + 1] = Printed(decls)
        /\ \A r \in 1..n : printed'[r] = printed[r]
    BY <2>1, <2>3, <2>5, <2>6, AppendFacts
  <2>8. ASSUME NEW r \in 1..(n + 1)  PROVE AllAbove(printed'[r]) = AllAbove(source)
    <3>1. CASE r = n + 1
      BY <2>2, <2>7, <3>1
    <3>2. CASE r # n + 1
      <4>1. r \in 1..n
        BY <2>7, <3>2
      <4> QED  BY <1>1, <2>5, <2>7, <4>1
    <3> QED  BY <3>1, <3>2
  <2>9. step' # "join" /\ ~joining'
    BY <1>2, <2>1
  <2> QED  BY <1>1, <2>1, <2>4, <2>7, <2>8, <2>9 DEF DirectiveInv
<1>9. CASE UNCHANGED vars
  BY <1>9 DEF DirectiveInv, vars, Group
<1> QED  BY <1>3, <1>4, <1>5, <1>6, <1>7, <1>8, <1>9 DEF Next, Done

\* Directives keep what they are above, if no group of one variable has one in
\* its parentheses: joining never continues a declaration with what is below a
\* directive (format.go:497-498 and 514-544).  Of others, DeclsDirective.cfg
\* shows that they may not.
THEOREM DirectivesStay ==
  ASSUME \A text \in Sources : NoneInParens(text)
  PROVE  Spec => []DirectivesKept
<1>1. Spec => []DirectiveInv
  BY InvariantIInv, InitDirective, StepDirective, PTL DEF Spec
<1>2. IInv /\ DirectiveInv => DirectivesKept
  <2> SUFFICES ASSUME IInv, DirectiveInv, NEW text \in Outputs
               PROVE  AboveDecls(text) = AboveDecls(source) /\ AboveSpecs(text) = AboveSpecs(source)
    BY DEF DirectivesKept
  <2>1. step = "done" /\ (text = printed[1] \/ text = printed[2])
    BY DEF Outputs
  <2>2. /\ IsText(source) /\ Kept(printed[1]) /\ Kept(printed[2])
        /\ AllAbove(printed[1]) = AllAbove(source) /\ AllAbove(printed[2]) = AllAbove(source)
    <3>1. Len(printed) = 2 /\ \A r \in 1..Len(printed) : Kept(printed[r]) /\ AllAbove(printed[r]) = AllAbove(source)
      BY <2>1 DEF IInv, Prints, DirectiveInv
    <3>2. 1 \in 1..2 /\ 2 \in 1..2
      OBVIOUS
    <3> QED  BY <3>1, <3>2 DEF IInv, InOrder
  <2>3. IsText(text) /\ AllAbove(text) = AllAbove(source)
    BY <2>1, <2>2 DEF Kept
  <2>4. HasIds(text) /\ HasIds(source)
    BY <2>2, <2>3, TextHasIds
  <2>5. <<AboveDecls(text), AboveSpecs(text)>> = <<AboveDecls(source), AboveSpecs(source)>>
    BY <2>3, <2>4, AboveAre DEF HasIds
  <2> QED  BY <2>5
<1> QED  BY <1>1, <1>2, InvariantIInv, PTL

------------------------------------------------------------------------------
(* Multiline declarations *)

\* A lone spec takes all lines of its declaration, if it is in no parentheses.
Flush(d) ==
  ~d.paren /\ Len(d.specs) = 1 => d.line = d.specs[1].line /\ d.end = d.specs[1].end

\* What a move leaves on one line, was on one line; parentheses stay apart.
Steady(d, e) ==
  /\ d.tok = "func" /\ e.line < e.end => d.line < d.end
  /\ \A j \in 1..Len(d.specs) : e.specs[j].line < e.specs[j].end => d.specs[j].line < d.specs[j].end
  /\ e.paren /\ d.line < d.end => e.line < e.end
  /\ Flush(d) => Flush(e)

LEMMA SteadySelf ==
  ASSUME NEW d
  PROVE  Steady(d, d)
BY DEF Steady

\* A map of lines that keeps their order.
LEMMA Ordered ==
  ASSUME NEW ds, IsTree(ds), NEW to, NEW a, NEW b, Collapses(to, ds, a, b),
         NEW x \in LinesOf(ds), NEW y \in LinesOf(ds), to[x] < to[y]
  PROVE  x < y
<1>1. x \in Nat /\ y \in Nat
  BY DEF LinesOf
<1>2. to[x] \in Nat /\ to[y] \in Nat
  BY DEF Collapses
<1>3. y < x => to[y] <= to[x]
  BY DEF Collapses
<1> QED  BY <1>1, <1>2, <1>3

LEMMA FollowsSteady ==
  ASSUME NEW ds, IsTree(ds), NEW k \in 1..Len(ds), Wrapped(ds[k]), NEW es, NEW to,
         Collapses(to, ds, ds[k].line, ds[k].end), Follows(ds, k, es, to),
         es[k].line = es[k].specs[1].line, es[k].end = es[k].specs[1].end, ~es[k].paren,
         NEW l \in 1..Len(ds), Same(ds[l], es[l]), l # k => es[l].paren = ds[l].paren
  PROVE  Steady(ds[l], es[l])
<1>1. PICK d : d = ds[l]
  OBVIOUS
<1>2. PICK e : e = es[l]
  OBVIOUS
<1>3. /\ d.line \in LinesOf(ds) /\ d.end \in LinesOf(ds)
      /\ \A j \in 1..Len(d.specs) : d.specs[j].line \in LinesOf(ds) /\ d.specs[j].end \in LinesOf(ds)
      /\ LinesOf(ds) \subseteq Nat
  BY <1>1, LinesIn
<1>4. /\ e.end = to[d.end]
      /\ \A j \in 1..Len(d.specs) :
           e.specs[j].line = to[d.specs[j].line] /\ e.specs[j].end = to[d.specs[j].end]
      /\ l # k => e.line = to[d.line]
      /\ e.tok = d.tok /\ Len(e.specs) = Len(d.specs)
  BY <1>1, <1>2 DEF Follows, Same
<1>5. \A j \in 1..Len(d.specs) : e.specs[j].line < e.specs[j].end => d.specs[j].line < d.specs[j].end
  BY <1>3, <1>4, Ordered
<1>6. CASE l = k
  <2>1. d.tok = "var" /\ ~e.paren
    BY <1>1, <1>2, <1>6 DEF Wrapped
  <2>2. Flush(e)
    BY <1>2, <1>6 DEF Flush
  <2> QED  BY <1>1, <1>2, <1>5, <2>1, <2>2 DEF Steady
<1>7. CASE l # k
  <2>1. d.tok = "func" /\ e.line < e.end => d.line < d.end
    BY <1>3, <1>4, <1>7, Ordered
  <2>2. d.line < d.end => e.line < e.end
    <3> SUFFICES ASSUME d.line < d.end  PROVE e.line < e.end
      OBVIOUS
    <3>1. d.end <= ds[k].line \/ ds[k].end <= d.line
      <4>1. ds[k].line \in Nat /\ ds[k].end \in Nat /\ Len(ds) \in Nat
        BY TreeFacts
      <4>2. l < k \/ k < l
        BY <1>7, <4>1
      <4>3. l < k => d.end < ds[k].line
        BY <1>1 DEF IsTree
      <4>4. k < l => ds[k].end < d.line
        BY <1>1 DEF IsTree
      <4> QED  BY <1>3, <4>1, <4>2, <4>3, <4>4
    <3>2. to[d.end] - to[d.line] >= d.end - d.line
      BY <1>3, <3>1 DEF Collapses
    <3>3. to[d.end] \in Nat /\ to[d.line] \in Nat /\ d.line \in Nat /\ d.end \in Nat
      BY <1>3 DEF Collapses
    <3> QED  BY <1>4, <1>7, <3>2, <3>3
  <2>3. Flush(d) => Flush(e)
    <3> SUFFICES ASSUME Flush(d), ~e.paren, Len(e.specs) = 1
                 PROVE  e.line = e.specs[1].line /\ e.end = e.specs[1].end
      BY DEF Flush
    <3>1. ~d.paren /\ Len(d.specs) = 1 /\ 1 \in 1..Len(d.specs)
      <4>1. e.paren = d.paren
        BY <1>1, <1>2, <1>7
      <4>2. Len(d.specs) = 1
        BY <1>4
      <4>3. 1 \in 1..1
        OBVIOUS
      <4> QED  BY <4>1, <4>2, <4>3
    <3>2. d.line = d.specs[1].line /\ d.end = d.specs[1].end
      BY <3>1 DEF Flush
    <3> QED  BY <1>4, <1>7, <3>1, <3>2
  <2> QED  BY <1>1, <1>2, <1>5, <2>1, <2>2, <2>3 DEF Steady
<1> QED  BY <1>6, <1>7

LEMMA SpreadSteady ==
  ASSUME NEW ds, IsTree(ds), NEW at \in Nat, NEW es, Spread(ds, at, es), NEW l \in 1..Len(ds)
  PROVE  Steady(ds[l], es[l]) /\ Steady(es[l], ds[l])
<1>1. PICK d : d = ds[l]
  OBVIOUS
<1>2. PICK e : e = es[l]
  OBVIOUS
<1> DEFINE to == [L \in LinesOf(ds) |-> IF L > at THEN L + 1 ELSE L]
<1>3. /\ d.line \in LinesOf(ds) /\ d.end \in LinesOf(ds)
      /\ \A j \in 1..Len(d.specs) : d.specs[j].line \in LinesOf(ds) /\ d.specs[j].end \in LinesOf(ds)
      /\ LinesOf(ds) \subseteq Nat
  BY <1>1, LinesIn
<1>4. ASSUME NEW x \in LinesOf(ds), NEW y \in LinesOf(ds)  PROVE (to[x] < to[y] <=> x < y) /\ (to[x] = to[y] <=> x = y)
  <2>1. x \in Nat /\ y \in Nat
    BY <1>3
  <2>2. to[x] = (IF x > at THEN x + 1 ELSE x) /\ to[y] = (IF y > at THEN y + 1 ELSE y)
    OBVIOUS
  <2> HIDE DEF to
  <2> QED  BY <2>1, <2>2
<1>5. /\ e.line = to[d.line] /\ e.end = to[d.end]
      /\ \A j \in 1..Len(d.specs) :
           e.specs[j].line = to[d.specs[j].line] /\ e.specs[j].end = to[d.specs[j].end]
      /\ e.tok = d.tok /\ e.paren = d.paren /\ Len(e.specs) = Len(d.specs)
  BY <1>1, <1>2 DEF Spread, Lined, Same
<1> HIDE DEF to
<1>6. \A j \in 1..Len(d.specs) : e.specs[j].line < e.specs[j].end <=> d.specs[j].line < d.specs[j].end
  BY <1>3, <1>4, <1>5
<1>7. e.line < e.end <=> d.line < d.end
  BY <1>3, <1>4, <1>5
<1>8. Flush(e) <=> Flush(d)
  <2>1. ASSUME Len(d.specs) = 1
        PROVE  (e.line = e.specs[1].line <=> d.line = d.specs[1].line) /\ (e.end = e.specs[1].end <=> d.end = d.specs[1].end)
    <3>1. 1 \in 1..Len(d.specs)
      BY <2>1
    <3> QED  BY <1>3, <1>4, <1>5, <3>1, SMTT(30)
  <2> QED  BY <1>5, <2>1 DEF Flush
<1> QED  BY <1>1, <1>2, <1>5, <1>6, <1>7, <1>8 DEF Steady

LEMMA MovesSteady ==
  ASSUME IInv, Unwrap \/ Separate, NEW l \in 1..Len(decls)
  PROVE  Steady(decls[l], decls'[l]) /\ (Separate => Steady(decls'[l], decls[l]))
<1>1. IsTree(decls) /\ Len(decls) \in Nat
  BY SeqFacts DEF IInv, Holds, IsTree
<1>2. i \in 1..Len(decls) /\ Len(decls) > 0
  BY <1>1, MovesDo
<1>3. CASE decls' = decls
  BY <1>3, SteadySelf
<1>4. CASE Unwrap /\ decls' # decls
  <2>1. decls' = removeParens(decls, i) /\ step # "separate"
    BY <1>4 DEF Unwrap
  <2>2. /\ \A m \in 1..Len(decls) :
             /\ Same(decls[m], decls'[m])
             /\ decls'[m].paren = (decls[m].paren /\ ~ (m = i /\ Wrapped(decls[m])))
        /\ Wrapped(decls[i])
        /\ \E to : Collapses(to, decls, decls[i].line, decls[i].end) /\ Follows(decls, i, decls', to)
        /\ decls'[i].line = decls'[i].specs[1].line /\ decls'[i].end = decls'[i].specs[1].end
    BY <1>1, <1>2, <1>4, <2>1, RemoveParensKeeps
  <2>3. PICK to : Collapses(to, decls, decls[i].line, decls[i].end) /\ Follows(decls, i, decls', to)
    BY <2>2
  <2>4. Same(decls[l], decls'[l]) /\ ~decls'[i].paren
    BY <1>2, <2>2
  <2>5. l # i => decls'[l].paren = decls[l].paren
    <3>1. decls[l].paren \in BOOLEAN
      BY <1>1, TreeFacts, DeclFacts
    <3> QED  BY <2>2, <3>1
  <2>6. Steady(decls[l], decls'[l])
    BY <1>1, <1>2, <2>2, <2>3, <2>4, <2>5, FollowsSteady
  <2>7. ~Separate
    BY <2>1 DEF Separate
  <2> QED  BY <2>6, <2>7
<1>5. CASE Separate /\ decls' # decls
  <2>1. i > 1 /\ decls' = addNewline(decls, decls[i - 1].end)
    BY <1>5 DEF Separate
  <2>2. i - 1 \in 1..Len(decls)
    BY <1>1, <1>2, <2>1
  <2>3. decls[i - 1].end \in Nat
    BY <1>1, <2>2, TreeFacts
  <2>4. Spread(decls, decls[i - 1].end, decls')
    BY <1>1, <1>2, <2>1, <2>3, AddNewlineKeeps
  <2> QED  BY <1>1, <2>3, <2>4, SpreadSteady
<1> QED  BY <1>3, <1>4, <1>5

\* What the printer may put on several lines.
Tall(d) ==
  IF d.tok = "func" THEN d.line < d.end \/ d.tall
  ELSE IF Parens(d) THEN d.specs # <<>>
  ELSE d.specs[1].line < d.specs[1].end

\* Parentheses around anything are on lines of their own, and a function that is
\* too tall for one line is too wide for it.
TallIsWide(d) == d.tok = "func" /\ d.tall => d.wide
Sized(d) == TallIsWide(d) /\ (d.paren /\ d.specs # <<>> => d.line < d.end)

Spaced(ds, k) == Tall(ds[k]) /\ Tall(ds[k - 1]) => BlankAbove(ds, k)
SpacedText(text) ==
  \A k \in 2..Len(text) : Height(text[k]) > 1 /\ Height(text[k - 1]) > 1 => text[k].blank

SpacedInv ==
  /\ \A l \in 1..Len(decls) : Sized(decls[l])
  /\ \A l \in 1..Len(new) : Sized(new[l])
  /\ joining /\ merged => Group.line < Group.end
  /\ step = "separate" => \A k \in 2..Len(decls) : k < i => Spaced(decls, k)
  /\ step \in {"walk", "print"} => \A k \in 2..Len(decls) : Spaced(decls, k)
  /\ \A r \in 1..Len(printed) : SpacedText(printed[r])

\* What has no parentheses has a spec, and so has every group of variables: the
\* one kind of group that can lose its parentheses.
Filled(d) == d.tok = "func" \/ (d.paren /\ d.tok # "var") \/ Len(d.specs) # 0
HoistedBare(d) == ~d.paren /\ Hoisted(d) => d.doc = "none"

\* Declarations that could be joined, and are not: there is a line between them.
Single(d) == ~d.paren /\ Len(d.specs) = 1 /\ ~isCgoImport(d)
Pair(g, d) == Single(g) /\ Single(d) /\ g.tok = d.tok /\ g.doc # "directive"
Parted(g, d) == Pair(g, d) => g.line < d.line - 1
Loosened(ds, k) ==
  Pair(ds[k - 1], ds[k]) /\ ds[k - 1].specs[1].line = ds[k - 1].specs[1].end =>
    ds[k].line - ds[k - 1].end >= 2

Grouping(d) == Flush(d) /\ Filled(d) /\ HoistedBare(d)
GroupedText(text) ==
  \A k \in 2..Len(text) :
    LET d == text[k] IN LET b == text[k - 1] IN
    /\ d.tok = b.tok /\ d.tok # "func"
    /\ Height(b) = 1 /\ b.specs # <<>> /\ ~d.paren
    /\ b.doc # "directive"
    /\ ~isCgoImport(b) /\ ~isCgoImport(d)
    => d.blank

GroupInv ==
  /\ \A l \in 1..Len(decls) : Grouping(decls[l])
  /\ \A l \in 1..Len(new) : Grouping(new[l]) /\ ~Wrapped(new[l])
  /\ step = "unwrap" => \A l \in 1..Len(decls) : l < i => ~Wrapped(decls[l])
  /\ step \in {"join", "separate", "walk", "print"} => \A l \in 1..Len(decls) : ~Wrapped(decls[l])
  /\ step = "join" => \A k \in 2..Len(new) : Parted(new[k - 1], new[k])
  /\ joining => IF merged THEN Group.paren \/ Len(Group.specs) >= 2 ELSE last = Group.line
  /\ step = "join" /\ ~joining /\ new # <<>> /\ i <= Len(decls) => Parted(Group, decls[i])
  /\ step \in {"separate", "walk", "print"} => \A k \in 2..Len(decls) : Loosened(decls, k)
  /\ \A r \in 1..Len(printed) : GroupedText(printed[r])

LEMMA PrintedFields ==
  ASSUME NEW ds, NEW k \in 1..Len(ds)
  PROVE  /\ Printed(ds)[k].blank = BlankAbove(ds, k)
         /\ Printed(ds)[k].wide = ds[k].wide /\ Printed(ds)[k].tall = ds[k].tall
         /\ Printed(ds)[k].h = IF ds[k].tok # "func" THEN 0
                               ELSE IF ~OnOneLine(ds[k]) THEN ds[k].end - ds[k].line + 1
                               ELSE IF ds[k].tall THEN 3 ELSE 1
         /\ \A j \in 1..Len(ds[k].specs) :
              Printed(ds)[k].specs[j].h = ds[k].specs[j].end - ds[k].specs[j].line + 1
<1> DEFINE d == ds[k]
           h == IF d.tok # "func" THEN 0
                ELSE IF ~OnOneLine(d) THEN d.end - d.line + 1
                ELSE IF d.tall THEN 3 ELSE 1
           specs == [j \in 1..Len(d.specs) |-> PrintedSpec(d, j)]
           doc == IF Hoisted(d) THEN d.specs[1].doc ELSE d.doc
           blank == BlankAbove(ds, k)
<1>1. Printed(ds)[k] = [tok |-> d.tok, paren |-> Parens(d), blank |-> blank, doc |-> doc,
                        specs |-> specs, h |-> h, wide |-> d.wide, tall |-> d.tall]
  BY DEF Printed, PrintedDecl
<1>2. \A j \in 1..Len(d.specs) : specs[j].h = d.specs[j].end - d.specs[j].line + 1
  BY DEF PrintedSpec
<1> HIDE DEF h, specs, doc, blank
<1>3. /\ Printed(ds)[k].blank = blank /\ Printed(ds)[k].wide = d.wide /\ Printed(ds)[k].tall = d.tall
      /\ Printed(ds)[k].h = h /\ Printed(ds)[k].specs = specs
  BY <1>1
<1> QED  BY <1>2, <1>3 DEF h, blank

\* What is printed on several lines is tall.
LEMMA PrintedTall ==
  ASSUME NEW ds, IsTree(ds), Unique(ds), NEW k \in 1..Len(ds)
  PROVE  /\ Height(Printed(ds)[k]) > 1 => Tall(ds[k])
         /\ Height(Printed(ds)[k]) = 1 /\ Printed(ds)[k].specs # <<>> /\ ds[k].tok # "func" =>
              ~Parens(ds[k]) /\ ds[k].specs[1].line = ds[k].specs[1].end
<1>1. PICK d : d = ds[k]
  OBVIOUS
<1>2. PICK t : t = Printed(ds)[k]
  OBVIOUS
<1>3. /\ d \in DeclTree /\ IsDecl(d) /\ d.line \in Nat /\ d.end \in Nat /\ d.specs \in Seq(SpecTree)
      /\ \A j \in 1..Len(d.specs) : d.specs[j].line \in Nat /\ d.specs[j].end \in Nat
  BY <1>1, TreeFacts, DeclFacts
<1>4. /\ IsText(Printed(ds)) /\ Len(Printed(ds)) = Len(ds)
      /\ t.tok = d.tok /\ t.paren = Parens(d) /\ Len(t.specs) = Len(d.specs)
  BY <1>1, <1>2, PrintedIs
<1>5. /\ t.h = (IF d.tok # "func" THEN 0
                ELSE IF ~OnOneLine(d) THEN d.end - d.line + 1
                ELSE IF d.tall THEN 3 ELSE 1)
      /\ \A j \in 1..Len(d.specs) : t.specs[j].h = d.specs[j].end - d.specs[j].line + 1
  BY <1>1, <1>2, PrintedFields
<1>6. t.specs \in Seq(SpecText)
  BY <1>2, <1>4, TextFacts
<1>7. t.specs = <<>> <=> d.specs = <<>>
  <2>1. Len(<<>>) = 0
    OBVIOUS
  <2>2. t.specs = <<>> <=> Len(t.specs) = 0
    BY <1>6, <2>1, EmptySeq
  <2>3. d.specs = <<>> <=> Len(d.specs) = 0
    BY <1>3, <2>1, EmptySeq
  <2> QED  BY <1>4, <2>2, <2>3
<1>8. CASE d.tok = "func"
  <2>1. Height(t) = t.h
    BY <1>4, <1>8 DEF Height
  <2>2. d.line <= d.end
    BY <1>3 DEF IsDecl
  <2>3. t.h > 1 => d.line < d.end \/ d.tall
    BY <1>3, <1>5, <1>8, <2>2 DEF OnOneLine
  <2> QED  BY <1>1, <1>2, <1>8, <2>1, <2>3 DEF Tall
<1>9. CASE d.tok # "func" /\ Parens(d)
  <2>1. d.specs = <<>> => Height(t) = 1
    BY <1>4, <1>7, <1>9 DEF Height
  <2>2. t.specs # <<>> => Height(t) # 1
    <3> SUFFICES ASSUME t.specs # <<>>  PROVE Height(t) # 1
      OBVIOUS
    <3>1. Height(t) = Below(t.specs)[Len(t.specs)] + 2
      BY <1>2, <1>4, <1>9, HeightIs
    <3>2. Below(t.specs)[Len(t.specs)] \in Nat
      <4>1. Below(t.specs) \in [0..Len(t.specs) -> Nat]
        BY <1>6, BelowIs
      <4>2. Len(t.specs) \in 0..Len(t.specs)
        BY <1>6, SeqFacts
      <4> QED  BY <4>1, <4>2
    <3> QED  BY <3>1, <3>2
  <2> QED  BY <1>1, <1>2, <1>9, <2>1, <2>2 DEF Tall
<1>10. CASE d.tok # "func" /\ ~Parens(d)
  <2>1. Len(d.specs) = 1 /\ 1 \in 1..Len(d.specs)
    <3>1. Len(d.specs) = 1
      BY <1>10 DEF Parens
    <3> QED  BY ONLY <3>1
  <2>2. Height(t) = t.specs[1].h
    BY <1>2, <1>4, <1>10, HeightIs
  <2>3. t.specs[1].h = d.specs[1].end - d.specs[1].line + 1
    BY <1>5, <2>1
  <2>4. d.specs[1].end \in Nat /\ d.specs[1].line \in Nat
    BY <1>3, <2>1
  <2>5. Height(t) > 1 => d.specs[1].line < d.specs[1].end
    BY <2>2, <2>3, <2>4
  <2>6. Height(t) = 1 => d.specs[1].line = d.specs[1].end
    BY <2>2, <2>3, <2>4
  <2> QED  BY <1>1, <1>2, <1>10, <2>5, <2>6 DEF Tall
<1> QED  BY <1>8, <1>9, <1>10

\* An empty line, once printed, is printed after any move.
LEMMA BlankKept ==
  ASSUME NEW ds, IsTree(ds), NEW es, IsTree(es), Len(es) = Len(ds),
         \A l \in 1..Len(ds) : Shifted(ds[l], es[l]), Looser(ds, es),
         NEW k \in 2..Len(ds), BlankAbove(ds, k)
  PROVE  BlankAbove(es, k)
<1>1. Len(ds) \in Nat
  BY SeqFacts DEF IsTree
<1>2. k \in 1..Len(ds) /\ k - 1 \in 1..Len(ds) /\ k # 1
  BY <1>1
<1>3. /\ es[k].tok = ds[k].tok /\ es[k - 1].tok = ds[k - 1].tok /\ es[k].doc = ds[k].doc
      /\ Len(es[k].specs) = Len(ds[k].specs)
      /\ \A j \in 1..Len(ds[k].specs) : es[k].specs[j].doc = ds[k].specs[j].doc
      /\ Beside(ds[k]) => Beside(es[k])
  BY <1>2 DEF Shifted, Same, Wrapped
<1>4. /\ ds[k].line \in Nat /\ ds[k - 1].end \in Nat /\ es[k].line \in Nat /\ es[k - 1].end \in Nat
  BY <1>2, TreeFacts
<1>5. CASE ds[k].tok # ds[k - 1].tok
  BY <1>3, <1>5 DEF BlankAbove
<1>6. CASE Top(ds[k]) < ds[k].line
  <2>1. ds[k].doc # "none" \/ Hoisted(ds[k])
    BY <1>4, <1>6 DEF Top
  <2>2. Hoisted(ds[k]) => Hoisted(es[k])
    <3> SUFFICES ASSUME Hoisted(ds[k])  PROVE Hoisted(es[k])
      OBVIOUS
    <3>1. ds[k].specs # <<>> /\ ds[k].specs \in Seq(SpecTree) /\ Beside(ds[k]) /\ ds[k].specs[1].doc # "none"
      BY <1>2, TreeFacts, HoistedIs DEF Hoisted
    <3>2. 1 \in 1..Len(ds[k].specs)
      BY <3>1, EmptySeq
    <3> QED  BY <1>3, <3>1, <3>2, HoistedIs
  <2>3. Top(es[k]) = es[k].line - 1
    BY <1>3, <2>1, <2>2 DEF Top
  <2> QED  BY <1>4, <2>3 DEF BlankAbove
<1>7. CASE ds[k].line - ds[k - 1].end >= 2
  <2>1. es[k].line - es[k - 1].end >= ds[k].line - ds[k - 1].end
    BY DEF Looser
  <2>2. es[k].line - es[k - 1].end >= 2
    BY <1>4, <1>7, <2>1, SMTT(30)
  <2> QED  BY <2>2 DEF BlankAbove
<1> QED  BY <1>2, <1>5, <1>6, <1>7 DEF BlankAbove

LEMMA SizedKept ==
  ASSUME NEW d \in DeclTree, NEW e \in DeclTree, Shifted(d, e), Steady(d, e)
  PROVE  /\ Tall(e) => Tall(d)
         /\ Sized(d) => Sized(e)
<1>1. /\ e.tok = d.tok /\ e.wide = d.wide /\ e.tall = d.tall /\ Len(e.specs) = Len(d.specs)
      /\ e.paren => d.paren
  BY DEF Shifted, Same
<1>2. e.specs = <<>> <=> d.specs = <<>>
  <2>1. Len(<<>>) = 0
    OBVIOUS
  <2>2. e.specs \in Seq(SpecTree) /\ d.specs \in Seq(SpecTree)
    BY DeclFacts
  <2>3. e.specs = <<>> <=> Len(e.specs) = 0
    BY <2>1, <2>2, EmptySeq
  <2>4. d.specs = <<>> <=> Len(d.specs) = 0
    BY <2>1, <2>2, EmptySeq
  <2> QED  BY <1>1, <2>3, <2>4
<1>3. Parens(e) => Parens(d)
  BY <1>1 DEF Parens
<1>4. e.tok # "func" /\ ~Parens(e) => Len(d.specs) = 1 /\ d.specs # <<>>
  <2> SUFFICES ASSUME e.tok # "func", ~Parens(e)  PROVE Len(d.specs) = 1 /\ d.specs # <<>>
    OBVIOUS
  <2>1. Len(<<>>) = 0
    OBVIOUS
  <2>2. Len(d.specs) = 1
    BY <1>1 DEF Parens
  <2>3. Len(d.specs) # Len(<<>>)
    BY <2>1, <2>2
  <2> QED  BY <2>2, <2>3
<1>5. Tall(e) => Tall(d)
  <2>1. CASE e.tok = "func"
    BY <1>1, <2>1 DEF Tall, Steady
  <2>2. CASE e.tok # "func" /\ Parens(e)
    BY <1>1, <1>2, <1>3, <2>2 DEF Tall
  <2>3. CASE e.tok # "func" /\ ~Parens(e)
    <3>1. 1 \in 1..Len(d.specs)
      BY <1>4, <2>3
    <3>2. e.specs[1].line < e.specs[1].end => d.specs[1].line < d.specs[1].end
      BY <3>1 DEF Steady
    <3> QED  BY <1>1, <1>4, <2>3, <3>2 DEF Tall
  <2> QED  BY <2>1, <2>2, <2>3
<1>6. Sized(d) => Sized(e)
  BY <1>1, <1>2 DEF Sized, TallIsWide, Steady
<1> QED  BY <1>5, <1>6

\* What may be printed on several lines is what Separate takes for multiline.
LEMMA TallIsMulti ==
  ASSUME NEW d \in DeclTree, IsDecl(d), Sized(d), Tall(d)
  PROVE  Multi(d)
<1>1. /\ d.line \in Nat /\ d.end \in Nat /\ d.specs \in Seq(SpecTree) /\ d.line <= d.end
      /\ Len(d.specs) \in Nat
      /\ \A j \in 1..Len(d.specs) : /\ d.specs[j].line \in Nat /\ d.specs[j].end \in Nat
                                    /\ d.line <= d.specs[j].line /\ d.specs[j].line <= d.specs[j].end
                                    /\ d.specs[j].end <= d.end
  BY DeclFacts DEF IsDecl
<1>2. d.line < d.end => Multi(d)
  BY <1>1 DEF Multi, Top
<1>3. CASE d.tok = "func"
  BY <1>2, <1>3 DEF Tall, Multi, Sized, TallIsWide
<1>4. CASE d.tok # "func" /\ Parens(d)
  <2>1. d.specs # <<>>
    BY <1>4 DEF Tall
  <2>2. CASE d.paren
    BY <1>2, <2>1, <2>2 DEF Sized
  <2>3. CASE Len(d.specs) # 1
    <3>1. Len(d.specs) # 0
      BY <1>1, <2>1, EmptySeq
    <3>2. 1 \in 1..Len(d.specs) /\ 2 \in 1..Len(d.specs)
      <4>1. PICK n \in Nat : n = Len(d.specs)
        BY <1>1
      <4>2. n # 0 /\ n # 1
        BY <2>3, <3>1, <4>1
      <4>3. 1 \in 1..n /\ 2 \in 1..n
        BY ONLY n \in Nat, <4>2
      <4> QED  BY <4>1, <4>3
    <3>3. d.specs[1].end < d.specs[2].line
      BY <3>2 DEF IsDecl
    <3> QED  BY <1>1, <1>2, <3>2, <3>3, SMTT(30)
  <2> QED  BY <1>4, <2>2, <2>3 DEF Parens
<1>5. CASE d.tok # "func" /\ ~Parens(d)
  <2>1. 1 \in 1..Len(d.specs) /\ d.specs[1].line < d.specs[1].end
    BY <1>5 DEF Tall, Parens
  <2> QED  BY <1>1, <1>2, <2>1
<1> QED  BY <1>3, <1>4, <1>5

LEMMA ReadSized ==
  ASSUME NEW text, IsText(text), \A k \in 1..Len(text) : TallIsWide(text[k])
  PROVE  \A k \in 1..Len(Read(text)) : Sized(Read(text)[k])
<1> DEFINE ds == Parse(text)
           es == Read(text)
<1>1. /\ Tree(text, ds) /\ Tree(text, es)
      /\ \A k \in 1..Len(text) :
           \/ es[k] = ds[k]
           \/ ds[k].tok = "import" /\ ds[k].paren /\ Distinct(ds[k]) /\ es[k] = SortImports(ds[k])
  BY ParseIs, ReadIs
<1>2. \A k \in 1..Len(text) : ds[k].wide = text[k].wide /\ ds[k].tall = text[k].tall
  BY DEF Parse, ParsedDecl
<1> HIDE DEF ds, es
<1>3. /\ IsTree(ds) /\ IsTree(es) /\ Len(ds) = Len(text) /\ Len(es) = Len(text)
      /\ \A k \in 1..Len(text) :
           /\ es[k].tok = text[k].tok /\ Len(es[k].specs) = Len(text[k].specs)
           /\ \A j \in 1..Len(text[k].specs) : es[k].paren => es[k].line < es[k].specs[j].line
  BY <1>1 DEF Tree
<1>4. ASSUME NEW k \in 1..Len(text)  PROVE Sized(es[k])
  <2>1. es[k].wide = text[k].wide /\ es[k].tall = text[k].tall
    <3>1. CASE es[k] = ds[k]
      BY <1>2, <3>1
    <3>2. CASE ds[k].tok = "import" /\ Distinct(ds[k]) /\ es[k] = SortImports(ds[k])
      <4>1. ds[k] \in DeclTree /\ IsDecl(ds[k])
        BY <1>3, TreeFacts
      <4>2. SortedFrom(ds[k], es[k])
        BY <3>2, <4>1, SortImportsIs
      <4> QED  BY <1>2, <4>2 DEF SortedFrom
    <3> QED  BY <1>1, <3>1, <3>2
  <2>2. TallIsWide(es[k])
    BY <1>3, <2>1 DEF TallIsWide
  <2>3. es[k].paren /\ es[k].specs # <<>> => es[k].line < es[k].end
    <3> SUFFICES ASSUME es[k].paren, es[k].specs # <<>>  PROVE es[k].line < es[k].end
      OBVIOUS
    <3>1. es[k] \in DeclTree /\ IsDecl(es[k]) /\ es[k].specs \in Seq(SpecTree)
      BY <1>3, TreeFacts
    <3>2. 1 \in 1..Len(es[k].specs)
      BY <3>1, EmptySeq
    <3>3. es[k].line < es[k].specs[1].line
      BY <1>3, <3>2
    <3>4. es[k].specs[1].line <= es[k].specs[1].end /\ es[k].specs[1].end <= es[k].end
      BY <3>1, <3>2 DEF IsDecl
    <3>5. /\ es[k].line \in Nat /\ es[k].end \in Nat
          /\ es[k].specs[1].line \in Nat /\ es[k].specs[1].end \in Nat
      BY <3>1, <3>2, DeclFacts
    <3> QED  BY <3>3, <3>4, <3>5, SMTT(30)
  <2> QED  BY <2>2, <2>3 DEF Sized
<1> QED  BY <1>3, <1>4 DEF es

\* What is printed, if the declarations are apart.
LEMMA PrintedSpaced ==
  ASSUME NEW ds, IsTree(ds), Unique(ds), \A l \in 1..Len(ds) : Sized(ds[l]),
         \A k \in 2..Len(ds) : Spaced(ds, k)
  PROVE  SpacedText(Printed(ds)) /\ \A k \in 1..Len(Printed(ds)) : TallIsWide(Printed(ds)[k])
<1>1. Len(Printed(ds)) = Len(ds) /\ Len(ds) \in Nat /\ \A k \in 1..Len(ds) : Printed(ds)[k].tok = ds[k].tok
  <2>1. Len(ds) \in Nat
    BY SeqFacts DEF IsTree
  <2> QED  BY <2>1, PrintedIs
<1>2. ASSUME NEW k \in 1..Len(ds)  PROVE TallIsWide(Printed(ds)[k])
  <2>1. Printed(ds)[k].wide = ds[k].wide /\ Printed(ds)[k].tall = ds[k].tall
    BY PrintedFields
  <2> QED  BY <1>1, <2>1 DEF Sized, TallIsWide
<1>3. ASSUME NEW k \in 2..Len(ds), Height(Printed(ds)[k]) > 1, Height(Printed(ds)[k - 1]) > 1
      PROVE  Printed(ds)[k].blank
  <2>1. k \in 1..Len(ds) /\ k - 1 \in 1..Len(ds)
    BY <1>1
  <2>2. Tall(ds[k]) /\ Tall(ds[k - 1])
    BY <1>3, <2>1, PrintedTall
  <2>3. BlankAbove(ds, k)
    BY <2>2 DEF Spaced
  <2> QED  BY <2>1, <2>3, PrintedFields
<1> QED  BY <1>1, <1>2, <1>3 DEF SpacedText

LEMMA SpacedKept ==
  ASSUME IInv, Unwrap \/ Separate, NEW k \in 2..Len(decls), Spaced(decls, k)
  PROVE  Spaced(decls', k)
<1>1. /\ IsTree(decls) /\ Len(decls) \in Nat /\ IsTree(decls') /\ Len(decls') = Len(decls)
      /\ \A l \in 1..Len(decls) : Shifted(decls[l], decls'[l])
      /\ Looser(decls, decls')
  <2>1. IsTree(decls)
    BY DEF IInv, Holds
  <2>2. Len(decls) \in Nat
    BY <2>1, SeqFacts DEF IsTree
  <2> QED  BY <2>1, <2>2, MovesDo
<1>2. ASSUME NEW l \in 1..Len(decls)  PROVE Tall(decls'[l]) => Tall(decls[l])
  <2>1. decls[l] \in DeclTree /\ decls'[l] \in DeclTree /\ Shifted(decls[l], decls'[l])
    BY <1>1, TreeFacts
  <2>2. Steady(decls[l], decls'[l])
    BY MovesSteady
  <2> QED  BY <2>1, <2>2, SizedKept
<1>3. k \in 1..Len(decls) /\ k - 1 \in 1..Len(decls)
  BY <1>1
<1>4. BlankAbove(decls, k) => BlankAbove(decls', k)
  BY <1>1, BlankKept
<1> QED  BY <1>2, <1>3, <1>4 DEF Spaced

\* The step of Separate for the declaration it has come to.
LEMMA SeparateSpaces ==
  ASSUME IInv, Separate, i > 1, \A l \in 1..Len(decls) : Sized(decls[l])
  PROVE  Spaced(decls', i)
<1>1. /\ IsTree(decls) /\ Len(decls) \in Nat /\ IsTree(decls') /\ Len(decls') = Len(decls)
      /\ i \in 1..Len(decls)
      /\ \A l \in 1..Len(decls) : Shifted(decls[l], decls'[l])
      /\ Looser(decls, decls')
  <2>1. IsTree(decls)
    BY DEF IInv, Holds
  <2>2. Len(decls) \in Nat
    BY <2>1, SeqFacts DEF IsTree
  <2> QED  BY <2>1, <2>2, MovesDo
<1>2. i \in 2..Len(decls) /\ i - 1 \in 1..Len(decls)
  BY <1>1
<1> SUFFICES ASSUME Tall(decls'[i]), Tall(decls'[i - 1])  PROVE BlankAbove(decls', i)
  BY DEF Spaced
<1>3. ASSUME NEW l \in 1..Len(decls), Tall(decls'[l])  PROVE Multi(decls[l])
  <2>1. /\ decls[l] \in DeclTree /\ decls'[l] \in DeclTree /\ Shifted(decls[l], decls'[l])
        /\ IsDecl(decls[l]) /\ Sized(decls[l])
    BY <1>1, TreeFacts
  <2>2. Steady(decls[l], decls'[l])
    BY MovesSteady
  <2>3. Tall(decls[l])
    BY <1>3, <2>1, <2>2, SizedKept
  <2> QED  BY <2>1, <2>3, TallIsMulti
<1>4. Multi(decls[i]) /\ Multi(decls[i - 1])
  BY <1>1, <1>2, <1>3
<1>5. /\ decls[i].line \in Nat /\ decls[i - 1].end \in Nat /\ decls[i - 1].end < decls[i].line
      /\ decls'[i].line \in Nat /\ decls'[i - 1].end \in Nat
  <2>1. i - 1 < i
    BY <1>1
  <2> QED  BY <1>1, <1>2, <2>1, TreeFacts DEF IsTree
<1>6. Top(decls[i]) = decls[i].line \/ Top(decls[i]) < decls[i].line
  BY <1>5 DEF Top
<1>7. CASE Top(decls[i]) < decls[i].line
  <2>1. BlankAbove(decls, i)
    BY <1>7 DEF BlankAbove
  <2> QED  BY <1>1, <1>2, <2>1, BlankKept
<1>8. CASE Top(decls[i]) = decls[i].line /\ decls[i - 1].end + 1 # Top(decls[i])
  <2>1. decls[i].line - decls[i - 1].end >= 2
    BY <1>5, <1>8
  <2>2. BlankAbove(decls, i)
    BY <2>1 DEF BlankAbove
  <2> QED  BY <1>1, <1>2, <2>2, BlankKept
<1>9. CASE Top(decls[i]) = decls[i].line /\ decls[i - 1].end + 1 = Top(decls[i])
  <2>1. decls' = addNewline(decls, decls[i - 1].end)
    BY <1>4, <1>9 DEF Separate
  <2>2. Len(decls) > 0
    BY <1>1
  <2>3. Spread(decls, decls[i - 1].end, decls')
    BY <1>1, <1>5, <2>1, <2>2, AddNewlineKeeps
  <2>4. decls[i].line \in LinesOf(decls) /\ decls[i - 1].end \in LinesOf(decls)
    BY <1>1, <1>2, LinesIn
  <2>5. decls'[i].line = decls[i].line + 1 /\ decls'[i - 1].end = decls[i - 1].end
    <3> DEFINE to == [L \in LinesOf(decls) |-> IF L > decls[i - 1].end THEN L + 1 ELSE L]
    <3>1. /\ to[decls[i].line] = decls[i].line + 1
          /\ to[decls[i - 1].end] = decls[i - 1].end
      BY <1>5, <2>4
    <3>2. /\ decls'[i].line = to[decls[i].line]
          /\ decls'[i - 1].end = to[decls[i - 1].end]
      BY <1>1, <1>2, <2>3 DEF Spread, Lined
    <3> QED  BY <3>1, <3>2
  <2>6. decls'[i].line - decls'[i - 1].end >= 2
    BY <1>5, <1>9, <2>5
  <2> QED  BY <2>6 DEF BlankAbove
<1> QED  BY <1>6, <1>7, <1>8, <1>9

LEMMA InitSpaced ==
  ASSUME \A text \in Sources : \A k \in 1..Len(text) : TallIsWide(text[k])
  PROVE  Init => SpacedInv
<1> SUFFICES ASSUME Init  PROVE SpacedInv
  OBVIOUS
<1>1. /\ IsText(source) /\ decls = Read(source) /\ new = <<>> /\ printed = <<>>
      /\ step = "unwrap" /\ ~joining /\ \A k \in 1..Len(source) : TallIsWide(source[k])
  BY SourcesAssumption DEF Init
<1>2. Len(<<>>) = 0
  OBVIOUS
<1>3. \A l \in 1..Len(decls) : Sized(decls[l])
  BY <1>1, ReadSized
<1> QED  BY <1>1, <1>2, <1>3 DEF SpacedInv

LEMMA StepSpaced == IInv /\ SpacedInv /\ [Next]_vars => SpacedInv'
<1> SUFFICES ASSUME IInv, SpacedInv, [Next]_vars  PROVE SpacedInv'
  OBVIOUS
<1>1. /\ \A l \in 1..Len(decls) : Sized(decls[l])
      /\ \A l \in 1..Len(new) : Sized(new[l])
      /\ joining /\ merged => Group.line < Group.end
      /\ step = "separate" => \A k \in 2..Len(decls) : k < i => Spaced(decls, k)
      /\ step \in {"walk", "print"} => \A k \in 2..Len(decls) : Spaced(decls, k)
      /\ \A r \in 1..Len(printed) : SpacedText(printed[r])
  BY DEF SpacedInv
<1>2. /\ IsTree(decls) /\ Unique(decls) /\ Len(decls) \in Nat
      /\ i \in Nat /\ i >= 1 /\ i <= Len(decls) + 1
      /\ step # "join" => ~joining
  BY SeqFacts DEF IInv, Holds, IsTree, InOrder, Joins
<1>3. CASE Unwrap \/ Separate
  <2>1. /\ step # "join" /\ UNCHANGED <<source, printed, step, new, joining>> /\ i' = i + 1
        /\ i \in 1..Len(decls) /\ IsTree(decls') /\ Len(decls') = Len(decls)
        /\ \A l \in 1..Len(decls) : Shifted(decls[l], decls'[l])
    BY <1>3, MovesDo
  <2>2. ASSUME NEW l \in 1..Len(decls)  PROVE Sized(decls'[l])
    <3>1. decls[l] \in DeclTree /\ decls'[l] \in DeclTree /\ Shifted(decls[l], decls'[l]) /\ Sized(decls[l])
      BY <1>1, <1>2, <2>1, TreeFacts
    <3>2. Steady(decls[l], decls'[l])
      BY <1>3, MovesSteady
    <3> QED  BY <3>1, <3>2, SizedKept
  <2>3. ASSUME NEW k \in 2..Len(decls), Spaced(decls, k)  PROVE Spaced(decls', k)
    BY <1>3, <2>3, SpacedKept
  <2>4. ASSUME step = "separate", NEW k \in 2..Len(decls), k < i'  PROVE Spaced(decls', k)
    <3>1. CASE k < i
      BY <1>1, <2>3, <2>4, <3>1
    <3>2. CASE ~ (k < i)
      <4>1. k = i /\ i > 1
        BY <1>2, <2>1, <2>4, <3>2
      <4>2. Separate
        BY <1>3, <2>4 DEF Unwrap
      <4> QED  BY <1>1, <4>1, <4>2, SeparateSpaces
    <3> QED  BY <3>1, <3>2
  <2> QED  BY <1>1, <1>2, <2>1, <2>2, <2>3, <2>4 DEF SpacedInv
<1>4. CASE Start
  <2>1. /\ step = "join" /\ i \in 1..Len(decls) /\ UNCHANGED <<source, printed, step, decls>>
        /\ \E n \in Nat : n >= 1 /\ Len(new) = n - 1 /\ Keeps(n) /\ new'[n] = decls[i]
    BY <1>4, StartDoes
  <2>2. PICK n \in Nat : n >= 1 /\ Len(new) = n - 1 /\ Keeps(n) /\ new'[n] = decls[i]
    BY <2>1
  <2>3. ~merged'
    BY <1>4 DEF Start
  <2>4. Len(new') = n /\ \A l \in 1..(n - 1) : new'[l] = new[l]
    BY <2>2 DEF Keeps
  <2>5. \A l \in 1..n : l = n \/ l \in 1..(n - 1)
    OBVIOUS
  <2>6. \A l \in 1..Len(new') : Sized(new'[l])
    BY <1>1, <2>1, <2>2, <2>4, <2>5
  <2> QED  BY <1>1, <2>1, <2>3, <2>6 DEF SpacedInv
<1>5. CASE Continue
  <2>1. /\ step = "join" /\ i \in 1..Len(decls) /\ UNCHANGED <<source, printed, step, decls>>
        /\ IsTree(new)
        /\ \E n \in Nat : /\ n >= 1 /\ Len(new) = n /\ Keeps(n)
                          /\ new[n].end < decls[i].line /\ IsContinued(new[n], decls[i], new'[n])
    BY <1>5, ContinueDoes
  <2>2. PICK n \in Nat : /\ n >= 1 /\ Len(new) = n /\ Keeps(n)
                         /\ new[n].end < decls[i].line /\ IsContinued(new[n], decls[i], new'[n])
    BY <2>1
  <2>3. n \in 1..Len(new)
    BY <2>2
  <2>4. new'[n].line < new'[n].end
    <3>1. new'[n].line = new[n].line /\ new'[n].end = decls[i].end
      BY <2>2 DEF IsContinued
    <3>2. /\ new[n].line \in Nat /\ new[n].end \in Nat /\ new[n].line <= new[n].end
          /\ decls[i].line \in Nat /\ decls[i].end \in Nat /\ decls[i].line <= decls[i].end
      BY <1>2, <2>1, <2>3, TreeFacts DEF IsDecl
    <3> QED  BY <2>2, <3>1, <3>2
  <2>5. Sized(new'[n])
    <3>1. /\ new'[n].tok = new[n].tok /\ new'[n].wide = new[n].wide /\ new'[n].tall = new[n].tall
          /\ Sized(new[n])
      BY <1>1, <2>2, <2>3 DEF IsContinued
    <3> QED  BY <2>4, <3>1 DEF Sized, TallIsWide
  <2>6. Len(new') = n /\ \A l \in 1..(n - 1) : new'[l] = new[l]
    BY <2>2 DEF Keeps
  <2>7. \A l \in 1..n : l = n \/ l \in 1..(n - 1)
    OBVIOUS
  <2>8. \A l \in 1..Len(new') : Sized(new'[l])
    BY <1>1, <2>2, <2>5, <2>6, <2>7
  <2>9. Group' = new'[n]
    BY <2>2, LastJoined
  <2> QED  BY <1>1, <2>1, <2>4, <2>8, <2>9 DEF SpacedInv
<1>6. CASE Joined
  <2>1. /\ step = "join" /\ joining /\ ~joining' /\ UNCHANGED <<source, printed, step, decls, i>>
        /\ \E n \in Nat : /\ n >= 1 /\ Len(new) = n /\ Keeps(n)
                          /\ \/ new'[n] = new[n]
                             \/ merged /\ new[n].tok = "import" /\ SortedIn(new[n], new'[n])
    BY <1>6, JoinedDoes
  <2>2. PICK n \in Nat : /\ n >= 1 /\ Len(new) = n /\ Keeps(n)
                         /\ \/ new'[n] = new[n]
                            \/ merged /\ new[n].tok = "import" /\ SortedIn(new[n], new'[n])
    BY <2>1
  <2>3. n \in 1..n /\ Sized(new[n]) /\ Group = new[n]
    BY <1>1, <2>2 DEF Group
  <2>4. Sized(new'[n])
    <3>1. CASE new'[n] = new[n]
      BY <2>3, <3>1
    <3>2. CASE merged /\ new[n].tok = "import" /\ SortedIn(new[n], new'[n])
      <4>1. /\ new'[n].tok = "import" /\ new'[n].line = new[n].line /\ new'[n].end = new[n].end
        BY <3>2 DEF SortedIn, SortedFrom
      <4>2. new[n].line < new[n].end
        BY <1>1, <2>1, <2>3, <3>2
      <4> QED  BY <4>1, <4>2 DEF Sized, TallIsWide
    <3> QED  BY <2>2, <3>1, <3>2
  <2>5. Len(new') = n /\ \A l \in 1..(n - 1) : new'[l] = new[l]
    BY <2>2 DEF Keeps
  <2>6. \A l \in 1..n : l = n \/ l \in 1..(n - 1)
    OBVIOUS
  <2>7. \A l \in 1..Len(new') : Sized(new'[l])
    BY <1>1, <2>2, <2>4, <2>5, <2>6
  <2> QED  BY <1>1, <2>1, <2>7 DEF SpacedInv
<1>7. CASE NextLoop
  <2>1. /\ \/ step = "unwrap" /\ step' = "join"
           \/ step = "join" /\ step' = "separate"
           \/ step = "separate" /\ step' = "walk"
           \/ step = "walk" /\ step' = "print"
        /\ i' = 1 /\ new' = <<>> /\ decls' = (IF step = "join" THEN new ELSE decls)
        /\ UNCHANGED <<source, printed, joining>>
    BY <1>7, LoopDoes
  <2>2. i - 1 = Len(decls) /\ ~joining'
    <3>1. ~ (i <= Len(decls)) /\ ~joining
      BY <1>7 DEF NextLoop, More
    <3> QED  BY <1>2, <2>1, <3>1
  <2>3. \A l \in 1..Len(decls') : Sized(decls'[l])
    BY <1>1, <2>1
  <2>4. Len(<<>>) = 0
    OBVIOUS
  <2>5. \A l \in 1..Len(new') : Sized(new'[l])
    BY <2>1, <2>4
  <2>6. step' = "separate" => \A k \in 2..Len(decls') : k < i' => Spaced(decls', k)
    <3>1. \A k \in 2..Len(decls') : ~ (k < i')
      BY <2>1
    <3> QED  BY <3>1
  <2>7. step' \in {"walk", "print"} => \A k \in 2..Len(decls') : Spaced(decls', k)
    <3>1. CASE step = "separate"
      <4>1. \A k \in 2..Len(decls) : k < i
        BY <1>2, <2>2
      <4> QED  BY <1>1, <2>1, <3>1, <4>1
    <3>2. CASE step = "walk"
      BY <1>1, <2>1, <3>2
    <3> QED  BY <2>1, <3>1, <3>2
  <2> QED  BY <1>1, <2>1, <2>2, <2>3, <2>5, <2>6, <2>7 DEF SpacedInv
<1>8. CASE Render
  <2>1. /\ step = "print" /\ printed' = Append(printed, Printed(decls))
        /\ \/ step' = "unwrap" /\ decls' = Read(Printed(decls))
           \/ step' = "done" /\ decls' = decls
        /\ UNCHANGED <<source, new, joining>>
    BY <1>8 DEF Render
  <2>2. SpacedText(Printed(decls)) /\ \A k \in 1..Len(Printed(decls)) : TallIsWide(Printed(decls)[k])
    BY <1>1, <1>2, <2>1, PrintedSpaced
  <2>3. IsText(Printed(decls)) /\ Printed(decls) \in Seq(DeclText)
    BY <1>2, PrintedIs DEF IsText
  <2>4. \A l \in 1..Len(decls') : Sized(decls'[l])
    BY <1>1, <2>1, <2>2, <2>3, ReadSized
  <2>5. PICK n : n = Len(printed)
    OBVIOUS
  <2>6. printed \in Seq(Seq(DeclText))
    BY DEF IInv, Prints
  <2>7. /\ n \in Nat /\ Len(printed') = n + 1 /\ printed'[n + 1] = Printed(decls)
        /\ \A r \in 1..n : printed'[r] = printed[r]
    BY <2>1, <2>3, <2>5, <2>6, AppendFacts
  <2>8. ASSUME NEW r \in 1..(n + 1)  PROVE SpacedText(printed'[r])
    <3>1. CASE r = n + 1
      BY <2>2, <2>7, <3>1
    <3>2. CASE r # n + 1
      <4>1. r \in 1..n
        BY <2>7, <3>2
      <4> QED  BY <1>1, <2>5, <2>7, <4>1
    <3> QED  BY <3>1, <3>2
  <2>9. ~joining' /\ step' # "separate" /\ ~ (step' \in {"walk", "print"})
    BY <1>2, <2>1
  <2> QED  BY <1>1, <2>1, <2>4, <2>7, <2>8, <2>9 DEF SpacedInv
<1>9. CASE UNCHANGED vars
  BY <1>9 DEF SpacedInv, vars, Group
<1> QED  BY <1>3, <1>4, <1>5, <1>6, <1>7, <1>8, <1>9 DEF Next, Done

\* README.md:276: multiline declarations are separated by an empty line, in what
\* either run prints, if a function that the printer breaks because it is too
\* tall is too wide as well: Separate (format.go:554-590) asks for no more.
THEOREM MultilineSeparated ==
  ASSUME \A text \in Sources : \A k \in 1..Len(text) : TallIsWide(text[k])
  PROVE  Spec => []Separated
<1>1. Spec => []SpacedInv
  BY InvariantIInv, InitSpaced, StepSpaced, PTL DEF Spec
<1>2. IInv /\ SpacedInv => Separated
  <2> SUFFICES ASSUME IInv, SpacedInv, NEW text \in Outputs  PROVE SpacedText(text)
    BY DEF Separated, SpacedText
  <2>1. step = "done" /\ (text = printed[1] \/ text = printed[2])
    BY DEF Outputs
  <2>2. Len(printed) = 2 /\ \A r \in 1..Len(printed) : SpacedText(printed[r])
    BY <2>1 DEF IInv, Prints, SpacedInv
  <2>3. 1 \in 1..2 /\ 2 \in 1..2
    OBVIOUS
  <2> QED  BY <2>1, <2>2, <2>3
<1> QED  BY <1>1, <1>2, InvariantIInv, PTL

------------------------------------------------------------------------------
(* Contiguous declarations *)

LEMMA ReadGrouping ==
  ASSUME NEW text, IsText(text), \A k \in 1..Len(text) : Filled(text[k])
  PROVE  \A k \in 1..Len(Read(text)) : Grouping(Read(text)[k])
<1> DEFINE ds == Parse(text)
           es == Read(text)
<1>1. /\ Tree(text, ds) /\ Tree(text, es)
      /\ \A k \in 1..Len(text) : SameNames(text[k], ds[k])
      /\ \A k \in 1..Len(text) :
           \/ es[k] = ds[k]
           \/ ds[k].tok = "import" /\ ds[k].paren /\ Distinct(ds[k]) /\ es[k] = SortImports(ds[k])
  BY ParseIs, ReadIs
<1>2. \A k \in 1..Len(text) : ds[k] = ParsedDecl(text[k], EndsOf(text)[k])
  BY DEF Parse
<1> HIDE DEF ds, es
<1>3. /\ IsTree(ds) /\ IsTree(es) /\ Len(ds) = Len(text) /\ Len(es) = Len(text)
      /\ \A k \in 1..Len(text) :
           /\ ds[k].tok = text[k].tok /\ ds[k].paren = text[k].paren
           /\ es[k].tok = text[k].tok /\ es[k].paren = text[k].paren
           /\ Len(ds[k].specs) = Len(text[k].specs)
           /\ Len(es[k].specs) = Len(text[k].specs)
  BY <1>1 DEF Tree
<1>4. ASSUME NEW k \in 1..Len(text), ~es[k].paren
      PROVE  es[k] = ds[k] /\ Flush(ds[k])
  <2>1. es[k] = ds[k] /\ ~ds[k].paren /\ ~text[k].paren
    BY <1>1, <1>3, <1>4
  <2>2. CASE Len(ds[k].specs) # 1
    BY <2>1, <2>2 DEF Flush
  <2>3. CASE Len(ds[k].specs) = 1
    <3>1. PICK d : d = text[k]
      OBVIOUS
    <3>2. PICK end : end = EndsOf(text)[k]
      OBVIOUS
    <3>3. PICK e : e = ds[k]
      OBVIOUS
    <3>4. end \in Nat
      <4>1. EndsOf(text) \in [0..Len(text) -> Nat]
        BY EndsAre
      <4>2. k \in 0..Len(text)
        <5>1. Len(text) \in Nat
          BY SeqFacts DEF IsText
        <5> QED  BY <5>1
      <4> QED  BY <3>2, <4>1, <4>2
    <3>5. Len(d.specs) = 1 /\ 1 \in 1..Len(d.specs) /\ ~d.paren /\ d.tok # "func"
      <4>1. Len(text[k].specs) = 1 /\ Len(<<>>) = 0
        BY <1>3, <2>3
      <4>2. text[k].tok # "func"
        <5>1. text[k].tok = "func" => text[k].specs = <<>>
          BY TextFacts
        <5>2. text[k].tok = "func" => Len(text[k].specs) = Len(<<>>)
          BY ONLY <5>1
        <5> QED  BY ONLY <4>1, <5>2
      <4> QED  BY <2>1, <3>1, <4>1, <4>2
    <3>6. d.specs[1].h \in Nat
      BY <3>1, <3>5, TextFacts
    <3>7. Height(d) = d.specs[1].h
      BY <3>1, <3>5, HeightIs
    <3>8. e = ParsedDecl(d, end)
      BY <1>2, <3>1, <3>2, <3>3
    <3> DEFINE line == end - Height(d) + 1
    <3>9. e.line = line /\ e.end = end /\ e.specs = [j \in 1..Len(d.specs) |-> ParsedSpec(d, line, j)]
      BY <3>8 DEF ParsedDecl
    <3>10. e.specs[1] = ParsedSpec(d, line, 1)
      BY <3>5, <3>9
    <3> HIDE DEF line
    <3>11. /\ e.specs[1].end = line + d.specs[1].h - 1
           /\ e.specs[1].line = (line + d.specs[1].h - 1) - d.specs[1].h + 1
      BY <3>5, <3>10 DEF ParsedSpec
    <3>12. line = end - d.specs[1].h + 1
      BY <3>7 DEF line
    <3>13. e.specs[1].end = end
      BY <3>4, <3>6, <3>11, <3>12
    <3>14. e.specs[1].line = line
      BY <3>4, <3>6, <3>11, <3>12
    <3> QED  BY <2>1, <3>3, <3>9, <3>13, <3>14 DEF Flush
  <2> QED  BY <2>1, <2>2, <2>3
<1>5. ASSUME NEW k \in 1..Len(text)  PROVE Grouping(es[k])
  <2>1. Flush(es[k])
    BY <1>4 DEF Flush
  <2>2. Filled(es[k])
    BY <1>3 DEF Filled
  <2>3. HoistedBare(es[k])
    <3> SUFFICES ASSUME ~es[k].paren, Hoisted(es[k])  PROVE FALSE
      BY DEF HoistedBare
    <3>1. es[k].specs # <<>> /\ es[k].specs \in Seq(SpecTree) /\ es[k].specs[1].doc # "none"
      BY <1>3, TreeFacts DEF Hoisted
    <3>2. 1 \in 1..Len(es[k].specs)
      BY <3>1, EmptySeq
    <3>3. es[k] = ds[k] /\ ~text[k].paren /\ 1 \in 1..Len(text[k].specs)
      BY <1>3, <1>4, <3>2
    <3>4. es[k].specs[1].doc = text[k].specs[1].doc
      BY <1>1, <3>3 DEF SameNames
    <3>5. text[k].specs[1].doc = "none"
      <4>1. Len(<<>>) = 0
        OBVIOUS
      <4>2. text[k].tok # "func"
        <5>1. text[k].tok = "func" => text[k].specs = <<>>
          BY TextFacts
        <5> QED  BY <3>3, <4>1, <5>1
      <4> QED  BY <3>3, <4>2, TextFacts
    <3> QED  BY <3>1, <3>4, <3>5
  <2> QED  BY <2>1, <2>2, <2>3 DEF Grouping
<1> QED  BY <1>3, <1>5 DEF es

\* A declaration that is moved.
LEMMA GroupingKept ==
  ASSUME NEW d \in DeclTree, NEW e \in DeclTree, Shifted(d, e), Steady(d, e), Grouping(d)
  PROVE  /\ Grouping(e)
         /\ Wrapped(e) => Wrapped(d)
         /\ ~Wrapped(d) => /\ e.tok = d.tok /\ e.doc = d.doc /\ e.paren = d.paren
                           /\ Single(e) <=> Single(d)
<1>1. /\ e.tok = d.tok /\ e.doc = d.doc /\ Len(e.specs) = Len(d.specs)
      /\ \A j \in 1..Len(d.specs) : e.specs[j].id = d.specs[j].id /\ e.specs[j].doc = d.specs[j].doc
      /\ \/ e.paren = d.paren /\ (Beside(e) <=> Beside(d))
         \/ Wrapped(d) /\ ~e.paren /\ Beside(e)
  BY DEF Shifted, Same
<1>2. Flush(e)
  BY DEF Steady, Grouping
<1>3. Filled(e)
  <2>1. CASE e.paren = d.paren
    BY <1>1, <2>1 DEF Filled, Grouping
  <2>2. CASE Wrapped(d)
    <3>1. Len(e.specs) = 1
      BY <1>1, <2>2 DEF Wrapped
    <3> QED  BY <3>1 DEF Filled
  <2> QED  BY <1>1, <2>1, <2>2
<1>4. HoistedBare(e)
  <2>1. CASE Wrapped(d)
    BY <1>1, <2>1 DEF HoistedBare, Wrapped
  <2>2. CASE e.paren = d.paren /\ (Beside(e) <=> Beside(d))
    <3> SUFFICES ASSUME ~e.paren, Hoisted(e)  PROVE e.doc = "none"
      BY DEF HoistedBare
    <3>1. Beside(d) /\ e.specs[1].doc # "none"
      BY <2>2, HoistedIs
    <3>2. d.specs # <<>> /\ d.specs \in Seq(SpecTree)
      BY <3>1, DeclFacts DEF Beside
    <3>3. 1 \in 1..Len(d.specs)
      BY <3>2, EmptySeq
    <3>4. Hoisted(d) /\ ~d.paren
      BY <1>1, <2>2, <3>1, <3>3, HoistedIs
    <3> QED  BY <1>1, <3>4 DEF Grouping, HoistedBare
  <2> QED  BY <1>1, <2>1, <2>2
<1>5. Wrapped(e) => Wrapped(d)
  BY <1>1 DEF Wrapped
<1>6. ASSUME ~Wrapped(d)  PROVE e.paren = d.paren /\ (Single(e) <=> Single(d))
  <2>1. e.paren = d.paren
    BY <1>1, <1>6
  <2>2. Len(d.specs) = 1 => e.specs[1].id = d.specs[1].id
    <3> SUFFICES ASSUME Len(d.specs) = 1  PROVE e.specs[1].id = d.specs[1].id
      OBVIOUS
    <3>1. 1 \in 1..Len(d.specs)
      OBVIOUS
    <3> QED  BY <1>1, <3>1
  <2>3. Single(e) <=> Single(d)
    BY <1>1, <2>1, <2>2 DEF Single, isCgoImport
  <2> QED  BY <2>1, <2>3
<1> QED  BY <1>1, <1>2, <1>3, <1>4, <1>5, <1>6 DEF Grouping

\* A group that gets one more declaration is one, in parentheses or not.
LEMMA ContinuedGrouping ==
  ASSUME NEW g \in DeclTree, NEW c \in DeclTree, NEW e, IsDecl(g), IsDecl(c), IsContinued(g, c, e),
         Grouping(g), Grouping(c), ~c.paren, g.tok # "func", c.tok = g.tok
  PROVE  /\ Grouping(e) /\ ~Wrapped(e) /\ ~Single(e)
         /\ e.paren \/ Len(e.specs) >= 2
<1>1. PICK n \in Nat, m \in Nat : n = Len(g.specs) /\ m = Len(c.specs)
  BY DeclFacts
<1>2. /\ e \in DeclTree /\ e.tok = g.tok /\ e.paren = g.paren /\ e.doc = g.doc /\ e.line = g.line
      /\ Len(e.specs) = n + m
      /\ \A j \in 1..n : e.specs[j] = g.specs[j]
  BY <1>1 DEF IsContinued
<1>3. m # 0
  BY <1>1 DEF Grouping, Filled
<1>4. n # 0 \/ (g.paren /\ g.tok # "var")
  BY <1>1 DEF Grouping, Filled
<1>5. e.paren \/ Len(e.specs) >= 2
  BY <1>2, <1>3, <1>4
<1>6. Len(e.specs) # 0
  BY <1>2, <1>3
<1>7. e.tok = "var" => Len(e.specs) # 1
  BY <1>2, <1>3, <1>4
<1>8. ~e.paren => Len(e.specs) # 1
  BY <1>2, <1>3, <1>4
<1>9. HoistedBare(e)
  <2> SUFFICES ASSUME ~e.paren, Hoisted(e)  PROVE e.doc = "none"
    BY DEF HoistedBare
  <2>1. ~g.paren /\ 1 \in 1..n
    BY <1>2, <1>4
  <2>2. e.specs[1] = g.specs[1]
    BY <1>2, <2>1
  <2>3. g.specs # <<>>
    <3>1. Len(<<>>) = 0
      OBVIOUS
    <3> QED  BY <1>1, <2>1, <3>1
  <2>4. Hoisted(g)
    BY <1>2, <2>2, <2>3 DEF Hoisted
  <2> QED  BY <1>2, <2>1, <2>4 DEF Grouping, HoistedBare
<1>10. Flush(e)
  BY <1>8 DEF Flush
<1>11. Filled(e) /\ ~Wrapped(e) /\ ~Single(e)
  BY <1>6, <1>7, <1>8 DEF Filled, Wrapped, Single
<1> QED  BY <1>5, <1>9, <1>10, <1>11 DEF Grouping

LEMMA SortedGrouping ==
  ASSUME NEW g \in DeclTree, NEW e, SortedIn(g, e), g.tok = "import"
  PROVE  Grouping(e) /\ ~Wrapped(e) /\ ~Single(e)
<1>1. e.tok = "import" /\ e.paren
  BY DEF SortedIn, SortedFrom
<1> QED  BY <1>1 DEF Grouping, Flush, Filled, HoistedBare, Wrapped, Single

LEMMA PrintedGrouped ==
  ASSUME NEW ds, IsTree(ds), Unique(ds), \A l \in 1..Len(ds) : Grouping(ds[l]),
         \A k \in 2..Len(ds) : Loosened(ds, k)
  PROVE  GroupedText(Printed(ds)) /\ \A k \in 1..Len(Printed(ds)) : Filled(Printed(ds)[k])
<1> DEFINE text == Printed(ds)
<1>1. /\ Len(text) = Len(ds)
      /\ \A k \in 1..Len(ds) :
           /\ text[k].tok = ds[k].tok /\ text[k].paren = Parens(ds[k])
           /\ text[k].doc = IF Hoisted(ds[k]) THEN ds[k].specs[1].doc ELSE ds[k].doc
           /\ Len(text[k].specs) = Len(ds[k].specs)
           /\ \A j \in 1..Len(ds[k].specs) : text[k].specs[j].id = ds[k].specs[j].id
  BY PrintedIs, SMTT(30)
<1>2. \A k \in 1..Len(ds) : text[k].blank = BlankAbove(ds, k)
  BY PrintedFields
<1>3. ASSUME NEW k \in 1..Len(ds), Height(text[k]) = 1, text[k].specs # <<>>, ds[k].tok # "func"
      PROVE  ~Parens(ds[k]) /\ ds[k].specs[1].line = ds[k].specs[1].end
  BY <1>3, PrintedTall
<1> HIDE DEF text
<1>4. Len(ds) \in Nat
  BY SeqFacts DEF IsTree
<1>5. ASSUME NEW k \in 1..Len(ds), ~Parens(ds[k]), ds[k].tok # "func", ~isCgoImport(text[k])
      PROVE  Single(ds[k]) /\ ~ds[k].paren
  <2>1. ~ds[k].paren /\ Len(ds[k].specs) = 1
    BY <1>5 DEF Parens
  <2>2. 1 \in 1..Len(ds[k].specs)
    BY <2>1
  <2>3. text[k].tok = ds[k].tok /\ Len(text[k].specs) = 1 /\ text[k].specs[1].id = ds[k].specs[1].id
    BY <1>1, <2>1, <2>2
  <2>4. ~isCgoImport(ds[k])
    BY <1>5, <2>1, <2>3 DEF isCgoImport
  <2> QED  BY <2>1, <2>4 DEF Single
<1>6. GroupedText(text)
  <2> SUFFICES ASSUME NEW k \in 2..Len(ds),
                      text[k].tok = text[k - 1].tok, text[k].tok # "func",
                      Height(text[k - 1]) = 1, text[k - 1].specs # <<>>, ~text[k].paren,
                      text[k - 1].doc # "directive",
                      ~isCgoImport(text[k - 1]), ~isCgoImport(text[k])
               PROVE  text[k].blank
    BY <1>1 DEF GroupedText
  <2>1. k \in 1..Len(ds) /\ k - 1 \in 1..Len(ds)
    BY <1>4
  <2>2. ds[k].tok = ds[k - 1].tok /\ ds[k].tok # "func" /\ ~Parens(ds[k])
    BY <1>1, <2>1
  <2>3. ~Parens(ds[k - 1]) /\ ds[k - 1].specs[1].line = ds[k - 1].specs[1].end
    BY <1>3, <2>1, <2>2
  <2>4. Single(ds[k]) /\ Single(ds[k - 1]) /\ ~ds[k - 1].paren
    BY <1>5, <2>1, <2>2, <2>3
  <2>5. ds[k - 1].doc # "directive"
    <3>1. CASE Hoisted(ds[k - 1])
      BY <2>1, <2>4, <3>1 DEF Grouping, HoistedBare
    <3>2. CASE ~Hoisted(ds[k - 1])
      BY <1>1, <2>1, <3>2
    <3> QED  BY <3>1, <3>2
  <2>6. Pair(ds[k - 1], ds[k])
    BY <2>2, <2>4, <2>5 DEF Pair
  <2>7. ds[k].line - ds[k - 1].end >= 2
    BY <2>3, <2>6 DEF Loosened
  <2>8. BlankAbove(ds, k)
    BY <2>7 DEF BlankAbove
  <2> QED  BY <1>2, <2>1, <2>8
<1>7. ASSUME NEW k \in 1..Len(ds)  PROVE Filled(text[k])
  <2>1. Filled(ds[k])
    BY DEF Grouping
  <2>2. ds[k].paren /\ ds[k].tok # "var" => ds[k].tok = "func" \/ Parens(ds[k])
    BY DEF Parens
  <2> QED  BY <1>1, <2>1, <2>2 DEF Filled
<1> QED  BY <1>1, <1>6, <1>7 DEF text

\* Separate brings no two of them closer, and nothing loses parentheses after
\* the first loop.
LEMMA LoosenedKept ==
  ASSUME IInv, Unwrap \/ Separate, \A l \in 1..Len(decls) : Grouping(decls[l]) /\ ~Wrapped(decls[l]),
         NEW k \in 2..Len(decls), Loosened(decls, k)
  PROVE  Loosened(decls', k)
<1>1. /\ IsTree(decls) /\ IsTree(decls') /\ Len(decls') = Len(decls)
      /\ i \in 1..Len(decls)
      /\ \A l \in 1..Len(decls) : Shifted(decls[l], decls'[l])
      /\ Looser(decls, decls')
  <2>1. IsTree(decls)
    BY DEF IInv, Holds
  <2> QED  BY <2>1, MovesDo
<1>2. Len(decls) \in Nat
  BY <1>1, SeqFacts DEF IsTree
<1>3. k \in 1..Len(decls) /\ k - 1 \in 1..Len(decls)
  BY <1>2
<1>4. ASSUME NEW l \in 1..Len(decls)
      PROVE  /\ decls'[l].tok = decls[l].tok /\ decls'[l].doc = decls[l].doc
             /\ Single(decls'[l]) <=> Single(decls[l])
  <2>1. decls[l] \in DeclTree /\ decls'[l] \in DeclTree /\ Shifted(decls[l], decls'[l])
    BY <1>1, TreeFacts
  <2>2. Steady(decls[l], decls'[l])
    BY MovesSteady
  <2> QED  BY <2>1, <2>2, GroupingKept
<1>5. CASE Unwrap
  <2>1. decls' = removeParens(decls, i)
    BY <1>5 DEF Unwrap
  <2>2. decls' = decls
    BY <1>1, <2>1, RemoveParensKeeps
  <2> QED  BY <2>2
<1>6. CASE Separate
  <2> SUFFICES ASSUME Pair(decls'[k - 1], decls'[k]), decls'[k - 1].specs[1].line = decls'[k - 1].specs[1].end
               PROVE  decls'[k].line - decls'[k - 1].end >= 2
    BY DEF Loosened
  <2>1. Pair(decls[k - 1], decls[k])
    BY <1>3, <1>4 DEF Pair
  <2>2. 1 \in 1..Len(decls[k - 1].specs)
    <3>1. Len(decls[k - 1].specs) = 1
      BY <2>1 DEF Pair, Single
    <3> QED  BY <3>1
  <2>3. /\ decls[k - 1].specs[1].line <= decls[k - 1].specs[1].end
        /\ decls[k - 1].specs[1].line \in Nat /\ decls[k - 1].specs[1].end \in Nat
        /\ decls'[k - 1].specs[1].line \in Nat
    <3>1. decls[k - 1] \in DeclTree /\ IsDecl(decls[k - 1]) /\ decls'[k - 1] \in DeclTree
      BY <1>1, <1>3, TreeFacts
    <3>2. 1 \in 1..Len(decls'[k - 1].specs)
      BY <1>1, <1>3, <2>2 DEF Shifted, Same
    <3> QED  BY <2>2, <3>1, <3>2, DeclFacts DEF IsDecl
  <2>4. decls[k - 1].specs[1].line = decls[k - 1].specs[1].end
    <3>1. Steady(decls'[k - 1], decls[k - 1])
      BY <1>3, <1>6, MovesSteady
    <3>2. 1 \in 1..Len(decls'[k - 1].specs)
      BY <1>1, <1>3, <2>2 DEF Shifted, Same
    <3>3. decls[k - 1].specs[1].line < decls[k - 1].specs[1].end =>
            decls'[k - 1].specs[1].line < decls'[k - 1].specs[1].end
      BY <3>1, <3>2 DEF Steady
    <3> QED  BY <2>3, <3>3
  <2>5. decls[k].line - decls[k - 1].end >= 2
    BY <2>1, <2>4 DEF Loosened
  <2>6. decls'[k].line - decls'[k - 1].end >= decls[k].line - decls[k - 1].end
    BY <1>1 DEF Looser
  <2>7. /\ decls[k].line \in Nat /\ decls[k - 1].end \in Nat
        /\ decls'[k].line \in Nat /\ decls'[k - 1].end \in Nat
    BY <1>1, <1>3, TreeFacts
  <2> QED  BY <2>5, <2>6, <2>7, SMTT(30)
<1> QED  BY <1>5, <1>6

\* Two that are apart after joining.
LEMMA PartedLoosened ==
  ASSUME NEW ds, IsTree(ds), \A l \in 1..Len(ds) : Grouping(ds[l]), NEW k \in 2..Len(ds), Parted(ds[k - 1], ds[k])
  PROVE  Loosened(ds, k)
<1> SUFFICES ASSUME Pair(ds[k - 1], ds[k]), ds[k - 1].specs[1].line = ds[k - 1].specs[1].end
             PROVE  ds[k].line - ds[k - 1].end >= 2
  BY DEF Loosened
<1>1. Len(ds) \in Nat
  BY SeqFacts DEF IsTree
<1>2. k \in 1..Len(ds) /\ k - 1 \in 1..Len(ds)
  BY <1>1
<1>3. ds[k - 1].line < ds[k].line - 1
  BY DEF Parted
<1>4. ds[k - 1].line = ds[k - 1].specs[1].line /\ ds[k - 1].end = ds[k - 1].specs[1].end
  BY <1>2 DEF Grouping, Flush, Pair, Single
<1>5. ds[k - 1].line \in Nat /\ ds[k - 1].end \in Nat /\ ds[k].line \in Nat
  BY <1>2, TreeFacts
<1> QED  BY <1>3, <1>4, <1>5

LEMMA InitGroup ==
  ASSUME \A text \in Sources : \A k \in 1..Len(text) : Filled(text[k])
  PROVE  Init => GroupInv
<1> SUFFICES ASSUME Init  PROVE GroupInv
  OBVIOUS
<1>1. /\ IsText(source) /\ decls = Read(source) /\ new = <<>> /\ printed = <<>>
      /\ step = "unwrap" /\ ~joining /\ i = 1 /\ \A k \in 1..Len(source) : Filled(source[k])
  BY SourcesAssumption DEF Init
<1>2. Len(<<>>) = 0
  OBVIOUS
<1>3. \A l \in 1..Len(decls) : Grouping(decls[l])
  BY <1>1, ReadGrouping
<1>4. \A l \in 1..Len(decls) : ~ (l < i)
  BY <1>1
<1> QED  BY <1>1, <1>2, <1>3, <1>4 DEF GroupInv

LEMMA JoinsGroup ==
  ASSUME NEW n \in Nat, n >= 1, Keeps(n), Len(new) = n - 1 \/ Len(new) = n,
         \A l \in 1..Len(new) : Grouping(new[l]) /\ ~Wrapped(new[l]),
         \A k \in 2..Len(new) : Parted(new[k - 1], new[k]),
         Grouping(new'[n]), ~Wrapped(new'[n]), n > 1 => Parted(new[n - 1], new'[n])
  PROVE  /\ \A l \in 1..Len(new') : Grouping(new'[l]) /\ ~Wrapped(new'[l])
         /\ \A k \in 2..Len(new') : Parted(new'[k - 1], new'[k])
<1>1. Len(new') = n /\ \A l \in 1..(n - 1) : new'[l] = new[l]
  BY DEF Keeps
<1>2. \A l \in 1..n : l = n \/ (l \in 1..(n - 1) /\ l \in 1..Len(new))
  OBVIOUS
<1>3. \A l \in 1..Len(new') : Grouping(new'[l]) /\ ~Wrapped(new'[l])
  BY <1>1, <1>2
<1>4. ASSUME NEW k \in 2..n  PROVE Parted(new'[k - 1], new'[k])
  <2>1. k - 1 \in 1..(n - 1)
    OBVIOUS
  <2>2. new'[k - 1] = new[k - 1]
    BY <1>1, <2>1
  <2>3. CASE k = n
    BY <2>2, <2>3
  <2>4. CASE k # n
    <3>1. k \in 1..(n - 1) /\ k \in 2..Len(new)
      BY <2>4
    <3> QED  BY <1>1, <2>2, <3>1
  <2> QED  BY <2>3, <2>4
<1> QED  BY <1>1, <1>3, <1>4

LEMMA StepGroup == IInv /\ GroupInv /\ [Next]_vars => GroupInv'
<1> SUFFICES ASSUME IInv, GroupInv, [Next]_vars  PROVE GroupInv'
  OBVIOUS
<1>1. /\ \A l \in 1..Len(decls) : Grouping(decls[l])
      /\ \A l \in 1..Len(new) : Grouping(new[l]) /\ ~Wrapped(new[l])
      /\ step = "unwrap" => \A l \in 1..Len(decls) : l < i => ~Wrapped(decls[l])
      /\ step \in {"join", "separate", "walk", "print"} => \A l \in 1..Len(decls) : ~Wrapped(decls[l])
      /\ step = "join" => \A k \in 2..Len(new) : Parted(new[k - 1], new[k])
      /\ joining => IF merged THEN Group.paren \/ Len(Group.specs) >= 2 ELSE last = Group.line
      /\ step = "join" /\ ~joining /\ new # <<>> /\ i <= Len(decls) => Parted(Group, decls[i])
      /\ step \in {"separate", "walk", "print"} => \A k \in 2..Len(decls) : Loosened(decls, k)
      /\ \A r \in 1..Len(printed) : GroupedText(printed[r])
  BY DEF GroupInv
<1>2. /\ IsTree(decls) /\ Unique(decls) /\ Len(decls) \in Nat
      /\ i \in Nat /\ i >= 1 /\ i <= Len(decls) + 1
      /\ step # "join" => ~joining
      /\ step \in {"unwrap", "join", "separate", "walk", "print", "done"}
  BY SeqFacts DEF IInv, Holds, IsTree, InOrder, Joins
<1>3. CASE Unwrap \/ Separate
  <2>1. /\ step # "join" /\ UNCHANGED <<source, printed, step, new, joining, merged, last>> /\ i' = i + 1
        /\ i \in 1..Len(decls) /\ IsTree(decls') /\ Len(decls') = Len(decls)
        /\ \A l \in 1..Len(decls) : Shifted(decls[l], decls'[l])
    BY <1>3, MovesDo
  <2>2. ASSUME NEW l \in 1..Len(decls)
        PROVE  Grouping(decls'[l]) /\ (Wrapped(decls'[l]) => Wrapped(decls[l]))
    <3>1. decls[l] \in DeclTree /\ decls'[l] \in DeclTree /\ Shifted(decls[l], decls'[l]) /\ Grouping(decls[l])
      BY <1>1, <1>2, <2>1, TreeFacts
    <3>2. Steady(decls[l], decls'[l])
      BY <1>3, MovesSteady
    <3> QED  BY <3>1, <3>2, GroupingKept
  <2>3. step = "unwrap" => \A l \in 1..Len(decls) : l < i' => ~Wrapped(decls'[l])
    <3> SUFFICES ASSUME step = "unwrap", NEW l \in 1..Len(decls), l < i'  PROVE ~Wrapped(decls'[l])
      OBVIOUS
    <3>1. CASE l < i
      BY <1>1, <2>2, <3>1
    <3>2. CASE ~ (l < i)
      <4>1. l = i
        BY <1>2, <2>1, <3>2
      <4>2. decls' = removeParens(decls, i)
        BY <1>3 DEF Unwrap, Separate
      <4>3. decls'[i].paren = (decls[i].paren /\ ~Wrapped(decls[i]))
        BY <1>2, <2>1, <4>2, RemoveParensKeeps
      <4>4. Wrapped(decls'[i]) => Wrapped(decls[i]) /\ decls'[i].paren
        BY <2>1, <2>2 DEF Wrapped
      <4> QED  BY <4>1, <4>3, <4>4
    <3> QED  BY <3>1, <3>2
  <2>4. step \in {"separate", "walk", "print"} =>
          /\ \A l \in 1..Len(decls) : ~Wrapped(decls'[l])
          /\ \A k \in 2..Len(decls) : Loosened(decls', k)
    <3> SUFFICES ASSUME step \in {"separate", "walk", "print"}
                 PROVE  /\ \A l \in 1..Len(decls) : ~Wrapped(decls'[l])
                        /\ \A k \in 2..Len(decls) : Loosened(decls', k)
      OBVIOUS
    <3>1. \A l \in 1..Len(decls) : Grouping(decls[l]) /\ ~Wrapped(decls[l])
      BY <1>1
    <3>2. \A k \in 2..Len(decls) : Loosened(decls, k)
      BY <1>1
    <3>3. \A k \in 2..Len(decls) : Loosened(decls', k)
      BY <1>3, <3>1, <3>2, LoosenedKept
    <3> QED  BY <2>2, <3>1, <3>3
  <2>5. ~joining' /\ step' # "join" /\ step' = step
    BY <1>2, <2>1
  <2>6. /\ \A l \in 1..Len(decls') : Grouping(decls'[l])
        /\ \A l \in 1..Len(new') : Grouping(new'[l]) /\ ~Wrapped(new'[l])
        /\ \A r \in 1..Len(printed') : GroupedText(printed'[r])
    BY <1>1, <2>1, <2>2
  <2> QED  BY <2>1, <2>3, <2>4, <2>5, <2>6 DEF GroupInv
<1>4. CASE Start
  <2>1. /\ step = "join" /\ i \in 1..Len(decls) /\ UNCHANGED <<source, printed, step, decls>>
        /\ i' = i + 1
        /\ \E n \in Nat : n >= 1 /\ Len(new) = n - 1 /\ Keeps(n) /\ new'[n] = decls[i]
    BY <1>4, StartDoes
  <2>2. PICK n \in Nat : n >= 1 /\ Len(new) = n - 1 /\ Keeps(n) /\ new'[n] = decls[i]
    BY <2>1
  <2>3. /\ ~joining /\ ~merged' /\ last' = decls[i].line
        /\ joining' \/ decls[i].tok = "func" \/ isCgoImport(decls[i]) \/ decls[i].doc = "directive"
    BY <1>4 DEF Start
  <2>4. Group' = new'[n]
    BY <2>2, LastJoined
  <2>5. n > 1 => Parted(new[n - 1], new'[n])
    <3> SUFFICES ASSUME n > 1  PROVE Parted(new[n - 1], new'[n])
      OBVIOUS
    <3>1. Group = new[n - 1]
      BY <2>2 DEF Group
    <3>2. new # <<>>
      <4>1. Len(<<>>) = 0
        OBVIOUS
      <4>2. Len(new) # 0
        BY <2>2
      <4> QED  BY <4>1, <4>2
    <3>3. i <= Len(decls)
      BY <1>2, <2>1
    <3> QED  BY <1>1, <2>1, <2>2, <2>3, <3>1, <3>2, <3>3
  <2>6. /\ \A l \in 1..Len(new') : Grouping(new'[l]) /\ ~Wrapped(new'[l])
        /\ \A k \in 2..Len(new') : Parted(new'[k - 1], new'[k])
    <3>1. Grouping(new'[n]) /\ ~Wrapped(new'[n])
      BY <1>1, <2>1, <2>2
    <3>2. \A k \in 2..Len(new) : Parted(new[k - 1], new[k])
      BY <1>1, <2>1
    <3>3. Len(new) = n - 1
      BY <2>2
    <3>4. Keeps(n) /\ n >= 1
      BY <2>2
    <3> QED  BY <1>1, <2>5, <3>1, <3>2, <3>3, <3>4, JoinsGroup
  <2>7. ~joining' => Parted(new'[n], decls'[i'])
    <3> SUFFICES ASSUME ~joining'  PROVE ~Pair(decls[i], decls'[i'])
      BY <2>2 DEF Parted
    <3>1. decls[i].tok = "func" => Len(decls[i].specs) = 0
      <4>1. decls[i].tok = "func" => decls[i].specs = <<>>
        BY <1>2, <2>1, TreeFacts DEF IsDecl
      <4>2. Len(<<>>) = 0
        OBVIOUS
      <4> QED  BY <4>1, <4>2
    <3>2. PICK d : d = decls'[i']
      OBVIOUS
    <3>3. decls[i].tok = "func" \/ isCgoImport(decls[i]) \/ decls[i].doc = "directive"
      BY <2>3
    <3>4. ASSUME decls[i].tok = "func"  PROVE ~Pair(decls[i], d)
      <4>1. Len(decls[i].specs) = 0
        BY ONLY <3>1, <3>4
      <4>2. Len(decls[i].specs) # 1
        BY ONLY <4>1
      <4> QED  BY ONLY <4>2 DEF Pair, Single
    <3>5. ASSUME isCgoImport(decls[i])  PROVE ~Pair(decls[i], d)
      BY ONLY <3>5 DEF Pair, Single
    <3>6. ASSUME decls[i].doc = "directive"  PROVE ~Pair(decls[i], d)
      BY ONLY <3>6 DEF Pair
    <3>7. ~Pair(decls[i], d)
      BY ONLY <3>3, <3>4, <3>5, <3>6
    <3> QED  BY ONLY <3>2, <3>7
  <2> QED  BY <1>1, <2>1, <2>2, <2>3, <2>4, <2>6, <2>7 DEF GroupInv
<1>5. CASE Continue
  <2>1. /\ step = "join" /\ joining /\ i \in 1..Len(decls)
        /\ UNCHANGED <<source, printed, step, decls, joining>>
        /\ IsTree(new)
        /\ \E n \in Nat : /\ n >= 1 /\ Len(new) = n /\ Keeps(n)
                          /\ Continues(new[n], decls[i]) /\ new[n].tok # "func"
                          /\ IsContinued(new[n], decls[i], new'[n])
    BY <1>5, ContinueDoes
  <2>2. PICK n \in Nat : /\ n >= 1 /\ Len(new) = n /\ Keeps(n)
                         /\ Continues(new[n], decls[i]) /\ new[n].tok # "func"
                         /\ IsContinued(new[n], decls[i], new'[n])
    BY <2>1
  <2>3. n \in 1..Len(new)
    BY <2>2
  <2>4. /\ new[n] \in DeclTree /\ IsDecl(new[n]) /\ Grouping(new[n])
        /\ decls[i] \in DeclTree /\ IsDecl(decls[i]) /\ Grouping(decls[i])
    BY <1>1, <1>2, <2>1, <2>3, TreeFacts
  <2>5. ~decls[i].paren /\ decls[i].tok = new[n].tok
    BY <2>2 DEF Continues
  <2>6. /\ Grouping(new'[n]) /\ ~Wrapped(new'[n]) /\ ~Single(new'[n])
        /\ new'[n].paren \/ Len(new'[n].specs) >= 2
    BY <2>2, <2>4, <2>5, ContinuedGrouping
  <2>7. Parted(new[n - 1], new'[n])
    BY <2>6 DEF Parted, Pair
  <2>8. /\ \A l \in 1..Len(new') : Grouping(new'[l]) /\ ~Wrapped(new'[l])
        /\ \A k \in 2..Len(new') : Parted(new'[k - 1], new'[k])
    <3>1. \A k \in 2..Len(new) : Parted(new[k - 1], new[k])
      BY <1>1, <2>1
    <3>2. Len(new) = n /\ Keeps(n) /\ n >= 1
      BY <2>2
    <3>3. Grouping(new'[n]) /\ ~Wrapped(new'[n])
      BY <2>6
    <3> QED  BY <1>1, <2>7, <3>1, <3>2, <3>3, JoinsGroup
  <2>9. Group' = new'[n] /\ merged' = TRUE
    BY <1>5, <2>2, LastJoined DEF Continue
  <2> QED  BY <1>1, <2>1, <2>6, <2>8, <2>9 DEF GroupInv
<1>6. CASE Joined
  <2>1. /\ step = "join" /\ joining /\ ~joining' /\ IsTree(new)
        /\ UNCHANGED <<source, printed, step, decls, i, merged, last>>
        /\ \E n \in Nat : /\ n >= 1 /\ Len(new) = n /\ Keeps(n)
                          /\ ~ (More /\ Continues(new[n], decls[i]))
                          /\ \/ new'[n] = new[n]
                             \/ merged /\ new[n].tok = "import" /\ SortedIn(new[n], new'[n])
    BY <1>6, JoinedDoes
  <2>2. PICK n \in Nat : /\ n >= 1 /\ Len(new) = n /\ Keeps(n)
                         /\ ~ (More /\ Continues(new[n], decls[i]))
                         /\ \/ new'[n] = new[n]
                            \/ merged /\ new[n].tok = "import" /\ SortedIn(new[n], new'[n])
    BY <2>1
  <2>3. n \in 1..Len(new) /\ Group = new[n] /\ Group' = new'[n]
    BY <2>2, LastJoined DEF Group
  <2>4. new[n] \in DeclTree /\ Grouping(new[n]) /\ ~Wrapped(new[n]) /\ new[n].line \in Nat
    BY <1>1, <2>1, <2>3, TreeFacts
  <2>5. \/ new'[n] = new[n]
        \/ Grouping(new'[n]) /\ ~Wrapped(new'[n]) /\ ~Single(new'[n])
    BY <2>2, <2>4, SortedGrouping
  <2>6. n > 1 => Parted(new[n - 1], new'[n])
    <3>1. n > 1 => n \in 2..Len(new)
      BY <2>2
    <3>2. n > 1 => Parted(new[n - 1], new[n])
      BY <1>1, <2>1, <3>1
    <3> QED  BY <2>5, <3>2 DEF Parted, Pair
  <2>7. /\ \A l \in 1..Len(new') : Grouping(new'[l]) /\ ~Wrapped(new'[l])
        /\ \A k \in 2..Len(new') : Parted(new'[k - 1], new'[k])
    <3>1. \A k \in 2..Len(new) : Parted(new[k - 1], new[k])
      BY <1>1, <2>1
    <3>2. Len(new) = n /\ Keeps(n) /\ n >= 1
      BY <2>2
    <3>3. Grouping(new'[n]) /\ ~Wrapped(new'[n])
      BY <2>4, <2>5
    <3> QED  BY <1>1, <2>6, <3>1, <3>2, <3>3, JoinsGroup
  <2>8. i <= Len(decls) => Parted(new'[n], decls[i])
    <3> SUFFICES ASSUME i <= Len(decls), Pair(new'[n], decls[i])  PROVE new'[n].line < decls[i].line - 1
      BY DEF Parted
    <3>1. new'[n] = new[n]
      BY <2>5 DEF Pair
    <3>2. ~merged /\ last = new[n].line
      <4>1. ~new[n].paren /\ Len(new[n].specs) = 1
        BY <3>1 DEF Pair, Single
      <4> QED  BY <1>1, <2>1, <2>3, <4>1
    <3>3. ~ (last >= decls[i].line - 1)
      <4>1. ~Continues(new[n], decls[i])
        BY <2>2 DEF More
      <4>2. decls[i].tok = new[n].tok /\ ~decls[i].paren /\ ~isCgoImport(decls[i])
        BY <3>1 DEF Pair, Single
      <4> QED  BY <4>1, <4>2 DEF Continues
    <3>4. decls[i].line \in Nat
      <4>1. i \in 1..Len(decls)
        BY <1>2
      <4> QED  BY <1>2, <4>1, TreeFacts
    <3> QED  BY <2>4, <3>1, <3>2, <3>3, <3>4
  <2> QED  BY <1>1, <2>1, <2>3, <2>7, <2>8 DEF GroupInv
<1>7. CASE NextLoop
  <2>1. /\ \/ step = "unwrap" /\ step' = "join"
           \/ step = "join" /\ step' = "separate"
           \/ step = "separate" /\ step' = "walk"
           \/ step = "walk" /\ step' = "print"
        /\ i' = 1 /\ new' = <<>> /\ decls' = (IF step = "join" THEN new ELSE decls)
        /\ UNCHANGED <<source, printed, joining, merged, last>>
    BY <1>7, LoopDoes
  <2>2. i - 1 = Len(decls) /\ ~joining'
    <3>1. ~ (i <= Len(decls)) /\ ~joining
      BY <1>7 DEF NextLoop, More
    <3> QED  BY <1>2, <2>1, <3>1
  <2>3. \A l \in 1..Len(decls) : l < i
    BY <1>2, <2>2
  <2>4. /\ \A l \in 1..Len(decls') : Grouping(decls'[l])
        /\ \A l \in 1..Len(decls') : ~Wrapped(decls'[l])
    BY <1>1, <2>1, <2>3
  <2>5. step' \in {"separate", "walk", "print"} => \A k \in 2..Len(decls') : Loosened(decls', k)
    <3>1. CASE step = "join"
      <4>1. IsTree(new)
        BY <3>1 DEF IInv, Joins, JoinedSo
      <4>2. \A l \in 1..Len(new) : Grouping(new[l])
        BY <1>1
      <4>3. \A k \in 2..Len(new) : Loosened(new, k)
        BY <1>1, <3>1, <4>1, <4>2, PartedLoosened
      <4> QED  BY <2>1, <3>1, <4>3
    <3>2. CASE step # "join"
      BY <1>1, <2>1, <3>2
    <3> QED  BY <3>1, <3>2
  <2>6. Len(<<>>) = 0
    OBVIOUS
  <2>7. /\ \A l \in 1..Len(new') : Grouping(new'[l]) /\ ~Wrapped(new'[l])
        /\ \A k \in 2..Len(new') : Parted(new'[k - 1], new'[k])
        /\ new' = <<>> /\ step' # "unwrap"
    BY <2>1, <2>6
  <2> QED  BY <1>1, <2>1, <2>2, <2>4, <2>5, <2>7 DEF GroupInv
<1>8. CASE Render
  <2>1. /\ step = "print" /\ printed' = Append(printed, Printed(decls)) /\ i' = 1
        /\ \/ step' = "unwrap" /\ decls' = Read(Printed(decls))
           \/ step' = "done" /\ decls' = decls
        /\ UNCHANGED <<source, new, joining, merged, last>>
    BY <1>8 DEF Render
  <2>2. GroupedText(Printed(decls)) /\ \A k \in 1..Len(Printed(decls)) : Filled(Printed(decls)[k])
    BY <1>1, <1>2, <2>1, PrintedGrouped
  <2>3. IsText(Printed(decls)) /\ Printed(decls) \in Seq(DeclText)
    BY <1>2, PrintedIs DEF IsText
  <2>4. \A l \in 1..Len(decls') : Grouping(decls'[l])
    BY <1>1, <2>1, <2>2, <2>3, ReadGrouping
  <2>5. PICK n : n = Len(printed)
    OBVIOUS
  <2>6. printed \in Seq(Seq(DeclText))
    BY DEF IInv, Prints
  <2>7. /\ n \in Nat /\ Len(printed') = n + 1 /\ printed'[n + 1] = Printed(decls)
        /\ \A r \in 1..n : printed'[r] = printed[r]
    BY <2>1, <2>3, <2>5, <2>6, AppendFacts
  <2>8. ASSUME NEW r \in 1..(n + 1)  PROVE GroupedText(printed'[r])
    <3>1. CASE r = n + 1
      BY <2>2, <2>7, <3>1
    <3>2. CASE r # n + 1
      <4>1. r \in 1..n
        BY <2>7, <3>2
      <4> QED  BY <1>1, <2>5, <2>7, <4>1
    <3> QED  BY <3>1, <3>2
  <2>9. ~joining' /\ ~ (step' \in {"join", "separate", "walk", "print"})
    BY <1>2, <2>1
  <2>10. \A l \in 1..Len(decls') : ~ (l < i')
    BY <2>1
  <2> QED  BY <1>1, <2>1, <2>4, <2>7, <2>8, <2>9, <2>10 DEF GroupInv
<1>9. CASE UNCHANGED vars
  BY <1>9 DEF GroupInv, vars, Group
<1> QED  BY <1>3, <1>4, <1>5, <1>6, <1>7, <1>8, <1>9 DEF Next, Done

\* README.md:317: contiguous declarations of one line are grouped, in what
\* either run prints, if no group of variables is empty: the parentheses around
\* one variable are gone before the joining (format.go:488-494), which leaves no
\* two lone declarations touching (format.go:496-552).  An empty group that one
\* variable is joined to loses its parentheses after the joining, when the nodes
\* are visited, and is left below a variable above it until the next run.
THEOREM ContiguousGrouped ==
  ASSUME \A text \in Sources : \A k \in 1..Len(text) : Filled(text[k])
  PROVE  Spec => []Grouped
<1>1. Spec => []GroupInv
  BY InvariantIInv, InitGroup, StepGroup, PTL DEF Spec
<1>2. IInv /\ GroupInv => Grouped
  <2> SUFFICES ASSUME IInv, GroupInv, NEW text \in Outputs  PROVE GroupedText(text)
    BY DEF Grouped, GroupedText
  <2>1. step = "done" /\ (text = printed[1] \/ text = printed[2])
    BY DEF Outputs
  <2>2. Len(printed) = 2 /\ \A r \in 1..Len(printed) : GroupedText(printed[r])
    BY <2>1 DEF IInv, Prints, GroupInv
  <2>3. 1 \in 1..2 /\ 2 \in 1..2
    OBVIOUS
  <2> QED  BY <2>1, <2>2, <2>3
<1> QED  BY <1>1, <1>2, InvariantIInv, PTL

===============================================================================
