---------------------------- MODULE DocCommentProofs ----------------------------
(***************************************************************************)
(* Proofs about formatDocComment, for comments of any length and of any    *)
(* lines, and for what it makes of its own result: the watchdog of         *)
(* parseSpans never barks, its spans cover the lines, directives are kept  *)
(* and stay apart from the text, no heuristic is set off by what was       *)
(* printed, and nothing the comment says is lost.                          *)
(*                                                                         *)
(* The heuristics take lines from one span and give them to the next, so   *)
(* that Progress counts what the turns of the loop may still take, and     *)
(* Covering says what is behind them.  Both need the lines to be a         *)
(* sequence, which in the second run they are because all that the first   *)
(* one parses is made of lines, and all that it prints (Typed); Headings   *)
(* is what printing needs of the spans.  Kept follows the directives out   *)
(* of the comment and back into it.  RestInv says how what is printed      *)
(* spaces indented lines from those at the margin.  TextInv follows what   *)
(* the comment says, as a Reader reads it: line by line, in any way that   *)
(* passes over marks and lets links stand anywhere.                        *)
(***************************************************************************)
EXTENDS DocComment, TLAPS, WellFoundedInduction, SequenceTheorems,
        FiniteSetTheorems

------------------------------------------------------------------------------
(* The least and the greatest of a bounded set of integers *)

LEMMA LeastNatural ==
  ASSUME NEW S, S \subseteq Nat, S # {}
  PROVE  \E x \in S : \A y \in S : x <= y
<1>1. PICK x \in S : \A y \in S : ~ (<<y, x>> \in OpToRel(<, Nat))
  BY NatLessThanWellFounded, WFMin
<1>2. \A y \in S : ~ (y < x)
  BY <1>1 DEF OpToRel
<1>3. \A y \in S : x <= y
  BY <1>2
<1> QED  BY <1>3

\* The least of a bounded set is in it and below all of it.
LEMMA MinIn ==
  ASSUME NEW a \in Int, NEW b \in Int, NEW S, S \subseteq a..b, S # {}
  PROVE  /\ Min(S) \in S
         /\ \A y \in S : Min(S) <= y
<1> DEFINE T == {x - a : x \in S}
<1>1. T \subseteq Nat /\ T # {}
  OBVIOUS
<1>2. PICK t \in T : \A y \in T : t <= y
  BY <1>1, LeastNatural
<1>3. PICK x \in S : t = x - a
  OBVIOUS
<1>4. ASSUME NEW y \in S  PROVE x <= y
  <2>1. y - a \in T  OBVIOUS
  <2>2. x - a <= y - a  BY <1>2, <1>3, <2>1
  <2>3. x \in Int /\ y \in Int  OBVIOUS
  <2> HIDE DEF T
  <2> QED  BY <2>2, <2>3
<1> QED  BY <1>4 DEF Min

\* And the greatest above all of it.
LEMMA MaxIn ==
  ASSUME NEW a \in Int, NEW b \in Int, NEW S, S \subseteq a..b, S # {}
  PROVE  /\ Max(S) \in S
         /\ \A y \in S : Max(S) >= y
<1> DEFINE T == {b - x : x \in S}
<1>1. T \subseteq Nat /\ T # {}
  OBVIOUS
<1>2. PICK t \in T : \A y \in T : t <= y
  BY <1>1, LeastNatural
<1>3. PICK x \in S : t = b - x
  OBVIOUS
<1>4. ASSUME NEW y \in S  PROVE x >= y
  <2>1. b - y \in T  OBVIOUS
  <2>2. b - x <= b - y  BY <1>2, <1>3, <2>1
  <2>3. x \in Int /\ y \in Int  OBVIOUS
  <2> HIDE DEF T
  <2> QED  BY <2>2, <2>3
<1> QED  BY <1>4 DEF Max

------------------------------------------------------------------------------
(* Where spans start and end *)

\* The lines are lines.
LinesTyped == lines \in Seq(AnyLine)

\* A span starts at a line that is not blank, and only blank lines are skipped.
LEMMA StartFound ==
  ASSUME LinesTyped, i \in Nat, Start <= Len(lines)
  PROVE  /\ Start \in (i + 1)..Len(lines)
         /\ lines[Start] # Blank
         /\ \A k \in (i + 1)..(Start - 1) : lines[k] = Blank
<1> DEFINE said == {k \in (i + 1)..Len(lines) : lines[k] # Blank}
<1>1. Len(lines) \in Nat
  BY LenProperties DEF LinesTyped
<1>2. said # {}
  BY <1>1 DEF Start
<1>3. Start = Min(said)
  BY <1>2 DEF Start
<1>4. said \subseteq (i + 1)..Len(lines)
  OBVIOUS
<1>5. Min(said) \in said /\ \A y \in said : Min(said) <= y
  BY <1>1, <1>2, <1>4, MinIn, SMTT(30)
<1>6. ASSUME NEW k \in (i + 1)..(Start - 1)  PROVE lines[k] = Blank
  <2>1. Start \in (i + 1)..Len(lines)
    BY <1>3, <1>5
  <2>2. k \in (i + 1)..Len(lines) /\ ~ (Start <= k)
    BY <1>1, <2>1
  <2> QED  BY <1>3, <1>5, <2>2
<1> QED  BY <1>3, <1>5, <1>6

\* A list starts with an item, and a heading is one line.
Kinded(all, span) ==
  /\ span.kind = "list" => isList(all[span.start])
  /\ span.kind \in {"heading", "old heading"} => span.end = span.start

\* What is added as a span: a heading or a list only where one is.
Added(start, end) ==
  /\ i' = end
  /\ \E kind \in {"list", "code", "heading", "old heading", "para"} :
       /\ spans' = Append(spans, [start |-> start, end |-> end, kind |-> kind])
       /\ kind = "heading" => isHeading(lines[start])
       /\ Kinded(lines, [start |-> start, end |-> end, kind |-> kind])

\* Indented lines are a list or code and end within the lines, the brace after
\* them included.
LEMMA IndentedAdds ==
  ASSUME LinesTyped, i \in Nat, IndentedSpan
  PROVE  \E end \in Start..Len(lines) :
           /\ Added(Start, end)
           /\ \E kind \in {"list", "code"} :
                spans' = Append(spans, [start |-> Start, end |-> end, kind |-> kind])
<1> DEFINE start == Start
           unindentedListOK == isList(lines[start]) /\ start <= forceIndent
           goesOn(k) ==
             \/ lines[k] = Blank \/ Forced(k)
             \/ unindentedListOK /\ isList(lines[k]) /\ \A b \in start..k : lines[b] # Blank
           stops == {k \in (start + 1)..Len(lines) : ~goesOn(k)}
           stop == IF stops = {} THEN Len(lines) + 1 ELSE Min(stops)
           said == {k \in start..(stop - 1) : lines[k] # Blank}
           last == Max(said)
           brace == last < Len(lines) /\ Closes(lines[last + 1])
           end == IF brace THEN last + 1 ELSE last
<1>1. Len(lines) \in Nat
  BY LenProperties DEF LinesTyped
<1>2. start \in (i + 1)..Len(lines) /\ lines[start] # Blank
  BY StartFound DEF IndentedSpan
<1>3. AddSpan(start, end, IF isList(lines[start]) THEN "list" ELSE "code")
  BY DEF IndentedSpan
<1> HIDE DEF start, goesOn
<1>4. stop \in (start + 1)..(Len(lines) + 1)
  <2>1. stops \subseteq (start + 1)..Len(lines)
    OBVIOUS
  <2>2. start + 1 \in Int /\ Len(lines) \in Int
    BY <1>1, <1>2
  <2> HIDE DEF stops
  <2>3. stops # {} => Min(stops) \in (start + 1)..Len(lines)
    BY <2>1, <2>2, MinIn
  <2> QED  BY <1>1, <1>2, <2>3
<1> HIDE DEF stop
<1>5. said \subseteq start..(stop - 1) /\ said # {}
  BY <1>1, <1>2, <1>4
<1>6. last \in start..Len(lines)
  <2>1. start \in Int /\ stop - 1 \in Int
    BY <1>1, <1>2, <1>4
  <2> HIDE DEF said
  <2>2. Max(said) \in start..(stop - 1)
    BY <1>5, <2>1, MaxIn
  <2> QED  BY <1>1, <1>2, <1>4, <2>2
<1> HIDE DEF last
<1>7. end \in start..Len(lines)
  BY <1>1, <1>2, <1>6
<1> HIDE DEF end
<1>8. /\ Added(start, end)
      /\ \E kind \in {"list", "code"} :
           spans' = Append(spans, [start |-> start, end |-> end, kind |-> kind])
  <2>1. PICK kind \in {"list", "code"} :
          /\ spans' = Append(spans, [start |-> start, end |-> end, kind |-> kind])
          /\ kind = "list" => isList(lines[start])
    BY <1>3 DEF AddSpan
  <2>2. i' = end
    BY <1>3 DEF AddSpan
  <2>3. Kinded(lines, [start |-> start, end |-> end, kind |-> kind])
    BY <2>1 DEF Kinded
  <2> QED  BY <2>1, <2>2, <2>3 DEF Added
<1> QED  BY <1>7, <1>8 DEF start

\* What is added ends within the lines.
LEMMA IndentedEnds ==
  ASSUME LinesTyped, i \in Nat, IndentedSpan
  PROVE  \E end \in Start..Len(lines) : Added(Start, end)
  BY IndentedAdds

\* Unindented lines end within them, or before the first if all are left to the
\* indented ones.
LEMMA LeftFound ==
  ASSUME NEW start \in Int, NEW stop \in Int, start <= stop - 1
  PROVE  Left(start, stop) \in (start - 1)..(stop - 1)
<1> DEFINE others == {k \in (start - 1)..(stop - 2) : k = start - 1 \/ ~isList(lines[k])}
<1>1. others \subseteq (start - 1)..(stop - 2) /\ start - 1 \in others
  OBVIOUS
<1>2. Left(start, stop) \in {Max(others), stop - 2, stop - 1}
  BY DEF Left
<1> HIDE DEF others
<1>3. start - 1 \in Int /\ stop - 2 \in Int /\ others # {}
  BY <1>1
<1>4. Max(others) \in (start - 1)..(stop - 2)
  BY <1>1, <1>3, MaxIn
<1>5. Max(others) \in (start - 1)..(stop - 1)
  BY <1>4
<1> QED  BY <1>2, <1>5

\* Of unindented lines, before stop, none, some or all are left to the indented
\* ones that follow, and those that are left count as indented.
LEMMA UnindentedEnds ==
  ASSUME LinesTyped, i \in Nat, UnindentedSpan
  PROVE  \E stop \in (Start + 1)..(Len(lines) + 1) : \E end \in (Start - 1)..(stop - 1) :
           /\ forceIndent' = ForceIndent(end, stop)
           /\ IF end < Start THEN i' = Start - 1 /\ spans' = spans ELSE Added(Start, end)
<1> DEFINE start == Start
           stops == {k \in (start + 1)..Len(lines) : lines[k] = Blank \/ indented(lines[k])}
           stop == IF stops = {} THEN Len(lines) + 1 ELSE Min(stops)
           looks == stop <= Len(lines) /\ lines[stop] # Blank /\ ~isList(lines[stop])
           end == IF looks THEN Left(start, stop) ELSE stop - 1
           kind == IF end = start /\ isHeading(lines[start]) THEN "heading"
                   ELSE IF end = start /\ isOldHeading(lines, start) THEN "old heading"
                   ELSE "para"
<1>1. Len(lines) \in Nat
  BY LenProperties DEF LinesTyped
<1>2. start \in (i + 1)..Len(lines)
  BY StartFound DEF UnindentedSpan
<1>3. /\ forceIndent' = ForceIndent(end, stop)
      /\ IF end < start THEN i' = start - 1 /\ spans' = spans ELSE AddSpan(start, end, kind)
  BY DEF UnindentedSpan
<1> HIDE DEF start, looks, kind
<1>4. stop \in (start + 1)..(Len(lines) + 1)
  <2>1. stops \subseteq (start + 1)..Len(lines)
    OBVIOUS
  <2>2. start + 1 \in Int /\ Len(lines) \in Int
    BY <1>1, <1>2
  <2> HIDE DEF stops
  <2>3. stops # {} => Min(stops) \in (start + 1)..Len(lines)
    BY <2>1, <2>2, MinIn
  <2> QED  BY <1>1, <1>2, <2>3
<1> HIDE DEF stop
<1>5. Left(start, stop) \in (start - 1)..(stop - 1)
  BY <1>1, <1>2, <1>4, LeftFound
<1>6. end \in (start - 1)..(stop - 1)
  BY <1>1, <1>2, <1>4, <1>5
<1> HIDE DEF end
<1>7. IF end < start THEN i' = start - 1 /\ spans' = spans ELSE Added(start, end)
  <2>1. /\ kind \in {"list", "code", "heading", "old heading", "para"}
        /\ kind = "heading" => isHeading(lines[start])
        /\ kind # "list" /\ (kind \in {"heading", "old heading"} => end = start)
    BY DEF kind
  <2>2. Kinded(lines, [start |-> start, end |-> end, kind |-> kind])
    BY <2>1 DEF Kinded
  <2> QED  BY <1>3, <2>1, <2>2 DEF AddSpan, Added
<1> QED  BY <1>3, <1>4, <1>6, <1>7 DEF start

------------------------------------------------------------------------------
(* The watchdog *)

\* A turn of the loop takes a line into a span for good, or has more lines count
\* as indented, which happens to a line once: the turns left are no fewer than
\* both together may still take.
Progress ==
  /\ step \in {"extract", "parse", "done"}
  /\ i \in 0..Len(lines)
  /\ forceIndent \in 0..Len(lines)
  /\ watchdog \in Int
  /\ step = "extract" => i = 0 /\ forceIndent = 0 /\ watchdog = 0 /\ spans = <<>> /\ lines = <<>>
  /\ step # "extract" => watchdog >= (Len(lines) - i) + (Len(lines) - forceIndent)

\* There is no loop yet.
LEMMA ProgressInit == Init => Progress
  BY DEF Init, Progress

\* Each turn takes from the watchdog what it takes from the lines.
LEMMA ProgressNext ==
  ASSUME LinesTyped, LinesTyped', Progress, [Next]_vars
  PROVE  Progress'
<1>1. Len(lines) \in Nat /\ Len(lines)' \in Nat
  BY LenProperties DEF LinesTyped
<1>2. CASE Extract
  <2>1. i = 0 /\ forceIndent = 0 /\ watchdog = 0 /\ lines = <<>> /\ spans = <<>>
    BY <1>2 DEF Extract, Progress
  <2>2. i' = i /\ forceIndent' = forceIndent /\ spans' = spans
    BY <1>2 DEF Extract
  <2>3. CASE Ignored(comment)
    BY <1>2, <2>1, <2>2, <2>3 DEF Extract, Progress
  <2>4. CASE ~ Ignored(comment)
    <3>1. step' = "parse" /\ watchdog' = 2 * Len(lines')
      BY <1>2, <2>4 DEF Extract
    <3> QED  BY <1>1, <2>1, <2>2, <3>1 DEF Progress
  <2> QED  BY <2>3, <2>4
<1>3. CASE IndentedSpan
  <2>1. PICK end \in Start..Len(lines) : Added(Start, end)
    BY <1>1, <1>3, IndentedEnds DEF Progress
  <2>2. Start \in (i + 1)..Len(lines)
    BY <1>1, <1>3, StartFound DEF IndentedSpan, Progress
  <2>3. step' = step /\ lines' = lines /\ forceIndent' = forceIndent /\ watchdog' = watchdog - 1 /\ step = "parse"
    BY <1>3 DEF IndentedSpan
  <2>4. i' = end
    BY <2>1 DEF Added
  <2> QED  BY <1>1, <2>1, <2>2, <2>3, <2>4 DEF Progress
<1>4. CASE UnindentedSpan
  <2>0. PICK stop \in (Start + 1)..(Len(lines) + 1) : \E end \in (Start - 1)..(stop - 1) :
          /\ forceIndent' = ForceIndent(end, stop)
          /\ IF end < Start THEN i' = Start - 1 /\ spans' = spans ELSE Added(Start, end)
    BY <1>1, <1>4, UnindentedEnds DEF Progress
  <2>1. PICK end \in (Start - 1)..(stop - 1) :
          /\ forceIndent' = ForceIndent(end, stop)
          /\ IF end < Start THEN i' = Start - 1 /\ spans' = spans ELSE Added(Start, end)
    BY <2>0
  <2>2. Start \in (i + 1)..Len(lines)
    <3>1. Start <= Len(lines)
      BY <1>4 DEF UnindentedSpan
    <3> QED  BY <1>1, <3>1, StartFound DEF Progress
  <2>3. step' = step /\ lines' = lines /\ watchdog' = watchdog - 1 /\ step = "parse"
    BY <1>4 DEF UnindentedSpan
  <2>4. ~ (Start <= forceIndent)
    BY <1>4 DEF UnindentedSpan, Forced
  <2>5. CASE end < Start
    <3>1. forceIndent' = stop - 1 /\ i' = Start - 1
      <4>1. Start \in Int /\ stop \in Int /\ end \in Int /\ stop >= Start + 1
        BY <1>1, <2>2 DEF Progress
      <4>2. end < stop - 1
        BY <4>1, <2>5
      <4> QED  BY <2>1, <2>5, <4>2 DEF ForceIndent
    <3> QED  BY <1>1, <2>1, <2>2, <2>3, <2>4, <3>1 DEF Progress
  <2>6. CASE ~ (end < Start)
    <3>1. i' = end /\ forceIndent' \in {forceIndent, stop - 1}
      BY <2>1, <2>6 DEF Added, ForceIndent
    <3> QED  BY SMTT(30), <1>1, <2>1, <2>2, <2>3, <2>4, <2>6, <3>1 DEF Progress
  <2> QED  BY <2>5, <2>6
<1>5. CASE Finish
  BY <1>5 DEF Finish, Progress
<1>6. CASE Again
  BY <1>6 DEF Again, Progress
<1>7. CASE UNCHANGED vars
  BY <1>7 DEF vars, Progress
<1> QED  BY <1>2, <1>3, <1>4, <1>5, <1>6, <1>7 DEF Next

\* With turns left, one more takes none too many.
LEMMA ProgressQuiet == Progress /\ LinesTyped => MakesProgress
<1> SUFFICES ASSUME Progress, LinesTyped  PROVE watchdog >= 0
  BY DEF MakesProgress
<1>1. Len(lines) \in Nat
  BY LenProperties DEF LinesTyped
<1> QED  BY <1>1 DEF Progress

------------------------------------------------------------------------------
(* The spans *)

SpanSet == [start : Nat, end : Nat,
            kind : {"list", "code", "heading", "old heading", "para"}]

\* Every line up to the n-th that says something is in a span.
Upto(n) ==
  \A k \in DOMAIN lines :
    k <= n /\ lines[k] # Blank => \E s \in DOMAIN spans : k \in spans[s].start..spans[s].end

\* The spans found cover the lines gone through, and no line after them.
Covering ==
  /\ spans \in Seq(SpanSet)
  /\ \A k \in DOMAIN spans : spans[k].start <= spans[k].end /\ spans[k].end <= i
  /\ \A k \in 2..Len(spans) : spans[k - 1].end < spans[k].start
  /\ Upto(i)
  /\ step = "done" => Upto(Len(lines))

\* What a sequence of spans has.
LEMMA SpanFacts ==
  ASSUME NEW seq \in Seq(SpanSet)
  PROVE  /\ Len(seq) \in Nat /\ DOMAIN seq = 1..Len(seq)
         /\ \A k \in 1..Len(seq) : seq[k].start \in Nat /\ seq[k].end \in Nat
<1>1. Len(seq) \in Nat /\ DOMAIN seq = 1..Len(seq)
  BY LenProperties
<1>2. \A k \in 1..Len(seq) : seq[k] \in SpanSet
  BY ElementOfSeq
<1>3. ASSUME NEW x \in SpanSet  PROVE x.start \in Nat /\ x.end \in Nat
  BY DEF SpanSet
<1> QED  BY <1>1, <1>2, <1>3

\* There is no span yet.
LEMMA CoveringInit == Init => Covering
  BY DEF Init, Covering, Upto

\* One more span, after all of the others.
LEMMA AppendSpan ==
  ASSUME NEW seq \in Seq(SpanSet), NEW new \in SpanSet, NEW most \in Nat,
         \A k \in DOMAIN seq : seq[k].start <= seq[k].end /\ seq[k].end <= most,
         \A k \in 2..Len(seq) : seq[k - 1].end < seq[k].start,
         most < new.start, new.start <= new.end
  PROVE  LET all == Append(seq, new)
         IN /\ all \in Seq(SpanSet)
            /\ \A k \in DOMAIN seq : k \in DOMAIN all /\ all[k] = seq[k]
            /\ \E s \in DOMAIN all : all[s] = new
            /\ \A k \in DOMAIN all : all[k].start <= all[k].end /\ all[k].end <= new.end
            /\ \A k \in 2..Len(all) : all[k - 1].end < all[k].start
<1> DEFINE all == Append(seq, new)
<1>1. PICK n \in Nat : n = Len(seq)
  BY SpanFacts
<1>2. DOMAIN seq = 1..n
  BY <1>1, SpanFacts
<1>3. all \in Seq(SpanSet) /\ Len(all) = n + 1
  BY <1>1, AppendProperties
<1>4. DOMAIN all = 1..(n + 1)
  BY <1>3, LenProperties
<1>5. all[n + 1] = new
  BY <1>1, AppendProperties
<1>6. \A k \in 1..n : all[k] = seq[k]
  BY <1>1, AppendProperties
<1> HIDE DEF all
<1>7. \A k \in 1..n : seq[k].start <= seq[k].end /\ seq[k].end <= most /\ seq[k].end \in Nat
  BY <1>1, <1>2, SpanFacts
<1>8. new.start \in Nat /\ new.end \in Nat
  BY DEF SpanSet
<1>9. \A k \in DOMAIN seq : k \in DOMAIN all /\ all[k] = seq[k]
  <2>1. \A k \in 1..n : k \in 1..(n + 1)
    OBVIOUS
  <2> QED  BY <1>2, <1>4, <1>6, <2>1
<1>10. \E s \in DOMAIN all : all[s] = new
  <2>1. n + 1 \in 1..(n + 1)
    OBVIOUS
  <2> QED  BY <1>4, <1>5, <2>1
<1>11. ASSUME NEW k \in DOMAIN all
       PROVE  all[k].start <= all[k].end /\ all[k].end <= new.end
  <2>1. k \in 1..n \/ k = n + 1
    <3>1. k \in 1..(n + 1)
      BY <1>4
    <3> QED  BY <3>1
  <2>2. CASE k \in 1..n
    <3>1. seq[k].start <= seq[k].end /\ seq[k].end <= most /\ seq[k].end \in Nat
      BY <1>7, <2>2
    <3>2. most <= new.end
      BY <1>8
    <3>3. seq[k].end <= new.end
      BY <1>8, <3>1, <3>2
    <3> QED  BY <1>6, <2>2, <3>1, <3>3
  <2>3. CASE k = n + 1
    BY <1>5, <1>8, <2>3
  <2> QED  BY <2>1, <2>2, <2>3
<1>12. ASSUME NEW k \in 2..(n + 1)
       PROVE  all[k - 1].end < all[k].start
  <2>1. k - 1 \in 1..n
    OBVIOUS
  <2>2. all[k - 1] = seq[k - 1]
    BY <1>6, <2>1
  <2>3. CASE k \in 2..n
    <3>1. k \in 1..n
      BY <2>3
    <3>2. all[k] = seq[k]
      BY <1>6, <3>1
    <3>3. seq[k - 1].end < seq[k].start
      BY <1>1, <2>3
    <3> QED  BY <2>2, <3>2, <3>3
  <2>4. CASE k = n + 1
    <3>1. seq[k - 1].end \in Nat /\ seq[k - 1].end <= most
      BY <1>7, <2>1
    <3>2. seq[k - 1].end < new.start
      BY <1>8, <3>1
    <3> QED  BY <1>5, <2>2, <2>4, <3>2
  <2> QED  BY <2>3, <2>4
<1> QED  BY <1>3, <1>9, <1>10, <1>11, <1>12 DEF all

\* A span from the next line that says something on covers what it takes.
LEMMA AddedCovers ==
  ASSUME LinesTyped, i \in 0..Len(lines), Covering, Start <= Len(lines),
         NEW end \in Start..Len(lines), Added(Start, end),
         lines' = lines, step' = "parse"
  PROVE  Covering'
<1>1. Len(lines) \in Nat
  BY LenProperties DEF LinesTyped
<1>2. i \in Nat
  BY <1>1
<1>3. PICK start \in (i + 1)..Len(lines) : start = Start /\ \A k \in (i + 1)..(start - 1) : lines[k] = Blank
  BY <1>2, StartFound
<1>4. start \in Nat /\ end \in Nat /\ start <= end /\ i < start
  BY <1>1, <1>2, <1>3
<1>5. PICK new \in SpanSet : /\ spans' = Append(spans, new)
                             /\ new.start = start /\ new.end = end
  <2>1. PICK kind \in {"list", "code", "heading", "old heading", "para"} :
          spans' = Append(spans, [start |-> start, end |-> end, kind |-> kind])
    BY <1>3 DEF Added
  <2>2. [start |-> start, end |-> end, kind |-> kind] \in SpanSet
    BY <1>4 DEF SpanSet
  <2> QED  BY <2>1, <2>2
<1>6. i' = end
  BY DEF Added
<1>7. /\ spans' \in Seq(SpanSet)
      /\ \A k \in DOMAIN spans : k \in DOMAIN spans' /\ spans'[k] = spans[k]
      /\ \E s \in DOMAIN spans' : spans'[s] = new
      /\ \A k \in DOMAIN spans' : spans'[k].start <= spans'[k].end /\ spans'[k].end <= new.end
      /\ \A k \in 2..Len(spans') : spans'[k - 1].end < spans'[k].start
  <2>1. /\ spans \in Seq(SpanSet)
        /\ \A k \in DOMAIN spans : spans[k].start <= spans[k].end /\ spans[k].end <= i
        /\ \A k \in 2..Len(spans) : spans[k - 1].end < spans[k].start
    BY DEF Covering
  <2>2. i < new.start /\ new.start <= new.end
    BY <1>4, <1>5
  <2> QED  BY <1>2, <1>5, <2>1, <2>2, AppendSpan
<1>8. ASSUME NEW k \in DOMAIN lines, k <= end, lines[k] # Blank
      PROVE  \E s \in DOMAIN spans' : k \in spans'[s].start..spans'[s].end
  <2>1. CASE k <= i
    <3>1. PICK s \in DOMAIN spans : k \in spans[s].start..spans[s].end
      BY <1>8, <2>1 DEF Covering, Upto
    <3> QED  BY <1>7, <3>1
  <2>2. CASE ~ (k <= i)
    <3>1. k \in Int
      BY LenProperties DEF LinesTyped
    <3>2. ~ (k \in (i + 1)..(start - 1))
      BY <1>3, <1>8
    <3>3. k \in start..end
      BY <1>2, <1>4, <1>8, <2>2, <3>1, <3>2
    <3> QED  BY <1>5, <1>7, <3>3
  <2> QED  BY <2>1, <2>2
<1>9. Upto(i)'
  BY <1>6, <1>8 DEF Upto
<1> QED  BY <1>5, <1>6, <1>7, <1>9 DEF Covering

\* What is added starts after what is there, and skips blank lines only.
LEMMA CoveringNext ==
  ASSUME LinesTyped, LinesTyped', Progress, Covering, [Next]_vars
  PROVE  Covering'
<1>1. Len(lines) \in Nat /\ i \in 0..Len(lines) /\ i \in Nat
  BY LenProperties DEF LinesTyped, Progress
<1>2. CASE Extract
  <2>1. i' = 0 /\ spans' = <<>>
    BY <1>2 DEF Extract, Progress
  <2>2. step' = "parse" \/ (lines' = <<>> /\ step' = "done")
    BY <1>2 DEF Extract, Progress
  <2>3. DOMAIN lines' = 1..Len(lines') /\ Len(lines') \in Nat
    BY LenProperties DEF LinesTyped
  <2>4. Upto(i)'
    BY <2>1, <2>3 DEF Upto
  <2>5. step' = "done" => Upto(Len(lines))'
    BY <2>2 DEF Upto
  <2> QED  BY <2>1, <2>4, <2>5 DEF Covering
<1>3. CASE IndentedSpan
  <2>1. PICK end \in Start..Len(lines) : Added(Start, end)
    BY <1>1, <1>3, IndentedEnds
  <2>2. Start <= Len(lines) /\ lines' = lines /\ step' = "parse"
    BY <1>3 DEF IndentedSpan
  <2> QED  BY <1>1, <2>1, <2>2, AddedCovers
<1>4. CASE UnindentedSpan
  <2>1. PICK stop \in (Start + 1)..(Len(lines) + 1) : \E end \in (Start - 1)..(stop - 1) :
          IF end < Start THEN i' = Start - 1 /\ spans' = spans ELSE Added(Start, end)
    BY <1>1, <1>4, UnindentedEnds
  <2>2. PICK end \in (Start - 1)..(stop - 1) :
          IF end < Start THEN i' = Start - 1 /\ spans' = spans ELSE Added(Start, end)
    BY <2>1
  <2>3. Start <= Len(lines) /\ lines' = lines /\ step = "parse" /\ step' = "parse"
    BY <1>4 DEF UnindentedSpan
  <2>4. /\ Start \in (i + 1)..Len(lines)
        /\ \A k \in (i + 1)..(Start - 1) : lines[k] = Blank
    BY <1>1, <2>3, StartFound
  <2>5. CASE end < Start
    <3>1. i' = Start - 1 /\ spans' = spans
      BY <2>2, <2>5
    <3>2. i' \in Nat /\ i <= i'
      BY <1>1, <2>4, <3>1
    <3>3. DOMAIN lines = 1..Len(lines)
      BY LenProperties DEF LinesTyped
    <3>4. ASSUME NEW k \in DOMAIN lines, k <= Start - 1, lines[k] # Blank
          PROVE  k <= i
      BY <1>1, <2>4, <3>3, <3>4
    <3>5. Upto(i)'
      BY <2>3, <3>1, <3>4 DEF Covering, Upto
    <3>6. \A k \in DOMAIN spans : spans[k].start <= spans[k].end /\ spans[k].end <= i'
      <4>1. \A k \in DOMAIN spans : spans[k].end \in Nat
        BY SpanFacts DEF Covering
      <4> QED  BY <1>1, <3>2, <4>1 DEF Covering
    <3> QED  BY <2>3, <3>1, <3>5, <3>6 DEF Covering
  <2>6. CASE ~ (end < Start)
    <3>1. Added(Start, end) /\ end \in Start..Len(lines)
      BY <1>1, <2>2, <2>4, <2>6
    <3> QED  BY <1>1, <2>3, <3>1, AddedCovers
  <2> QED  BY <2>5, <2>6
<1>5. CASE Finish
  <2>1. lines' = lines /\ spans' = spans /\ i' = i /\ step = "parse" /\ Start > Len(lines)
    BY <1>5 DEF Finish
  <2>2. DOMAIN lines = 1..Len(lines)
    BY LenProperties DEF LinesTyped
  <2>3. ASSUME NEW k \in DOMAIN lines, lines[k] # Blank
        PROVE  k <= i
    <3> DEFINE said == {n \in (i + 1)..Len(lines) : lines[n] # Blank}
    <3>1. CASE said = {}
      BY <1>1, <2>2, <2>3, <3>1
    <3>2. CASE said # {}
      <4>1. Start = Min(said)
        BY <3>2 DEF Start
      <4>2. said \subseteq (i + 1)..Len(lines) /\ i + 1 \in Int /\ Len(lines) \in Int
        BY <1>1
      <4> HIDE DEF said
      <4>3. Min(said) \in (i + 1)..Len(lines)
        BY <3>2, <4>2, MinIn
      <4> QED  BY <1>1, <2>1, <4>1, <4>3
    <3> QED  BY <3>1, <3>2
  <2>4. Upto(i)' /\ Upto(Len(lines))'
    BY <2>1, <2>3 DEF Covering, Upto
  <2> QED  BY <2>1, <2>4 DEF Covering
<1>6. CASE Again
  <2>1. lines' = <<>> /\ spans' = <<>> /\ i' = 0 /\ step' = "extract"
    BY <1>6 DEF Again
  <2> QED  BY <2>1 DEF Covering, Upto
<1>7. CASE UNCHANGED vars
  BY <1>7 DEF vars, Covering, Upto
<1> QED  BY <1>2, <1>3, <1>4, <1>5, <1>6, <1>7 DEF Next

\* At the end of the lines, every line but blank ones is in a span.
LEMMA CoveringCovers == Progress /\ Covering /\ LinesTyped => SpansCover
<1> SUFFICES ASSUME Progress, Covering, LinesTyped  PROVE SpansCover
  OBVIOUS
<1>1. Len(lines) \in Nat /\ DOMAIN lines = 1..Len(lines)
  BY LenProperties DEF LinesTyped
<1>2. ASSUME NEW k \in DOMAIN spans  PROVE spans[k].end <= Len(lines)
  <2>1. spans[k].end \in Nat /\ spans[k].end <= i
    BY SpanFacts DEF Covering
  <2> QED  BY <1>1, <2>1 DEF Progress
<1>3. \A k \in DOMAIN lines : k <= Len(lines)
  BY <1>1
<1> QED  BY <1>2, <1>3 DEF Covering, SpansCover, Upto

------------------------------------------------------------------------------
(* Lines stay lines *)

LEMMA FunctionIsSeq ==
  ASSUME NEW S, NEW n \in Nat, NEW f \in [1..n -> S]
  PROVE  f \in Seq(S) /\ Len(f) = n /\ DOMAIN f = 1..n
<1>1. f \in Seq(S)
  BY SeqDef
<1>2. DOMAIN f = 1..n
  OBVIOUS
<1> QED  BY <1>1, <1>2, LenProperties

\* A sequence and its elements.
LEMMA SeqFacts ==
  ASSUME NEW S, NEW seq \in Seq(S)
  PROVE  /\ Len(seq) \in Nat /\ DOMAIN seq = 1..Len(seq)
         /\ \A k \in 1..Len(seq) : seq[k] \in S
<1>1. Len(seq) \in Nat /\ DOMAIN seq = 1..Len(seq) /\ seq \in [1..Len(seq) -> S]
  BY LenProperties
<1> QED  BY <1>1

\* One element is a sequence.
LEMMA SingleTyped ==
  ASSUME NEW S, NEW e \in S
  PROVE  <<e>> \in Seq(S) /\ Len(<<e>>) = 1 /\ <<e>>[1] = e
  OBVIOUS

\* One element before others.
LEMMA ConsTyped ==
  ASSUME NEW S, NEW e \in S, NEW seq \in Seq(S)
  PROVE  <<e>> \o seq \in Seq(S) /\ <<e>> \o seq # <<>>
<1>1. <<e>> \in Seq(S) /\ Len(<<e>>) = 1
  BY SingleTyped
<1>2. PICK n \in Nat : n = Len(seq)
  BY SeqFacts
<1>3. <<e>> \o seq \in Seq(S) /\ Len(<<e>> \o seq) = 1 + n
  BY <1>1, <1>2, ConcatProperties
<1>4. Len(<<>>) = 0
  BY EmptySeq
<1> QED  BY <1>3, <1>4

\* A line made of its indentation and its words is one.
LEMMA LineTyped ==
  ASSUME NEW lead \in Seq({" ", "\t"}), NEW words \in Seq(Word)
  PROVE  /\ Line(lead, words) \in AnyLine
         /\ Line(lead, words).lead = lead /\ Line(lead, words).words = words
  BY DEF Line, AnyLine

\* And is made of them.
LEMMA FieldsTyped ==
  ASSUME NEW line \in AnyLine
  PROVE  line.lead \in Seq({" ", "\t"}) /\ line.words \in Seq(Word)
  BY DEF AnyLine

\* The blank line has neither.
LEMMA BlankTyped == Blank \in AnyLine /\ Blank.lead = <<>> /\ Blank.words = <<>>
<1>1. <<>> \in Seq({" ", "\t"}) /\ <<>> \in Seq(Word)
  BY EmptySeq
<1> QED  BY <1>1, LineTyped DEF Blank

\* Blank lines around are left out, and nothing is added.
LEMMA TrimTyped ==
  ASSUME NEW text \in Seq(AnyLine)
  PROVE  TrimBlanks(text) \in Seq(AnyLine)
<1> DEFINE said == {k \in DOMAIN text : text[k] # Blank}
<1>0. PICK n \in Nat : n = Len(text)
  BY SeqFacts
<1>1. DOMAIN text = 1..n /\ \A k \in 1..n : text[k] \in AnyLine
  BY <1>0, SeqFacts
<1>2. CASE said = {}
  <2>1. TrimBlanks(text) = <<>>
    BY <1>2 DEF TrimBlanks
  <2> QED  BY <2>1, EmptySeq
<1>3. CASE said # {}
  <2>1. TrimBlanks(text) = SubSeq(text, Min(said), Max(said))
    BY <1>3 DEF TrimBlanks
  <2>2. said \subseteq 1..n
    BY <1>1
  <2> HIDE DEF said
  <2>3. Min(said) \in 1..n /\ Max(said) \in 1..n
    <3>1. 1 \in Int /\ n \in Int
      OBVIOUS
    <3>2. Min(said) \in said
      BY <1>3, <2>2, <3>1, MinIn
    <3>3. Max(said) \in said
      BY <1>3, <2>2, <3>1, MaxIn
    <3> QED  BY <2>2, <3>2, <3>3
  <2>4. PICK a \in 1..n, b \in 1..n : a = Min(said) /\ b = Max(said)
    BY <2>3
  <2>5. \A k \in a..b : text[k] \in AnyLine
    BY <1>1
  <2>6. a \in Int /\ b \in Int
    OBVIOUS
  <2>7. SubSeq(text, a, b) \in Seq(AnyLine)
    BY <2>5, <2>6, SubSeqProperties
  <2> QED  BY <2>1, <2>4, <2>7
<1> QED  BY <1>2, <1>3

\* There is a longest common prefix.
LEMMA PrefixFound ==
  ASSUME NEW S, NEW leads \in SUBSET Seq(S), leads # {}
  PROVE  /\ Len(LongestCommonPrefix(leads)) \in Nat
         /\ <<>> \in leads => Len(LongestCommonPrefix(leads)) = 0
<1>1. PICK s \in leads : TRUE
  OBVIOUS
<1>2. s \in Seq(S)
  BY <1>1
<1>3. PICK n \in Nat : n = Len(s)
  BY <1>2, SeqFacts
<1> DEFINE Common == CommonPrefixes(leads)
<1>4. ASSUME NEW p \in Common  PROVE Len(p) \in 0..n
  <2>1. IsPrefix(p, s)
    BY <1>1 DEF CommonPrefixes
  <2>2. PICK t \in leads : p \in Prefixes(t)
    BY DEF CommonPrefixes
  <2>3. PICK h \in Nat : h = Len(t)
    <3>1. t \in Seq(S)
      OBVIOUS
    <3> QED  BY <3>1, SeqFacts
  <2>4. PICK l \in 0..h : p = SubSeq(t, 1, l)
    BY <2>2, <2>3 DEF Prefixes
  <2>5. \A k \in 1..l : t[k] \in S
    <3>1. t \in Seq(S)
      OBVIOUS
    <3>2. \A k \in 1..h : t[k] \in S
      BY <2>3, <3>1, SeqFacts
    <3> QED  BY <3>2
  <2>6. l \in Int /\ 1 \in Int
    OBVIOUS
  <2>7. p \in Seq(S)
    BY <2>4, <2>5, <2>6, SubSeqProperties
  <2>8. Len(p) \in Nat
    BY <2>7, SeqFacts
  <2> QED  BY <1>3, <2>1, <2>8 DEF IsPrefix
<1>5. <<>> \in Common
  <2>1. SubSeq(s, 1, 0) = <<>> /\ 0 \in 0..Len(s)
    BY <1>3, SubSeqEmpty
  <2>2. <<>> \in Prefixes(s)
    BY <2>1 DEF Prefixes
  <2>3. ASSUME NEW t \in leads  PROVE IsPrefix(<<>>, t)
    <3>1. t \in Seq(S)
      OBVIOUS
    <3>2. Len(t) \in Nat /\ Len(<<>>) = 0
      BY <3>1, SeqFacts, EmptySeq
    <3>3. SubSeq(<<>>, 1, 0) = <<>> /\ SubSeq(t, 1, 0) = <<>>
      BY SubSeqEmpty
    <3> QED  BY <3>2, <3>3 DEF IsPrefix
  <2> QED  BY <1>1, <2>2, <2>3 DEF CommonPrefixes
<1> HIDE DEF Common
<1> DEFINE lengths == {Len(p) : p \in Common}
<1>6. lengths \subseteq 0..n /\ lengths # {}
  BY <1>4, <1>5
<1>7. Max(lengths) \in lengths /\ \A y \in lengths : Max(lengths) >= y
  <2>1. 0 \in Int /\ n \in Int
    OBVIOUS
  <2> HIDE DEF lengths
  <2> QED  BY <1>6, <2>1, MaxIn
<1>8. PICK m \in 0..n : m \in lengths /\ \A y \in lengths : m >= y
  BY <1>6, <1>7
<1>9. PICK longest \in Common : Len(longest) = m
  BY <1>8
<1>10. ASSUME NEW other \in Common  PROVE Len(other) <= Len(longest)
  <2>1. Len(other) \in 0..n /\ m >= Len(other)
    BY <1>4, <1>8
  <2> QED  BY <1>9, <2>1
<1>11. LongestCommonPrefix(leads) \in Common
  BY <1>10 DEF LongestCommonPrefix, Common
<1>12. Len(LongestCommonPrefix(leads)) \in Nat
  BY <1>4, <1>11
<1>13. ASSUME <<>> \in leads  PROVE Len(LongestCommonPrefix(leads)) = 0
  <2>1. IsPrefix(LongestCommonPrefix(leads), <<>>)
    BY <1>11, <1>13 DEF CommonPrefixes, Common
  <2>2. Len(LongestCommonPrefix(leads)) <= 0
    BY <2>1, EmptySeq DEF IsPrefix
  <2> QED  BY <1>12, <2>2
<1> QED  BY <1>12, <1>13

\* What unindent leaves of lines are lines.
LEMMA UnindentTyped ==
  ASSUME NEW text \in Seq(AnyLine)
  PROVE  unindent(text) \in Seq(AnyLine)
<1> DEFINE trimmed == TrimBlanks(text)
           leads == {trimmed[k].lead : k \in {m \in DOMAIN trimmed : trimmed[m] # Blank}}
           common == IF leads = {} THEN 0 ELSE Len(LongestCommonPrefix(leads))
           Cut(line) == IF line.words = <<>> THEN Blank
                        ELSE [line EXCEPT !.lead = SubSeq(@, common + 1, Len(@))]
           cut == [k \in DOMAIN trimmed |-> Cut(trimmed[k])]
<1>1. unindent(text) = TrimBlanks(cut)
  BY DEF unindent
<1>2. trimmed \in Seq(AnyLine)
  BY TrimTyped
<1> HIDE DEF trimmed
<1>3. PICK n \in Nat : n = Len(trimmed)
  BY <1>2, SeqFacts
<1>4. DOMAIN trimmed = 1..n /\ \A k \in 1..n : trimmed[k] \in AnyLine
  BY <1>2, <1>3, SeqFacts
<1>5. common \in Nat
  <2>1. leads \in SUBSET Seq({" ", "\t"})
    <3>1. \A k \in 1..n : trimmed[k].lead \in Seq({" ", "\t"})
      BY <1>4, FieldsTyped
    <3> QED  BY <1>4, <3>1
  <2> HIDE DEF leads
  <2>2. leads # {} => Len(LongestCommonPrefix(leads)) \in Nat
    BY <2>1, PrefixFound
  <2> QED  BY <2>2
<1> HIDE DEF common
<1>6. ASSUME NEW line \in AnyLine  PROVE Cut(line) \in AnyLine
  <2>1. CASE line.words = <<>>
    BY <2>1, BlankTyped
  <2>2. CASE line.words # <<>>
    <3> DEFINE lead == line.lead
               rest == SubSeq(lead, common + 1, Len(lead))
    <3>1. lead \in Seq({" ", "\t"})
      BY FieldsTyped
    <3> HIDE DEF lead
    <3>2. PICK l \in Nat : l = Len(lead)
      BY <3>1, SeqFacts
    <3>3. \A k \in (common + 1)..l : lead[k] \in {" ", "\t"}
      <4>1. \A k \in 1..l : lead[k] \in {" ", "\t"}
        BY <3>1, <3>2, SeqFacts
      <4>2. (common + 1)..l \subseteq 1..l
        BY <1>5, <3>2
      <4> QED  BY <4>1, <4>2
    <3>4. common + 1 \in Int /\ l \in Int
      BY <1>5, <3>2
    <3>5. rest \in Seq({" ", "\t"})
      BY <3>2, <3>3, <3>4, SubSeqProperties
    <3>6. Cut(line) = [line EXCEPT !.lead = rest]
      BY <2>2 DEF lead
    <3> HIDE DEF rest
    <3> QED  BY <3>5, <3>6 DEF AnyLine
  <2> QED  BY <2>1, <2>2
<1>7. cut \in [1..n -> AnyLine]
  BY <1>4, <1>6
<1> HIDE DEF cut
<1>8. cut \in Seq(AnyLine)
  BY <1>3, <1>7, FunctionIsSeq
<1> QED  BY <1>1, <1>8, TrimTyped

\* So is what comes after the slashes, and with them again; only a blank line
\* and an indented one come with them.
LEMMA SlashesTyped ==
  ASSUME NEW line \in AnyLine
  PROVE  /\ AfterSlashes(line) \in AnyLine
         /\ WithSlashes(line) \in AnyLine
         /\ ~ isDirective(WithSlashes(line))
<1>1. PICK lead \in Seq({" ", "\t"}) : lead = line.lead
  BY FieldsTyped
<1>2. AfterSlashes(line) \in AnyLine
  <2>1. lead # <<>> => Tail(lead) \in Seq({" ", "\t"})
    BY HeadTailProperties
  <2> QED  BY <1>1, <2>1 DEF AfterSlashes, AnyLine
<1> DEFINE more == <<" ">> \o lead
<1>3. more \in Seq({" ", "\t"}) /\ more # <<>>
  <2>1. " " \in {" ", "\t"}
    OBVIOUS
  <2> QED  BY <2>1, ConsTyped
<1> HIDE DEF more
<1>4. CASE line = Blank
  <2>1. WithSlashes(line) = Blank
    BY <1>4 DEF WithSlashes
  <2>2. ~ isDirective(Blank)
    BY BlankTyped DEF isDirective
  <2> QED  BY <1>2, <2>1, <2>2, BlankTyped
<1>5. CASE line # Blank /\ lead # <<>> /\ lead[1] = "\t"
  BY <1>1, <1>2, <1>5 DEF WithSlashes, isDirective, indented
<1>6. CASE line # Blank /\ ~ (lead # <<>> /\ lead[1] = "\t")
  <2>1. WithSlashes(line) = [line EXCEPT !.lead = more]
    BY <1>1, <1>6 DEF WithSlashes, more
  <2>2. [line EXCEPT !.lead = more].lead = more
    BY DEF AnyLine
  <2>3. [line EXCEPT !.lead = more] \in AnyLine
    BY <1>3 DEF AnyLine
  <2> QED  BY <1>2, <1>3, <2>1, <2>2, <2>3 DEF isDirective, indented
<1> QED  BY <1>2, <1>4, <1>5, <1>6

------------------------------------------------------------------------------
(* The elements with some numbers *)

\* Sets of numbers up to n are finite.
LEMMA BoundedFinite ==
  ASSUME NEW n \in Nat, NEW T, T \subseteq 1..n
  PROVE  IsFiniteSet(T) /\ Cardinality(T) \in Nat
<1>1. 1 \in Int /\ n \in Int
  OBVIOUS
<1>2. IsFiniteSet(1..n)
  BY <1>1, FS_Interval
<1>3. IsFiniteSet(T)
  BY <1>2, FS_Subset
<1> QED  BY <1>3, FS_CardinalityType

\* The k-th of a set of numbers is one of them, and k of them are no greater.
LEMMA NthIn ==
  ASSUME NEW n \in Nat, NEW T, T \subseteq 1..n, NEW k \in 1..Cardinality(T)
  PROVE  /\ Nth(T, k) \in T
         /\ Cardinality({m \in T : m <= Nth(T, k)}) = k
<1> DEFINE upto(x) == {m \in T : m <= x}
           S == {x \in 0..n : Cardinality(upto(x)) >= k}
<1>1. \A x \in Int : upto(x) \subseteq 1..n
  OBVIOUS
<1>2. Cardinality(T) \in Nat /\ k \in Nat /\ k >= 1 /\ k <= Cardinality(T)
  <2>1. Cardinality(T) \in Nat
    BY BoundedFinite
  <2> QED  BY <2>1
<1>0. \A m \in T : m \in Int /\ 1 <= m /\ m <= n
  OBVIOUS
<1>3. upto(n) = T
  BY <1>0
<1>4. upto(0) = {}
  <2>1. \A m \in T : ~ (m <= 0)
    BY <1>0
  <2> QED  BY <2>1
<1>5. ASSUME NEW x \in 1..n
      PROVE  upto(x) = IF x \in T THEN upto(x - 1) \union {x} ELSE upto(x - 1)
  <2>1. \A m \in T : m <= x <=> m <= x - 1 \/ m = x
    BY <1>0
  <2> QED  BY <2>1
<1>6. ASSUME NEW x \in 1..n  PROVE ~ (x \in upto(x - 1))
  OBVIOUS
<1>7. ASSUME NEW x \in Int  PROVE IsFiniteSet(upto(x)) /\ Cardinality(upto(x)) \in Nat
  BY <1>1, BoundedFinite
<1>8. n \in S /\ S \subseteq Nat
  BY <1>2, <1>3
<1>9. PICK x \in S : \A y \in S : x <= y
  BY <1>8, LeastNatural
<1> HIDE DEF upto
<1>10. x \in 1..n
  <2>1. Cardinality(upto(0)) = 0
    BY <1>4, FS_EmptySet
  <2>2. x \in 0..n /\ x # 0
    BY <1>2, <1>9, <2>1
  <2> QED  BY <2>2
<1>11. Cardinality(upto(x - 1)) < k
  <2>1. x - 1 \in 0..n /\ ~ (x <= x - 1) /\ x - 1 \in Int
    BY <1>10
  <2>2. ~ (Cardinality(upto(x - 1)) >= k)
    BY <1>9, <2>1
  <2> QED  BY <1>2, <1>7, <2>1, <2>2
<1>12. Cardinality(upto(x)) >= k
  BY <1>9
<1>13. x - 1 \in Int /\ x \in Int
  BY <1>10
<1>14. x \in T /\ Cardinality(upto(x)) = k
  <2>1. CASE ~ (x \in T)
    <3>1. upto(x) = upto(x - 1)
      BY <1>5, <1>10, <2>1
    <3> QED  BY <1>2, <1>7, <1>11, <1>12, <1>13, <3>1
  <2>2. CASE x \in T
    <3>1. upto(x) = upto(x - 1) \union {x}
      BY <1>5, <1>10, <2>2
    <3>2. Cardinality(upto(x)) = Cardinality(upto(x - 1)) + 1
      <4>1. IsFiniteSet(upto(x - 1)) /\ ~ (x \in upto(x - 1))
        BY <1>6, <1>7, <1>10, <1>13
      <4> QED  BY <3>1, <4>1, FS_AddElement
    <3> QED  BY <1>2, <1>7, <1>11, <1>12, <1>13, <2>2, <3>2
  <2> QED  BY <2>1, <2>2
<1> QED  BY <1>14 DEF Nth, upto

\* The elements with these numbers are elements with these numbers.
LEMMA SelectTyped ==
  ASSUME NEW S, NEW seq \in Seq(S), NEW T, T \subseteq DOMAIN seq
  PROVE  /\ Select(seq, T) \in Seq(S)
         /\ Len(Select(seq, T)) = Cardinality(T)
         /\ \A k \in 1..Cardinality(T) : \E m \in T : Select(seq, T)[k] = seq[m]
<1>1. PICK n \in Nat : n = Len(seq)
  BY SeqFacts
<1>2. DOMAIN seq = 1..n /\ \A k \in 1..n : seq[k] \in S
  BY <1>1, SeqFacts
<1>3. PICK c \in Nat : c = Cardinality(T)
  BY <1>2, BoundedFinite
<1>4. \A k \in 1..c : Nth(T, k) \in T
  BY <1>2, <1>3, NthIn
<1>5. Select(seq, T) = [k \in 1..c |-> seq[Nth(T, k)]]
  BY <1>3 DEF Select
<1>6. Select(seq, T) \in [1..c -> S]
  BY <1>2, <1>4, <1>5
<1>7. Select(seq, T) \in Seq(S) /\ Len(Select(seq, T)) = c
  BY <1>3, <1>6, FunctionIsSeq
<1>8. \A k \in 1..c : \E m \in T : Select(seq, T)[k] = seq[m]
  BY <1>4, <1>5
<1> QED  BY <1>3, <1>7, <1>8

------------------------------------------------------------------------------
(* What folds and FlattenSeq return: the functions they recurse by exist, and *)
(* stay within a set                                                          *)

LEMMA MaxOf ==
  ASSUME NEW m \in Nat, NEW s, s \subseteq 1..m
  PROVE  /\ m \in s => Max(s) = m
         /\ s # {} => Max(s) \in s
<1>1. 1 \in Int /\ m \in Int
  OBVIOUS
<1>2. s # {} => Max(s) \in s /\ \A y \in s : Max(s) >= y
  BY <1>1, MaxIn
<1>3. ASSUME m \in s  PROVE Max(s) = m
  <2>1. Max(s) \in 1..m /\ Max(s) >= m
    BY <1>2, <1>3
  <2> QED  BY <2>1
<1> QED  BY <1>2, <1>3

\* The function a fold recurses by.
Iterates(it, n, base, g) ==
  it = [s \in SUBSET (1..n) |-> IF s = {} THEN base ELSE g[<<Max(s), it[s \ {Max(s)}]>>]]

\* There is such a function, because a set without its greatest member is one of
\* numbers below it.
LEMMA FoldFound ==
  ASSUME NEW D, NEW n \in Nat, NEW base \in D, NEW g \in [(1..n) \X D -> D]
  PROVE  \E it \in [SUBSET (1..n) -> D] : Iterates(it, n, base, g)
<1> DEFINE Good(m) == \E it \in [SUBSET (1..m) -> D] : Iterates(it, m, base, g)
           Bad == {m \in 0..n : ~ Good(m)}
<1>1. Good(0)
  <2> DEFINE it == [s \in SUBSET (1..0) |-> base]
  <2>1. \A s \in SUBSET (1..0) : s = {}
    OBVIOUS
  <2>2. it = [s \in SUBSET (1..0) |-> IF s = {} THEN base ELSE g[<<Max(s), it[s \ {Max(s)}]>>]]
    BY <2>1
  <2>3. it \in [SUBSET (1..0) -> D]
    OBVIOUS
  <2> QED  BY <2>2, <2>3 DEF Iterates
<1>2. ASSUME NEW m \in 1..n, Good(m - 1)  PROVE Good(m)
  <2>1. PICK old \in [SUBSET (1..(m - 1)) -> D] : Iterates(old, m - 1, base, g)
    BY <1>2
  <2> DEFINE it == [s \in SUBSET (1..m) |-> IF m \in s THEN g[<<m, old[s \ {m}]>>] ELSE old[s]]
  <2>2. ASSUME NEW s \in SUBSET (1..m)
        PROVE  /\ ~ (m \in s) => s \in SUBSET (1..(m - 1))
               /\ s \ {m} \in SUBSET (1..(m - 1)) /\ s \ {m} \in SUBSET (1..m)
    <3>1. \A x \in 1..m : x # m => x \in 1..(m - 1)
      OBVIOUS
    <3> QED  BY <3>1
  <2>3. ASSUME NEW s \in SUBSET (1..m)  PROVE it[s] \in D
    <3>1. CASE m \in s
      <4>1. old[s \ {m}] \in D
        BY <2>2
      <4>2. g[<<m, old[s \ {m}]>>] \in D
        BY <4>1
      <4> QED  BY <3>1, <4>2
    <3>2. CASE ~ (m \in s)
      BY <2>2, <3>2
    <3> QED  BY <3>1, <3>2
  <2>4. ASSUME NEW s \in SUBSET (1..m)
        PROVE  it[s] = IF s = {} THEN base ELSE g[<<Max(s), it[s \ {Max(s)}]>>]
    <3>0. m \in Nat /\ m - 1 \in Nat
      OBVIOUS
    <3>1. CASE m \in s
      <4>1. Max(s) = m
        BY <3>0, <3>1, MaxOf
      <4>2. it[s] = g[<<m, old[s \ {m}]>>]
        BY <3>1
      <4>3. it[s \ {m}] = old[s \ {m}]
        BY <2>2
      <4> HIDE DEF it
      <4> QED  BY <3>1, <4>1, <4>2, <4>3
    <3>2. CASE ~ (m \in s)
      <4>1. s \in SUBSET (1..(m - 1))
        BY <2>2, <3>2
      <4>2. it[s] = old[s]
        BY <3>2
      <4>3. old[s] = IF s = {} THEN base ELSE g[<<Max(s), old[s \ {Max(s)}]>>]
        BY <2>1, <4>1 DEF Iterates
      <4>4. it[s \ {Max(s)}] = old[s \ {Max(s)}]
        BY <3>2
      <4> HIDE DEF it
      <4> QED  BY <4>2, <4>3, <4>4
    <3> QED  BY <3>1, <3>2
  <2>5. it = [s \in SUBSET (1..m) |-> it[s]]
    OBVIOUS
  <2> HIDE DEF it
  <2>6. it \in [SUBSET (1..m) -> D]
    BY <2>3, <2>5
  <2>7. Iterates(it, m, base, g)
    BY <2>4, <2>5 DEF Iterates
  <2> QED  BY <2>6, <2>7
<1> HIDE DEF Good
<1>3. Bad = {}
  <2> SUFFICES ASSUME Bad # {}  PROVE FALSE
    OBVIOUS
  <2>1. Bad \subseteq Nat
    OBVIOUS
  <2>2. PICK m \in Bad : \A y \in Bad : m <= y
    BY <2>1, LeastNatural
  <2>3. m \in 0..n /\ ~ Good(m)
    BY <2>2
  <2>4. m \in 1..n
    <3>1. m # 0
      BY <1>1, <2>3
    <3> QED  BY <2>3, <3>1
  <2>5. m - 1 \in 0..n /\ ~ (m <= m - 1)
    BY <2>4
  <2>6. Good(m - 1)
    BY <2>2, <2>5
  <2> QED  BY <1>2, <2>3, <2>4, <2>6
<1>4. Good(n)
  <2>1. n \in 0..n
    OBVIOUS
  <2> QED  BY <1>3, <2>1
<1> QED  BY <1>4 DEF Good

\* What holds at the a-th of some steps and is kept by each holds at the last.
LEMMA Climbs ==
  ASSUME NEW D, NEW a \in Nat, NEW n \in Nat, a <= n, NEW w, w[a] \in D,
         \A m \in (a + 1)..n : w[m - 1] \in D => w[m] \in D
  PROVE  w[n] \in D
<1> DEFINE Bad == {m \in a..n : ~ (w[m] \in D)}
<1>1. Bad = {}
  <2> SUFFICES ASSUME Bad # {}  PROVE FALSE
    OBVIOUS
  <2>1. Bad \subseteq Nat
    OBVIOUS
  <2>2. PICK m \in Bad : \A y \in Bad : m <= y
    BY <2>1, LeastNatural
  <2>3. m \in a..n /\ ~ (w[m] \in D)
    BY <2>2
  <2>4. m \in (a + 1)..n
    <3>1. m # a
      BY <2>3
    <3> QED  BY <2>3, <3>1
  <2>5. m - 1 \in a..n /\ ~ (m <= m - 1)
    BY <2>4
  <2>6. w[m - 1] \in D
    BY <2>2, <2>5
  <2> QED  BY <2>3, <2>4, <2>6
<1>2. n \in a..n
  OBVIOUS
<1> QED  BY <1>1, <1>2

\* What a fold by this function has made of the first elements.
Climbed(w, it, n, D) ==
  /\ w \in [0..n -> D] /\ w[0] = it[{}] /\ w[n] = it[1..n]
  /\ \A m \in 1..n : w[m - 1] = it[1..(m - 1)] /\ w[m] = it[1..m]

\* It stays in a set each step stays in.
LEMMA FoldClimbs ==
  ASSUME NEW D, NEW n \in Nat, NEW it, it[{}] \in D,
         \A m \in 1..n : it[1..(m - 1)] \in D => it[1..m] \in D
  PROVE  \E w : Climbed(w, it, n, D)
<1> DEFINE w == [m \in 0..n |-> it[1..m]]
<1>1. 1..0 = {}
  OBVIOUS
<1>2. ASSUME NEW x \in 0..n  PROVE it[1..x] \in D
  <2> DEFINE v == [m \in 0..x |-> it[1..m]]
  <2>1. x \in Nat /\ 0 \in Nat /\ 0 <= x /\ x \in 0..x /\ 0 \in 0..x
    OBVIOUS
  <2>2. v[0] \in D
    BY <1>1, <2>1
  <2>3. ASSUME NEW m \in 1..x, v[m - 1] \in D  PROVE v[m] \in D
    <3>1. m - 1 \in 0..x /\ m \in 0..x /\ m \in 1..n
      OBVIOUS
    <3> QED  BY <2>3, <3>1
  <2>4. 0 + 1 = 1 /\ v[x] = it[1..x]
    BY <2>1
  <2> HIDE DEF v
  <2>5. v[x] \in D
    BY <2>1, <2>2, <2>3, <2>4, Climbs
  <2> QED  BY <2>4, <2>5
<1>3. w \in [0..n -> D]
  BY <1>2
<1>4. w[0] = it[{}] /\ w[n] = it[1..n]
  BY <1>1
<1>5. \A m \in 1..n : w[m - 1] = it[1..(m - 1)] /\ w[m] = it[1..m]
  <2> SUFFICES ASSUME NEW m \in 1..n  PROVE w[m - 1] = it[1..(m - 1)] /\ w[m] = it[1..m]
    OBVIOUS
  <2>1. m - 1 \in 0..n /\ m \in 0..n
    OBVIOUS
  <2> QED  BY <2>1
<1> HIDE DEF w
<1>6. Climbed(w, it, n, D)
  BY <1>3, <1>4, <1>5 DEF Climbed
<1> QED  BY <1>6

\* The function of a fold on the first m numbers.
LEMMA FoldStep ==
  ASSUME NEW n \in Nat, NEW m \in 1..n
  PROVE  /\ 1..m \in SUBSET (1..n) /\ 1..m # {}
         /\ Max(1..m) = m /\ (1..m) \ {m} = 1..(m - 1)
<1>1. 1..m \in SUBSET (1..n) /\ m \in 1..m
  OBVIOUS
<1>2. Max(1..m) = m
  <2>1. 1..m \subseteq 1..m /\ m \in Nat
    OBVIOUS
  <2> QED  BY <1>1, <2>1, MaxOf
<1>3. (1..m) \ {m} = 1..(m - 1)
  OBVIOUS
<1> QED  BY <1>1, <1>2, <1>3

\* The sequences of a sequence, one after another, are a sequence.
LEMMA FlattenTyped ==
  ASSUME NEW S, NEW seqs \in Seq(Seq(S))
  PROVE  FlattenSeq(seqs) \in Seq(S)
<1>1. PICK n \in Nat : n = Len(seqs)
  BY SeqFacts
<1>2. \A k \in 1..n : seqs[k] \in Seq(S)
  BY <1>1, SeqFacts
<1>3. CASE n = 0
  <2>1. FlattenSeq(seqs) = seqs
    BY <1>1, <1>3 DEF FlattenSeq
  <2>2. seqs = <<>>
    BY <1>1, <1>3, EmptySeq
  <2> QED  BY <2>1, <2>2, EmptySeq
<1>4. CASE n # 0
  <2> DEFINE Body(f, m) == f = [k \in 1..m |-> IF k = 1 THEN seqs[k] ELSE f[k - 1] \o seqs[k]]
             Good(m) == \E f \in [1..m -> Seq(S)] : Body(f, m)
             Bad == {m \in 1..n : ~ Good(m)}
             flatten == CHOOSE f : Body(f, n)
  <2>1. 1 \in 1..n
    BY <1>4
  <2>2. Good(1)
    <3> DEFINE f == [k \in 1..1 |-> seqs[k]]
    <3>1. f \in [1..1 -> Seq(S)]
      BY <1>2, <2>1
    <3>2. Body(f, 1)
      OBVIOUS
    <3> QED  BY <3>1, <3>2
  <2>3. ASSUME NEW m \in 2..n, Good(m - 1)  PROVE Good(m)
    <3>1. PICK old \in [1..(m - 1) -> Seq(S)] : Body(old, m - 1)
      BY <2>3
    <3> DEFINE f == [k \in 1..m |-> IF k = m THEN old[m - 1] \o seqs[m] ELSE old[k]]
    <3>2. old[m - 1] \o seqs[m] \in Seq(S)
      <4>1. m - 1 \in 1..(m - 1) /\ m \in 1..n
        OBVIOUS
      <4>2. old[m - 1] \in Seq(S) /\ seqs[m] \in Seq(S)
        BY <1>2, <4>1
      <4> QED  BY <4>2, ConcatProperties
    <3>3. \A k \in 1..m : k # m => k \in 1..(m - 1)
      OBVIOUS
    <3>4. f \in [1..m -> Seq(S)]
      BY <3>2, <3>3
    <3>5. ASSUME NEW k \in 1..m
          PROVE  f[k] = IF k = 1 THEN seqs[k] ELSE f[k - 1] \o seqs[k]
      <4>1. CASE k = m
        <5>1. k # 1 /\ k - 1 \in 1..m /\ k - 1 # m
          BY <4>1
        <5> QED  BY <4>1, <5>1
      <4>2. CASE k # m
        <5>1. f[k] = old[k] /\ k \in 1..(m - 1)
          BY <3>3, <4>2
        <5>2. old[k] = IF k = 1 THEN seqs[k] ELSE old[k - 1] \o seqs[k]
          BY <3>1, <5>1
        <5>3. k # 1 => k - 1 \in 1..m /\ k - 1 # m
          BY <5>1
        <5> QED  BY <5>1, <5>2, <5>3
      <4> QED  BY <4>1, <4>2
    <3>6. f = [k \in 1..m |-> f[k]]
      OBVIOUS
    <3> HIDE DEF f
    <3>7. Body(f, m)
      BY <3>5, <3>6
    <3> QED  BY <3>4, <3>7
  <2> HIDE DEF Body
  <2>4. Good(n)
    <3> HIDE DEF Good
    <3>1. Bad = {}
      <4> SUFFICES ASSUME Bad # {}  PROVE FALSE
        OBVIOUS
      <4>1. Bad \subseteq Nat
        OBVIOUS
      <4>2. PICK m \in Bad : \A y \in Bad : m <= y
        BY <4>1, LeastNatural
      <4>3. m \in 1..n /\ ~ Good(m)
        BY <4>2
      <4>4. m \in 2..n
        BY <2>2, <4>3
      <4>5. m - 1 \in 1..n /\ ~ (m <= m - 1)
        BY <4>4
      <4>6. Good(m - 1)
        BY <4>2, <4>5
      <4> QED  BY <2>3, <4>3, <4>4, <4>6
    <3>2. n \in 1..n
      BY <1>4
    <3> QED  BY <3>1, <3>2
  <2>5. Body(flatten, n)
    BY <2>4
  <2>6. FlattenSeq(seqs) = flatten[n]
    BY <1>1, <1>4 DEF FlattenSeq, Body
  <2> HIDE DEF flatten
  <2> DEFINE Wrong == {k \in 1..n : ~ (flatten[k] \in Seq(S))}
  <2>7. Wrong = {}
    <3> SUFFICES ASSUME Wrong # {}  PROVE FALSE
      OBVIOUS
    <3>1. Wrong \subseteq Nat
      OBVIOUS
    <3>2. PICK k \in Wrong : \A y \in Wrong : k <= y
      BY <3>1, LeastNatural
    <3>3. k \in 1..n /\ ~ (flatten[k] \in Seq(S))
      BY <3>2
    <3>4. flatten[k] = IF k = 1 THEN seqs[k] ELSE flatten[k - 1] \o seqs[k]
      BY <2>5, <3>3 DEF Body
    <3>5. CASE k = 1
      BY <1>2, <3>3, <3>4, <3>5
    <3>6. CASE k # 1
      <4>1. k - 1 \in 1..n /\ ~ (k <= k - 1)
        BY <3>3, <3>6
      <4>2. flatten[k - 1] \in Seq(S)
        BY <3>2, <4>1
      <4>3. seqs[k] \in Seq(S)
        BY <1>2, <3>3
      <4>4. flatten[k - 1] \o seqs[k] \in Seq(S)
        BY <4>2, <4>3, ConcatProperties
      <4> QED  BY <3>3, <3>4, <3>6, <4>4
    <3> QED  BY <3>5, <3>6
  <2>8. n \in 1..n
    BY <1>4
  <2>9. flatten[n] \in Seq(S)
    BY <2>7, <2>8
  <2> QED  BY <2>6, <2>9
<1> QED  BY <1>3, <1>4

------------------------------------------------------------------------------
(* Blocks are made of lines *)

ItemSet == [marker : Word, paras : Seq(Seq(AnyLine))]

\* The state of a list while its items are found.
ListSet == [items : Seq(ItemSet), text : Seq(AnyLine), links : Seq(AnyLine), between : BOOLEAN]

\* A list to start with has no items.
LEMMA EmptyListTyped == EmptyList \in ListSet
<1>1. <<>> \in Seq(ItemSet) /\ <<>> \in Seq(AnyLine)
  BY EmptySeq
<1> QED  BY <1>1 DEF EmptyList, ListSet

\* What is known of a list that is being parsed.
LEMMA ListFacts ==
  ASSUME NEW s \in ListSet
  PROVE  /\ s.items \in Seq(ItemSet) /\ s.text \in Seq(AnyLine)
         /\ s.links \in Seq(AnyLine) /\ s.between \in BOOLEAN
  BY DEF ListSet

\* One more paragraph in the last item of a list, or more links.
LEMMA FlushTyped ==
  ASSUME NEW s \in ListSet
  PROVE  Flush(s) \in ListSet
<1>1. /\ s.items \in Seq(ItemSet) /\ s.text \in Seq(AnyLine)
      /\ s.links \in Seq(AnyLine) /\ s.between \in BOOLEAN
  BY ListFacts
<1>2. <<>> \in Seq(AnyLine)
  BY EmptySeq
<1>3. CASE s.items = <<>>
  <2>1. Flush(s) = [s EXCEPT !.text = <<>>]
    BY <1>3 DEF Flush
  <2> QED  BY <1>2, <2>1 DEF ListSet
<1>4. CASE s.items # <<>> /\ (s.text = <<>> \/ AllLinks(s.text))
  <2>1. PICK links : links = s.links \o s.text
    OBVIOUS
  <2>2. links \in Seq(AnyLine)
    BY <1>1, <2>1, ConcatProperties
  <2>3. Flush(s) = [s EXCEPT !.text = <<>>, !.links = links]
    BY <1>4, <2>1 DEF Flush
  <2> QED  BY <1>2, <2>2, <2>3 DEF ListSet
<1>5. CASE s.items # <<>> /\ ~ (s.text = <<>> \/ AllLinks(s.text))
  <2>1. PICK n \in Nat : n = Len(s.items)
    BY <1>1, SeqFacts
  <2>2. n \in 1..n
    <3>1. n # 0
      BY <1>1, <1>5, <2>1, EmptySeq
    <3> QED  BY <3>1
  <2>3. PICK old \in ItemSet : old = s.items[n]
    BY <1>1, <2>1, <2>2, SeqFacts
  <2>4. PICK paras : paras = Append(old.paras, s.text)
    OBVIOUS
  <2>5. paras \in Seq(Seq(AnyLine))
    <3>1. old.paras \in Seq(Seq(AnyLine))
      BY <2>3 DEF ItemSet
    <3> QED  BY <1>1, <2>4, <3>1, AppendProperties
  <2>6. PICK item : item = [old EXCEPT !.paras = paras]
    OBVIOUS
  <2>7. item \in ItemSet
    BY <2>3, <2>5, <2>6 DEF ItemSet
  <2>8. PICK items : items = [s.items EXCEPT ![n] = item]
    OBVIOUS
  <2>9. items \in Seq(ItemSet)
    BY <1>1, <2>1, <2>2, <2>7, <2>8, ExceptSeq
  <2>10. Flush(s) = [s EXCEPT !.text = <<>>, !.items = items]
    <3>1. Flush(s) = [s EXCEPT !.text = <<>>, !.items[Len(s.items)].paras = Append(@, s.text)]
      BY <1>5 DEF Flush
    <3>2. items = [s.items EXCEPT ![Len(s.items)].paras = Append(@, s.text)]
      BY <2>1, <2>3, <2>4, <2>6, <2>8
    <3> QED  BY <3>1, <3>2 DEF ListSet
  <2> QED  BY <1>2, <2>9, <2>10 DEF ListSet
<1> QED  BY <1>3, <1>4, <1>5

\* A line that starts an item, ends a paragraph or continues one.
LEMMA TakeTyped ==
  ASSUME NEW s \in ListSet, NEW line \in AnyLine, NEW first
  PROVE  Take(s, line, first) \in ListSet
<1>1. line.words \in Seq(Word)
  BY FieldsTyped
<1>2. PICK f \in ListSet : f = Flush(s)
  BY FlushTyped
<1>3. <<>> \in Seq({" ", "\t"}) /\ <<>> \in Seq(Seq(AnyLine))
  BY EmptySeq
<1> DEFINE number(l) == l.words[1] \in Numbers
<1>4. CASE isList(line) /\ number(line) = number(first)
  <2>1. Len(line.words) \in Nat /\ Len(line.words) > 1
    BY <1>1, <1>4, SeqFacts DEF isList
  <2>2. 1 \in 1..Len(line.words) /\ line.words # <<>>
    BY <2>1, EmptySeq
  <2>3. line.words[1] \in Word /\ Tail(line.words) \in Seq(Word)
    BY <1>1, <2>2, SeqFacts, HeadTailProperties
  <2>4. PICK item \in ItemSet : item = [marker |-> line.words[1], paras |-> <<>>]
    BY <1>3, <2>3 DEF ItemSet
  <2>5. PICK new \in AnyLine : new = Line(<<>>, Tail(line.words))
    BY <1>3, <2>3, LineTyped
  <2>6. PICK items : items = Append(f.items, item)
    OBVIOUS
  <2>7. items \in Seq(ItemSet)
    BY <1>2, <2>4, <2>6, ListFacts, AppendProperties
  <2>8. <<new>> \in Seq(AnyLine)
    BY <2>5, SingleTyped
  <2>9. Take(s, line, first) = [f EXCEPT !.items = items, !.text = <<new>>]
    BY <1>2, <1>4, <2>4, <2>5, <2>6 DEF Take
  <2> QED  BY <1>2, <2>7, <2>8, <2>9 DEF ListSet
<1>5. CASE ~ (isList(line) /\ number(line) = number(first)) /\ line.words = <<>>
  <2>1. Take(s, line, first) = [f EXCEPT !.between = TRUE]
    BY <1>2, <1>5 DEF Take
  <2> QED  BY <1>2, <2>1 DEF ListSet
<1>6. CASE ~ (isList(line) /\ number(line) = number(first)) /\ line.words # <<>>
  <2>1. PICK new \in AnyLine : new = Trimmed(line)
    BY <1>1, <1>3, LineTyped DEF Trimmed
  <2>2. PICK text : text = Append(s.text, new)
    OBVIOUS
  <2>3. text \in Seq(AnyLine)
    BY <2>1, <2>2, ListFacts, AppendProperties
  <2>4. Take(s, line, first) = [s EXCEPT !.text = text]
    BY <1>6, <2>1, <2>2 DEF Take
  <2> QED  BY <2>3, <2>4 DEF ListSet
<1> QED  BY <1>4, <1>5, <1>6

\* What a list is made of the first lines, and at last of all of them.
LEMMA TakeAllFolds ==
  ASSUME NEW text \in Seq(AnyLine)
  PROVE  \E w \in [0..Len(text) -> ListSet] :
           /\ w[0] = EmptyList /\ w[Len(text)] = TakeAll(text)
           /\ \A m \in 1..Len(text) : w[m] = Take(w[m - 1], text[m], text[1])
<1>1. PICK n \in Nat : n = Len(text)
  BY SeqFacts
<1>2. DOMAIN text = 1..n /\ \A k \in 1..n : text[k] \in AnyLine
  BY <1>1, SeqFacts
<1> DEFINE Op(s, line) == Take(s, line, text[1])
           Body(it) == it = [s \in SUBSET (1..n) |->
                               IF s = {} THEN EmptyList ELSE Op(it[s \ {Max(s)}], text[Max(s)])]
           it == CHOOSE f : Body(f)
<1>3. TakeAll(text) = it[1..n]
  BY <1>2 DEF TakeAll, FoldLeft, MapThenFoldSet
<1>4. \E f : Body(f)
  <2> DEFINE g == [p \in (1..n) \X ListSet |-> Op(p[2], text[p[1]])]
  <2>1. g \in [(1..n) \X ListSet -> ListSet]
    BY <1>2, TakeTyped
  <2>2. \A k \in 1..n, d \in ListSet : g[<<k, d>>] = Op(d, text[k])
    OBVIOUS
  <2> HIDE DEF g, Op
  <2>3. PICK f \in [SUBSET (1..n) -> ListSet] : Iterates(f, n, EmptyList, g)
    BY <2>1, EmptyListTyped, FoldFound
  <2>4. ASSUME NEW s \in SUBSET (1..n), s # {}
        PROVE  g[<<Max(s), f[s \ {Max(s)}]>>] = Op(f[s \ {Max(s)}], text[Max(s)])
    <3>1. Max(s) \in 1..n
      BY <2>4, MaxOf
    <3>2. f[s \ {Max(s)}] \in ListSet
      OBVIOUS
    <3> QED  BY <2>2, <3>1, <3>2
  <2>5. Body(f)
    BY <2>3, <2>4 DEF Iterates
  <2> QED  BY <2>5
<1>5. Body(it)
  <2> HIDE DEF Body
  <2> QED  BY <1>4
<1> HIDE DEF it
<1>6. it[{}] \in ListSet
  BY <1>5, EmptyListTyped
<1>7. ASSUME NEW m \in 1..n  PROVE it[1..m] = Op(it[1..(m - 1)], text[m])
  <2>1. /\ 1..m \in SUBSET (1..n) /\ 1..m # {}
        /\ Max(1..m) = m /\ (1..m) \ {m} = 1..(m - 1)
    BY FoldStep
  <2> HIDE DEF Op
  <2> QED  BY <1>5, <2>1
<1>8. ASSUME NEW m \in 1..n, it[1..(m - 1)] \in ListSet  PROVE it[1..m] \in ListSet
  BY <1>2, <1>7, <1>8, TakeTyped
<1> HIDE DEF Op
<1>9. PICK w : /\ w \in [0..n -> ListSet] /\ w[0] = it[{}] /\ w[n] = it[1..n]
               /\ \A m \in 1..n : w[m - 1] = it[1..(m - 1)] /\ w[m] = it[1..m]
  <2>1. n \in Nat
    BY <1>1
  <2>2. \A m \in 1..n : it[1..(m - 1)] \in ListSet => it[1..m] \in ListSet
    BY <1>8
  <2>3. PICK w : Climbed(w, it, n, ListSet)
    BY ONLY <2>1, <2>2, <1>6, FoldClimbs
  <2> QED  BY <2>3 DEF Climbed
<1>10. \A m \in 1..n : w[m] = Op(w[m - 1], text[m])
  BY <1>7, <1>9
<1>11. w[0] = EmptyList
  BY <1>5, <1>9
<1>12. w[n] = TakeAll(text)
  BY <1>3, <1>9
<1> QED  BY <1>1, <1>9, <1>10, <1>11, <1>12 DEF Op

\* All lines of a list.
LEMMA TakeAllTyped ==
  ASSUME NEW text \in Seq(AnyLine)
  PROVE  TakeAll(text) \in ListSet
<1>1. PICK n \in Nat : n = Len(text)
  BY SeqFacts
<1>2. n \in 0..n
  OBVIOUS
<1> QED  BY <1>1, <1>2, TakeAllFolds

Texts == [kind : {"para", "links", "code"}, text : Seq(AnyLine)]
Titles == [kind : {"heading"}, text : Seq(AnyLine) \ {<<>>}]
Lists == [kind : {"list"}, items : Seq(ItemSet), links : Seq(AnyLine),
          loose : BOOLEAN, before : BOOLEAN]
BlockSet == Texts \union Titles \union Lists

\* What parseDoc.list returns is a list.
LEMMA ListBlockTyped ==
  ASSUME NEW text \in Seq(AnyLine), NEW before \in BOOLEAN
  PROVE  ListBlock(text, before) \in Lists
<1>1. PICK end \in ListSet : end = Flush(TakeAll(text))
  BY TakeAllTyped, FlushTyped
<1>2. end.items \in Seq(ItemSet) /\ end.links \in Seq(AnyLine) /\ end.between \in BOOLEAN
  BY ListFacts
<1> DEFINE several == \E k \in DOMAIN end.items : Len(end.items[k].paras) # 1
           loose == end.between \/ several
<1>3. several \in BOOLEAN
  OBVIOUS
<1> HIDE DEF several
<1>4. loose \in BOOLEAN /\ (before \/ loose) \in BOOLEAN
  BY <1>2, <1>3
<1>5. ListBlock(text, before) = [kind |-> "list", items |-> end.items, links |-> end.links,
                                 loose |-> loose, before |-> before \/ loose]
  BY <1>1 DEF ListBlock, several
<1> HIDE DEF loose
<1> QED  BY <1>2, <1>4, <1>5 DEF Lists

\* A span of lines: within them, and a heading only where one is.
Within(all, span) ==
  /\ span \in SpanSet
  /\ span.start \in 1..Len(all) /\ span.start <= span.end /\ span.end <= Len(all)
  /\ span.kind = "heading" => isHeading(all[span.start])

\* A span parses to a block, whatever its kind (parse.go:301-361).
LEMMA BlockTyped ==
  ASSUME NEW all \in Seq(AnyLine), NEW span, Within(all, span), NEW before \in BOOLEAN
  PROVE  BlockOf(all, span, before) \in BlockSet
<1>1. PICK n \in Nat : n = Len(all)
  BY SeqFacts
<1>2. PICK start \in 1..n, end \in Nat : /\ start = span.start /\ end = span.end
                                         /\ start <= end /\ end <= n
  BY <1>1 DEF Within, SpanSet
<1>3. PICK text : text = SubSeq(all, start, end)
  OBVIOUS
<1>4. text \in Seq(AnyLine) /\ text # <<>> /\ text[1] = all[start] /\ text[1] \in AnyLine
  <2>1. \A k \in 1..n : all[k] \in AnyLine
    BY <1>1, SeqFacts
  <2>2. \A k \in start..end : all[k] \in AnyLine
    <3>1. start..end \subseteq 1..n
      BY <1>2
    <3> QED  BY <2>1, <3>1
  <2>3. start \in Int /\ end \in Int
    BY <1>2
  <2>4. /\ text \in Seq(AnyLine)
        /\ Len(text) = IF start <= end THEN end - start + 1 ELSE 0
        /\ \A k \in 1..(end - start + 1) : text[k] = all[start + k - 1]
    BY <1>3, <2>2, <2>3, SubSeqProperties
  <2>5. Len(text) # 0
    BY <1>2, <2>4
  <2>6. text # <<>>
    BY <2>5, EmptySeq
  <2>7. 1 \in 1..(end - start + 1) /\ start + 1 - 1 = start
    BY <1>2
  <2>8. text[1] = all[start]
    BY <2>4, <2>7
  <2> QED  BY <1>2, <2>1, <2>4, <2>6, <2>8
<1>5. text[1].words \in Seq(Word) /\ <<>> \in Seq({" ", "\t"})
  BY <1>4, FieldsTyped, EmptySeq
<1>6. CASE span.kind = "list"
  <2>1. BlockOf(all, span, before) = ListBlock(text, before)
    BY <1>2, <1>3, <1>6 DEF BlockOf
  <2> QED  BY <1>4, <2>1, ListBlockTyped DEF BlockSet
<1>7. CASE span.kind = "code"
  <2>1. BlockOf(all, span, before) = [kind |-> "code", text |-> unindent(text)]
    BY <1>2, <1>3, <1>7 DEF BlockOf
  <2>2. unindent(text) \in Seq(AnyLine)
    BY <1>4, UnindentTyped
  <2> QED  BY <2>1, <2>2 DEF BlockSet, Texts
<1>8. CASE span.kind = "old heading"
  <2>1. PICK line \in AnyLine : line = Trimmed(text[1])
    BY <1>5, LineTyped DEF Trimmed
  <2>2. BlockOf(all, span, before) = [kind |-> "heading", text |-> <<line>>]
    BY <1>2, <1>3, <1>8, <2>1 DEF BlockOf
  <2>3. <<line>> \in Seq(AnyLine) /\ <<line>> # <<>>
    BY <2>1, SingleTyped, EmptySeq
  <2> QED  BY <2>2, <2>3 DEF BlockSet, Titles
<1>9. CASE span.kind = "heading"
  <2>1. isHeading(text[1])
    BY <1>2, <1>4, <1>9 DEF Within
  <2>2. text[1].words # <<>>
    BY <2>1, EmptySeq DEF isHeading
  <2>3. PICK line \in AnyLine : line = Line(<<>>, Tail(text[1].words))
    <3>1. Tail(text[1].words) \in Seq(Word)
      BY <1>5, <2>2, HeadTailProperties
    <3> QED  BY <1>5, <3>1, LineTyped
  <2>4. BlockOf(all, span, before) = [kind |-> "heading", text |-> <<line>>]
    BY <1>2, <1>3, <1>9, <2>3 DEF BlockOf
  <2>5. <<line>> \in Seq(AnyLine) /\ <<line>> # <<>>
    BY <2>3, SingleTyped, EmptySeq
  <2> QED  BY <2>4, <2>5 DEF BlockSet, Titles
<1>10. CASE span.kind = "para"
  <2>1. BlockOf(all, span, before) = [kind |-> IF AllLinks(text) THEN "links" ELSE "para", text |-> text]
    BY <1>2, <1>3, <1>10 DEF BlockOf
  <2> QED  BY <1>4, <2>1 DEF BlockSet, Texts
<1>11. span.kind \in {"list", "code", "heading", "old heading", "para"}
  BY DEF Within, SpanSet
<1> QED  BY <1>6, <1>7, <1>8, <1>9, <1>10, <1>11

\* And all of them to blocks.
LEMMA BlocksTyped ==
  ASSUME NEW all \in Seq(AnyLine), NEW list \in Seq(SpanSet),
         \A k \in DOMAIN list : Within(all, list[k])
  PROVE  Blocks(all, list) \in Seq(BlockSet)
<1>1. PICK n \in Nat : n = Len(list)
  BY SeqFacts
<1>2. DOMAIN list = 1..n
  BY <1>1, SeqFacts
<1> DEFINE before(k) == k > 1 /\ list[k - 1].end + 1 < list[k].start
<1>3. ASSUME NEW k \in 1..n  PROVE BlockOf(all, list[k], before(k)) \in BlockSet
  <2>1. before(k) \in BOOLEAN
    OBVIOUS
  <2> HIDE DEF before
  <2> QED  BY <1>2, <2>1, BlockTyped
<1>4. Blocks(all, list) = [k \in 1..n |-> BlockOf(all, list[k], before(k))]
  BY <1>2 DEF Blocks
<1> HIDE DEF before
<1>5. Blocks(all, list) \in [1..n -> BlockSet]
  BY <1>3, <1>4
<1> QED  BY <1>5, FunctionIsSeq

------------------------------------------------------------------------------
(* Printing writes lines *)

\* What is printed so far: an open line is there.
Outs == {out \in [text : Seq(AnyLine), open : BOOLEAN] : out.open => out.text # <<>>}

\* Nothing is printed yet.
LEMMA NothingTyped == [text |-> <<>>, open |-> FALSE] \in Outs
<1>1. <<>> \in Seq(AnyLine)
  BY EmptySeq
<1> QED  BY <1>1 DEF Outs

\* Lines are written after those written, or joined to the open one; there is a
\* line if there was one to write.
LEMMA WriteTyped ==
  ASSUME NEW out \in Outs, NEW text \in Seq(AnyLine)
  PROVE  /\ Write(out, text) \in Outs
         /\ text # <<>> => Write(out, text).text # <<>> /\ ~ Write(out, text).open
<1>1. out.text \in Seq(AnyLine) /\ out.open \in BOOLEAN /\ (out.open => out.text # <<>>)
  BY DEF Outs
<1>2. CASE text = <<>>
  BY <1>2 DEF Write
<1>3. CASE text # <<>> /\ ~ out.open
  <2>1. PICK all : all = out.text \o text
    OBVIOUS
  <2>2. all \in Seq(AnyLine)
    BY <1>1, <2>1, ConcatProperties
  <2>3. all # <<>>
    BY <1>1, <1>3, <2>1, ConcatEqualIffEmpty, EmptySeq
  <2>4. Write(out, text) = [out EXCEPT !.text = all]
    BY <1>3, <2>1 DEF Write
  <2>5. [out EXCEPT !.text = all].text = all /\ [out EXCEPT !.text = all].open = out.open
    BY DEF Outs
  <2>6. [out EXCEPT !.text = all] \in Outs
    BY <2>2, <2>3 DEF Outs
  <2> QED  BY <1>3, <2>3, <2>4, <2>5, <2>6
<1>4. CASE text # <<>> /\ out.open
  <2>1. PICK n \in Nat : n = Len(out.text)
    BY <1>1, SeqFacts
  <2>2. n \in 1..n
    <3>1. n # 0
      BY <1>1, <1>4, <2>1, EmptySeq
    <3> QED  BY <2>1, <3>1
  <2>3. PICK last \in AnyLine : last = Last(out.text)
    BY <1>1, <2>1, <2>2, SeqFacts DEF Last
  <2>4. PICK new : new = last.words \o text[1].words
    OBVIOUS
  <2>5. Tail(text) \in Seq(AnyLine) /\ text[1] \in AnyLine
    <3>1. Len(text) \in Nat \ {0}
      BY <1>4, EmptySeq
    <3>2. 1 \in 1..Len(text)
      BY <3>1
    <3> QED  BY <1>4, <3>2, SeqFacts, HeadTailProperties
  <2>6. new \in Seq(Word)
    <3>1. last.words \in Seq(Word) /\ text[1].words \in Seq(Word)
      BY <2>3, <2>5, FieldsTyped
    <3> QED  BY <2>4, <3>1, ConcatProperties
  <2>7. PICK joined \in AnyLine : joined = [last EXCEPT !.words = new]
    BY <2>3, <2>6 DEF AnyLine
  <2>8. PICK front \in Seq(AnyLine) : front = Front(out.text)
    <3>1. \A k \in 1..(n - 1) : out.text[k] \in AnyLine
      <4>1. \A k \in 1..n : out.text[k] \in AnyLine
        BY <1>1, <2>1, SeqFacts
      <4>2. 1..(n - 1) \subseteq 1..n
        BY <2>1
      <4> QED  BY <4>1, <4>2
    <3>2. 1 \in Int /\ n - 1 \in Int
      BY <2>1
    <3>3. SubSeq(out.text, 1, n - 1) \in Seq(AnyLine)
      BY <3>1, <3>2, SubSeqProperties
    <3> QED  BY <2>1, <3>3 DEF Front
  <2>9. PICK before \in Seq(AnyLine) : before = front \o <<joined>> /\ before # <<>>
    <3>1. <<joined>> \in Seq(AnyLine) /\ <<joined>> # <<>>
      BY <2>7, SingleTyped, EmptySeq
    <3>2. front \o <<joined>> \in Seq(AnyLine)
      BY <2>8, <3>1, ConcatProperties
    <3>3. front \o <<joined>> # <<>>
      BY <2>8, <3>1, ConcatEqualIffEmpty
    <3> QED  BY <3>2, <3>3
  <2>10. PICK all \in Seq(AnyLine) : all = before \o Tail(text) /\ all # <<>>
    <3>1. before \o Tail(text) \in Seq(AnyLine)
      BY <2>5, <2>9, ConcatProperties
    <3>2. before \o Tail(text) # <<>>
      BY <2>5, <2>9, ConcatEqualIffEmpty
    <3> QED  BY <3>1, <3>2
  <2>11. Write(out, text) = [text |-> all, open |-> FALSE]
    BY <1>4, <2>3, <2>4, <2>7, <2>8, <2>9, <2>10 DEF Write
  <2> QED  BY <2>10, <2>11 DEF Outs
<1> QED  BY <1>1, <1>2, <1>3, <1>4

\* An empty line is written.
LEMMA WriteBlankTyped ==
  ASSUME NEW out \in Outs
  PROVE  Write(out, <<Blank>>) \in Outs
<1>1. <<Blank>> \in Seq(AnyLine)
  BY BlankTyped, SingleTyped
<1> QED  BY <1>1, WriteTyped

\* Spaces are an indentation.
LEMMA SpaceTyped ==
  ASSUME NEW n \in Nat
  PROVE  Space(n) \in Seq({" ", "\t"})
<1>1. Space(n) \in [1..n -> {" ", "\t"}]
  BY DEF Space
<1> QED  BY <1>1, FunctionIsSeq

\* A paragraph of an item hangs below its number.
LEMMA HangTyped ==
  ASSUME NEW text \in Seq(AnyLine)
  PROVE  Hang(text) \in Seq(AnyLine)
<1>1. PICK n \in Nat : n = Len(text)
  BY SeqFacts
<1>2. DOMAIN text = 1..n /\ \A k \in 1..n : text[k].words \in Seq(Word)
  BY <1>1, SeqFacts, FieldsTyped
<1>3. Space(4) \in Seq({" ", "\t"})
  <2>1. 4 \in Nat
    OBVIOUS
  <2> QED  BY <2>1, SpaceTyped
<1>4. \A k \in 1..n : Line(Space(4), text[k].words) \in AnyLine
  BY <1>2, <1>3, LineTyped
<1>5. Hang(text) \in [1..n -> AnyLine]
  BY <1>2, <1>4 DEF Hang
<1> QED  BY <1>1, <1>5, FunctionIsSeq

\* The paragraphs of an item, one after the other.
LEMMA ParaTyped ==
  ASSUME NEW out \in Outs, NEW paras \in Seq(Seq(AnyLine)), NEW k \in 1..Len(paras)
  PROVE  Para(out, paras, k) \in Outs
<1>1. Hang(paras[k]) \in Seq(AnyLine)
  <2>1. paras[k] \in Seq(AnyLine)
    BY SeqFacts
  <2> QED  BY <2>1, HangTyped
<1>2. PICK o \in Outs : o = IF k = 1 THEN out ELSE Write(out, <<Blank>>)
  BY WriteBlankTyped
<1>3. Write(o, Hang(paras[k])) \in Outs
  BY <1>1, <1>2, WriteTyped
<1> QED  BY <1>2, <1>3 DEF Para

\* The line of an item before anything is written after its marker.
Marker(item) == IF item.marker \in Bullets THEN Line(Space(2), <<"-">>)
                ELSE Line(Space(1), <<item.marker>>)
Marked(out, item) == [Write(out, <<Marker(item)>>) EXCEPT !.open = TRUE]

\* The paragraphs of an item are printed one by one.
LEMMA ItemLinesFolds ==
  ASSUME NEW out \in Outs, NEW item \in ItemSet
  PROVE  \E w \in [0..Len(item.paras) -> Outs] :
           /\ w[0] = Marked(out, item) /\ w[Len(item.paras)] = ItemLines(out, item)
           /\ \A m \in 1..Len(item.paras) : w[m] = Para(w[m - 1], item.paras, m)
<1>1. PICK paras \in Seq(Seq(AnyLine)) : paras = item.paras
  BY DEF ItemSet
<1>2. PICK n \in Nat : n = Len(paras)
  BY SeqFacts
<1>3. DOMAIN paras = 1..n
  BY <1>2, SeqFacts
<1> DEFINE marker == IF item.marker \in Bullets THEN Line(Space(2), <<"-">>)
                     ELSE Line(Space(1), <<item.marker>>)
           start == [Write(out, <<marker>>) EXCEPT !.open = TRUE]
           numbers == [k \in DOMAIN paras |-> k]
           Op(o, k) == Para(o, paras, k)
           Body(it) == it = [s \in SUBSET (1..n) |->
                               IF s = {} THEN start ELSE Op(it[s \ {Max(s)}], numbers[Max(s)])]
           it == CHOOSE f : Body(f)
<1>4. ItemLines(out, item) = it[1..n]
  BY <1>1, <1>3 DEF ItemLines, FoldLeftDomain, FoldLeft, MapThenFoldSet
<1>5. start \in Outs
  <2>1. marker \in AnyLine
    <3>1. "-" \in Word /\ item.marker \in Word
      BY DEF ItemSet, Word
    <3>2. <<"-">> \in Seq(Word) /\ <<item.marker>> \in Seq(Word)
      BY <3>1, SingleTyped
    <3>3. 1 \in Nat /\ 2 \in Nat
      OBVIOUS
    <3>4. Space(1) \in Seq({" ", "\t"}) /\ Space(2) \in Seq({" ", "\t"})
      BY <3>3, SpaceTyped
    <3> QED  BY <3>2, <3>4, LineTyped
  <2> HIDE DEF marker
  <2>2. <<marker>> \in Seq(AnyLine) /\ <<marker>> # <<>>
    BY <2>1, SingleTyped, EmptySeq
  <2>3. PICK o \in Outs : o = Write(out, <<marker>>) /\ o.text # <<>>
    BY <2>2, WriteTyped
  <2>4. [o EXCEPT !.open = TRUE] \in Outs
    BY <2>3 DEF Outs
  <2> QED  BY <2>3, <2>4
<1> HIDE DEF start
<1>6. \A k \in 1..n : numbers[k] = k
  BY <1>3
<1> HIDE DEF numbers
<1>7. \E f : Body(f)
  <2> DEFINE g == [p \in (1..n) \X Outs |-> Op(p[2], p[1])]
  <2>1. g \in [(1..n) \X Outs -> Outs]
    BY <1>2, ParaTyped
  <2>2. \A k \in 1..n, d \in Outs : g[<<k, d>>] = Op(d, k)
    OBVIOUS
  <2> HIDE DEF g, Op
  <2>3. PICK f \in [SUBSET (1..n) -> Outs] : Iterates(f, n, start, g)
    BY <1>2, <1>5, <2>1, FoldFound
  <2>4. ASSUME NEW s \in SUBSET (1..n), s # {}
        PROVE  g[<<Max(s), f[s \ {Max(s)}]>>] = Op(f[s \ {Max(s)}], numbers[Max(s)])
    <3>1. Max(s) \in 1..n
      BY <1>2, <2>4, MaxOf
    <3>2. f[s \ {Max(s)}] \in Outs
      BY <2>3
    <3> QED  BY <1>6, <2>2, <3>1, <3>2
  <2>5. Body(f)
    BY <2>3, <2>4 DEF Iterates
  <2> QED  BY <2>5
<1>8. Body(it)
  <2> HIDE DEF Body
  <2> QED  BY <1>7
<1> HIDE DEF it
<1>9. it[{}] \in Outs
  BY <1>5, <1>8
<1>10. ASSUME NEW m \in 1..n  PROVE it[1..m] = Op(it[1..(m - 1)], m)
  <2>1. /\ 1..m \in SUBSET (1..n) /\ 1..m # {}
        /\ Max(1..m) = m /\ (1..m) \ {m} = 1..(m - 1)
    BY <1>2, FoldStep
  <2> HIDE DEF Op
  <2>2. it[1..m] = Op(it[(1..m) \ {Max(1..m)}], numbers[Max(1..m)])
    BY <1>8, <2>1
  <2> QED  BY <1>6, <2>1, <2>2
<1>11. ASSUME NEW m \in 1..n, it[1..(m - 1)] \in Outs  PROVE it[1..m] \in Outs
  BY <1>2, <1>10, <1>11, ParaTyped
<1> HIDE DEF Op
<1>12. PICK w : /\ w \in [0..n -> Outs] /\ w[0] = it[{}] /\ w[n] = it[1..n]
                /\ \A m \in 1..n : w[m - 1] = it[1..(m - 1)] /\ w[m] = it[1..m]
  <2>1. n \in Nat
    BY <1>2
  <2>2. \A m \in 1..n : it[1..(m - 1)] \in Outs => it[1..m] \in Outs
    BY <1>11
  <2>3. PICK w : Climbed(w, it, n, Outs)
    BY ONLY <2>1, <2>2, <1>9, FoldClimbs
  <2> QED  BY <2>3 DEF Climbed
<1>13. \A m \in 1..n : w[m] = Op(w[m - 1], m)
  BY <1>10, <1>12
<1>14. w[0] = start
  BY <1>8, <1>12
<1>15. w[n] = ItemLines(out, item)
  BY <1>4, <1>12
<1>16. start = Marked(out, item)
  BY DEF start, Marked, Marker
<1> QED  BY <1>1, <1>2, <1>12, <1>13, <1>14, <1>15, <1>16 DEF Op

\* An item is printed.
LEMMA ItemLinesTyped ==
  ASSUME NEW out \in Outs, NEW item \in ItemSet
  PROVE  ItemLines(out, item) \in Outs
<1>1. PICK n \in Nat : n = Len(item.paras)
  BY SeqFacts DEF ItemSet
<1>2. n \in 0..n
  OBVIOUS
<1> QED  BY <1>1, <1>2, ItemLinesFolds

\* An item is printed, after an empty line or not.
LEMMA ItemTyped ==
  ASSUME NEW out \in Outs, NEW b \in Lists, NEW k \in 1..Len(b.items)
  PROVE  Item(out, b, k) \in Outs
<1>1. b.items \in Seq(ItemSet)
  BY DEF Lists
<1>2. b.items[k] \in ItemSet
  BY <1>1, SeqFacts
<1>3. PICK o \in Outs : o = IF k > 1 /\ b.loose THEN Write(out, <<Blank>>) ELSE out
  BY WriteBlankTyped
<1>4. ItemLines(o, b.items[k]) \in Outs
  BY <1>2, <1>3, ItemLinesTyped
<1> QED  BY <1>3, <1>4 DEF Item

\* The items of a list, one after the other.
LEMMA ListLinesFolds ==
  ASSUME NEW out \in Outs, NEW b \in Lists
  PROVE  \E w \in [0..Len(b.items) -> Outs] :
           /\ w[0] = out /\ w[Len(b.items)] = BlockLines(out, b)
           /\ \A m \in 1..Len(b.items) : w[m] = Item(w[m - 1], b, m)
<1>1. b.items \in Seq(ItemSet)
  BY DEF Lists
<1>2. PICK n \in Nat : n = Len(b.items)
  BY <1>1, SeqFacts
<1>3. DOMAIN b.items = 1..n
  BY <1>1, <1>2, SeqFacts
<1> DEFINE numbers == [k \in DOMAIN b.items |-> k]
           Op(o, k) == Item(o, b, k)
           Body(it) == it = [s \in SUBSET (1..n) |->
                               IF s = {} THEN out ELSE Op(it[s \ {Max(s)}], numbers[Max(s)])]
           it == CHOOSE f : Body(f)
<1>4. BlockLines(out, b) = it[1..n]
  <2>1. b.kind = "list"
    BY DEF Lists
  <2>2. BlockLines(out, b) = FoldLeftDomain(LAMBDA o, k : Item(o, b, k), out, b.items)
    BY <2>1 DEF BlockLines
  <2> QED  BY <1>3, <2>2 DEF FoldLeftDomain, FoldLeft, MapThenFoldSet
<1>6. \A k \in 1..n : numbers[k] = k
  BY <1>3
<1> HIDE DEF numbers
<1>7. \E f : Body(f)
  <2> DEFINE g == [p \in (1..n) \X Outs |-> Op(p[2], p[1])]
  <2>1. g \in [(1..n) \X Outs -> Outs]
    BY <1>2, ItemTyped
  <2>2. \A k \in 1..n, d \in Outs : g[<<k, d>>] = Op(d, k)
    OBVIOUS
  <2> HIDE DEF g, Op
  <2>3. PICK f \in [SUBSET (1..n) -> Outs] : Iterates(f, n, out, g)
    BY <1>2, <2>1, FoldFound
  <2>4. ASSUME NEW s \in SUBSET (1..n), s # {}
        PROVE  g[<<Max(s), f[s \ {Max(s)}]>>] = Op(f[s \ {Max(s)}], numbers[Max(s)])
    <3>1. Max(s) \in 1..n
      BY <1>2, <2>4, MaxOf
    <3>2. f[s \ {Max(s)}] \in Outs
      BY <2>3
    <3> QED  BY <1>6, <2>2, <3>1, <3>2
  <2>5. Body(f)
    BY <2>3, <2>4 DEF Iterates
  <2> QED  BY <2>5
<1>8. Body(it)
  <2> HIDE DEF Body
  <2> QED  BY <1>7
<1> HIDE DEF it
<1>9. it[{}] \in Outs
  BY <1>8
<1>10. ASSUME NEW m \in 1..n  PROVE it[1..m] = Op(it[1..(m - 1)], m)
  <2>1. /\ 1..m \in SUBSET (1..n) /\ 1..m # {}
        /\ Max(1..m) = m /\ (1..m) \ {m} = 1..(m - 1)
    BY <1>2, FoldStep
  <2> HIDE DEF Op
  <2>2. it[1..m] = Op(it[(1..m) \ {Max(1..m)}], numbers[Max(1..m)])
    BY <1>8, <2>1
  <2> QED  BY <1>6, <2>1, <2>2
<1>11. ASSUME NEW m \in 1..n, it[1..(m - 1)] \in Outs  PROVE it[1..m] \in Outs
  BY <1>2, <1>10, <1>11, ItemTyped
<1> HIDE DEF Op
<1>12. PICK w : /\ w \in [0..n -> Outs] /\ w[0] = it[{}] /\ w[n] = it[1..n]
                /\ \A m \in 1..n : w[m - 1] = it[1..(m - 1)] /\ w[m] = it[1..m]
  <2>1. n \in Nat
    BY <1>2
  <2>2. \A m \in 1..n : it[1..(m - 1)] \in Outs => it[1..m] \in Outs
    BY <1>11
  <2>3. PICK w : Climbed(w, it, n, Outs)
    BY ONLY <2>1, <2>2, <1>9, FoldClimbs
  <2> QED  BY <2>3 DEF Climbed
<1>13. \A m \in 1..n : w[m] = Op(w[m - 1], m)
  BY <1>10, <1>12
<1>14. w[0] = out
  BY <1>8, <1>12
<1>15. w[n] = BlockLines(out, b)
  BY <1>4, <1>12
<1> QED  BY <1>2, <1>12, <1>13, <1>14, <1>15 DEF Op

\* A list is printed.
LEMMA ListLinesTyped ==
  ASSUME NEW out \in Outs, NEW b \in Lists
  PROVE  BlockLines(out, b) \in Outs
<1>1. PICK n \in Nat : n = Len(b.items)
  BY SeqFacts DEF Lists
<1>2. n \in 0..n
  OBVIOUS
<1> QED  BY <1>1, <1>2, ListLinesFolds

\* A block of any kind but links is printed (print.go:118-247).
LEMMA BlockLinesTyped ==
  ASSUME NEW out \in Outs, NEW b \in BlockSet, b.kind # "links"
  PROVE  BlockLines(out, b) \in Outs
<1>1. CASE b \in Lists
  BY <1>1, ListLinesTyped
<1>2. CASE b \in Titles
  <2>1. b.kind = "heading" /\ b.text \in Seq(AnyLine) /\ b.text # <<>>
    BY <1>2 DEF Titles
  <2>2. b.text[1] \in AnyLine
    <3>1. Len(b.text) \in Nat \ {0}
      BY <2>1, EmptySeq
    <3>2. 1 \in 1..Len(b.text)
      BY <3>1
    <3> QED  BY <2>1, <3>2, SeqFacts
  <2>3. PICK words \in Seq(Word) : words = <<"#">> \o b.text[1].words
    <3>1. "#" \in Word /\ b.text[1].words \in Seq(Word)
      BY <2>2, FieldsTyped DEF Word
    <3> QED  BY <3>1, ConsTyped
  <2>4. Line(<<>>, words) \in AnyLine
    <3>1. <<>> \in Seq({" ", "\t"})
      BY EmptySeq
    <3> QED  BY <2>3, <3>1, LineTyped
  <2>5. <<Line(<<>>, words)>> \in Seq(AnyLine)
    BY <2>4, SingleTyped
  <2>6. BlockLines(out, b) = Write(out, <<Line(<<>>, words)>>)
    BY <2>1, <2>3 DEF BlockLines
  <2> QED  BY <2>5, <2>6, WriteTyped
<1>3. CASE b \in Texts
  <2>1. b.kind \in {"para", "code"} /\ b.text \in Seq(AnyLine)
    BY <1>3 DEF Texts
  <2>2. CASE b.kind = "para"
    <3>1. BlockLines(out, b) = Write(out, b.text)
      BY <2>2 DEF BlockLines
    <3> QED  BY <2>1, <3>1, WriteTyped
  <2>3. CASE b.kind = "code"
    <3>1. PICK n \in Nat : n = Len(b.text)
      BY <2>1, SeqFacts
    <3>2. DOMAIN b.text = 1..n /\ \A k \in 1..n : b.text[k] \in AnyLine
      BY <2>1, <3>1, SeqFacts
    <3> DEFINE Tabbed(line) == IF line = Blank THEN Blank ELSE [line EXCEPT !.lead = <<"\t">> \o @]
               all == [k \in DOMAIN b.text |-> Tabbed(b.text[k])]
    <3>3. ASSUME NEW line \in AnyLine  PROVE Tabbed(line) \in AnyLine
      <4>1. PICK lead \in Seq({" ", "\t"}) : lead = <<"\t">> \o line.lead
        <5>1. "\t" \in {" ", "\t"} /\ line.lead \in Seq({" ", "\t"})
          BY FieldsTyped
        <5> QED  BY <5>1, ConsTyped
      <4>2. [line EXCEPT !.lead = lead] \in AnyLine
        BY <4>1 DEF AnyLine
      <4> QED  BY <4>1, <4>2, BlankTyped
    <3>4. BlockLines(out, b) = Write(out, all)
      BY <2>3 DEF BlockLines
    <3> HIDE DEF Tabbed
    <3>5. all \in [1..n -> AnyLine]
      BY <3>2, <3>3
    <3> HIDE DEF all
    <3>6. all \in Seq(AnyLine)
      BY <3>1, <3>5, FunctionIsSeq
    <3> QED  BY <3>4, <3>6, WriteTyped
  <2> QED  BY <2>1, <2>2, <2>3
<1> QED  BY <1>1, <1>2, <1>3 DEF BlockSet

\* One more block.
LEMMA AddTyped ==
  ASSUME NEW out \in Outs, NEW content \in Seq(BlockSet), NEW k \in 1..Len(content),
         content[k].kind # "links"
  PROVE  Add(out, content, k) \in Outs
<1>1. PICK o \in Outs : o = IF k > 1 /\ blankBefore(content[k]) THEN Write(out, <<Blank>>) ELSE out
  BY WriteBlankTyped
<1>2. content[k] \in BlockSet
  BY SeqFacts
<1>3. BlockLines(o, content[k]) \in Outs
  BY <1>1, <1>2, BlockLinesTyped
<1> QED  BY <1>1, <1>3 DEF Add

\* The blocks but those of links, one after the other.
LEMMA BodyFolds ==
  ASSUME NEW content \in Seq(BlockSet), \A k \in 1..Len(content) : content[k].kind # "links"
  PROVE  \E w \in [0..Len(content) -> Outs] :
           /\ w[0] = [text |-> <<>>, open |-> FALSE]
           /\ w[Len(content)] = FoldLeftDomain(LAMBDA o, k : Add(o, content, k),
                                               [text |-> <<>>, open |-> FALSE], content)
           /\ \A m \in 1..Len(content) : w[m] = Add(w[m - 1], content, m)
<1>2. PICK n \in Nat : n = Len(content)
  BY SeqFacts
<1>3. DOMAIN content = 1..n
  BY <1>2, SeqFacts
<1> DEFINE start == [text |-> <<>>, open |-> FALSE]
           numbers == [k \in DOMAIN content |-> k]
           Op(o, k) == Add(o, content, k)
           Body(it) == it = [s \in SUBSET (1..n) |->
                               IF s = {} THEN start ELSE Op(it[s \ {Max(s)}], numbers[Max(s)])]
           it == CHOOSE f : Body(f)
<1>4. FoldLeftDomain(LAMBDA o, k : Add(o, content, k), start, content) = it[1..n]
  BY <1>3 DEF FoldLeftDomain, FoldLeft, MapThenFoldSet
<1>5. start \in Outs
  BY NothingTyped
<1>6. \A k \in 1..n : numbers[k] = k
  BY <1>3
<1> HIDE DEF numbers
<1>7. \E f : Body(f)
  <2> HIDE DEF start
  <2> DEFINE g == [p \in (1..n) \X Outs |-> Op(p[2], p[1])]
  <2>1. g \in [(1..n) \X Outs -> Outs]
    BY <1>2, AddTyped
  <2>2. \A k \in 1..n, d \in Outs : g[<<k, d>>] = Op(d, k)
    OBVIOUS
  <2> HIDE DEF g, Op
  <2>3. PICK f \in [SUBSET (1..n) -> Outs] : Iterates(f, n, start, g)
    BY <1>2, <1>5, <2>1, FoldFound
  <2>4. ASSUME NEW s \in SUBSET (1..n), s # {}
        PROVE  g[<<Max(s), f[s \ {Max(s)}]>>] = Op(f[s \ {Max(s)}], numbers[Max(s)])
    <3>1. Max(s) \in 1..n
      BY <1>2, <2>4, MaxOf
    <3>2. f[s \ {Max(s)}] \in Outs
      BY <2>3
    <3> QED  BY <1>6, <2>2, <3>1, <3>2
  <2>5. Body(f)
    BY <2>3, <2>4 DEF Iterates
  <2> QED  BY <2>5
<1>8. Body(it)
  <2> HIDE DEF Body
  <2> QED  BY <1>7
<1> HIDE DEF it
<1>9. it[{}] \in Outs
  BY <1>5, <1>8
<1>10. ASSUME NEW m \in 1..n  PROVE it[1..m] = Op(it[1..(m - 1)], m)
  <2>1. /\ 1..m \in SUBSET (1..n) /\ 1..m # {}
        /\ Max(1..m) = m /\ (1..m) \ {m} = 1..(m - 1)
    BY <1>2, FoldStep
  <2> HIDE DEF Op
  <2>2. it[1..m] = Op(it[(1..m) \ {Max(1..m)}], numbers[Max(1..m)])
    BY <1>8, <2>1
  <2> QED  BY <1>6, <2>1, <2>2
<1>11. ASSUME NEW m \in 1..n, it[1..(m - 1)] \in Outs  PROVE it[1..m] \in Outs
  BY <1>2, <1>10, <1>11, AddTyped
<1> HIDE DEF Op
<1>12. PICK w : /\ w \in [0..n -> Outs] /\ w[0] = it[{}] /\ w[n] = it[1..n]
                /\ \A m \in 1..n : w[m - 1] = it[1..(m - 1)] /\ w[m] = it[1..m]
  <2>1. n \in Nat
    BY <1>2
  <2>2. \A m \in 1..n : it[1..(m - 1)] \in Outs => it[1..m] \in Outs
    BY <1>11
  <2>3. PICK w : Climbed(w, it, n, Outs)
    BY ONLY <2>1, <2>2, <1>9, FoldClimbs
  <2> QED  BY <2>3 DEF Climbed
<1>13. \A m \in 1..n : w[m] = Op(w[m - 1], m)
  BY <1>10, <1>12
<1>14. w[0] = start
  BY <1>8, <1>12
<1>15. w[n] = FoldLeftDomain(LAMBDA o, k : Add(o, content, k), start, content)
  BY <1>4, <1>12
<1> QED  BY <1>2, <1>12, <1>13, <1>14, <1>15 DEF Op

\* What is printed of the blocks is lines.
LEMMA BodyTyped ==
  ASSUME NEW content \in Seq(BlockSet), \A k \in 1..Len(content) : content[k].kind # "links"
  PROVE  FoldLeftDomain(LAMBDA o, k : Add(o, content, k), [text |-> <<>>, open |-> FALSE], content) \in Outs
<1>1. PICK n \in Nat : n = Len(content)
  BY SeqFacts
<1>2. n \in 0..n
  OBVIOUS
<1> QED  BY <1>1, <1>2, BodyFolds

\* A comment is lines, whatever blocks it is printed from.
LEMMA CommentTyped ==
  ASSUME NEW blocks \in Seq(BlockSet)
  PROVE  Comment(blocks) \in Seq(AnyLine)
<1> DEFINE said == {k \in DOMAIN blocks : blocks[k].kind # "links"}
           content == Select(blocks, said)
           links == FlattenSeq([k \in DOMAIN blocks |-> LinksOf(blocks[k])])
           used == \E k \in DOMAIN content : Used(UsedIn(content[k]))
           uses == IF used /\ links # <<>> THEN 1 ELSE 0
           Section(out, text) == IF text = <<>> THEN out ELSE Write(Write(out, <<Blank>>), text)
           body == FoldLeftDomain(LAMBDA o, k : Add(o, content, k), [text |-> <<>>, open |-> FALSE], content)
           first == SubSeq(links, 1, uses)
           rest == SubSeq(links, uses + 1, Len(links))
<1>1. Comment(blocks) = Section(Section(body, first), rest).text
  BY DEF Comment
<1>2. body \in Outs
  <2>1. said \subseteq DOMAIN blocks
    OBVIOUS
  <2> HIDE DEF said
  <2>2. /\ content \in Seq(BlockSet) /\ Len(content) = Cardinality(said)
        /\ \A k \in 1..Cardinality(said) : \E m \in said : content[k] = blocks[m]
    BY <2>1, SelectTyped
  <2>3. \A m \in said : blocks[m].kind # "links"
    BY DEF said
  <2> HIDE DEF content
  <2>4. \A k \in 1..Len(content) : content[k].kind # "links"
    BY <2>2, <2>3
  <2> QED  BY <2>2, <2>4, BodyTyped
<1> HIDE DEF body
<1>3. links \in Seq(AnyLine)
  <2>1. PICK n \in Nat : n = Len(blocks)
    BY SeqFacts
  <2>2. DOMAIN blocks = 1..n /\ \A k \in 1..n : blocks[k] \in BlockSet
    BY <2>1, SeqFacts
  <2>3. ASSUME NEW b \in BlockSet  PROVE LinksOf(b) \in Seq(AnyLine)
    <3>0. <<>> \in Seq(AnyLine)
      BY EmptySeq
    <3>1. CASE b \in Lists
      <4>1. b.kind = "list" /\ b.links \in Seq(AnyLine)
        BY <3>1 DEF Lists
      <4> QED  BY <4>1 DEF LinksOf
    <3>2. CASE b \in Titles
      <4>1. b.kind = "heading"
        BY <3>2 DEF Titles
      <4> QED  BY <3>0, <4>1 DEF LinksOf
    <3>3. CASE b \in Texts
      <4>1. b.kind \in {"para", "links", "code"} /\ b.text \in Seq(AnyLine)
        BY <3>3 DEF Texts
      <4> QED  BY <3>0, <4>1 DEF LinksOf
    <3> QED  BY <3>1, <3>2, <3>3 DEF BlockSet
  <2> DEFINE all == [k \in DOMAIN blocks |-> LinksOf(blocks[k])]
  <2>4. all \in [1..n -> Seq(AnyLine)]
    BY <2>2, <2>3
  <2> HIDE DEF all
  <2>5. all \in Seq(Seq(AnyLine))
    BY <2>1, <2>4, FunctionIsSeq
  <2>6. FlattenSeq(all) \in Seq(AnyLine)
    BY <2>5, FlattenTyped
  <2> QED  BY <2>6 DEF all
<1> HIDE DEF links, used
<1>4. PICK h \in Nat : h = Len(links)
  BY <1>3, SeqFacts
<1>5. uses \in 0..h
  <2>1. links # <<>> => h # 0
    BY <1>3, <1>4, EmptySeq
  <2> QED  BY <1>4, <2>1
<1> HIDE DEF uses
<1>6. first \in Seq(AnyLine) /\ rest \in Seq(AnyLine)
  <2>1. \A k \in 1..h : links[k] \in AnyLine
    BY <1>3, <1>4, SeqFacts
  <2>2. \A k \in 1..uses : links[k] \in AnyLine
    BY <1>5, <2>1
  <2>3. \A k \in (uses + 1)..h : links[k] \in AnyLine
    BY <1>5, <2>1
  <2>4. 1 \in Int /\ uses \in Int /\ uses + 1 \in Int /\ h \in Int
    BY <1>4, <1>5
  <2>5. SubSeq(links, 1, uses) \in Seq(AnyLine)
    BY <2>2, <2>4, SubSeqProperties
  <2>6. SubSeq(links, uses + 1, h) \in Seq(AnyLine)
    BY <2>3, <2>4, SubSeqProperties
  <2> QED  BY <1>4, <2>5, <2>6
<1> HIDE DEF first, rest
<1>7. ASSUME NEW out \in Outs, NEW text \in Seq(AnyLine)  PROVE Section(out, text) \in Outs
  <2>1. PICK o \in Outs : o = Write(out, <<Blank>>)
    BY WriteBlankTyped
  <2>2. Write(o, text) \in Outs
    BY <2>1, WriteTyped
  <2> QED  BY <2>1, <2>2
<1> HIDE DEF Section
<1>8. Section(Section(body, first), rest) \in Outs
  BY <1>2, <1>6, <1>7
<1> QED  BY <1>1, <1>8 DEF Outs

------------------------------------------------------------------------------
(* A comment of lines stays one of lines, and its directives stay apart *)

AnyComment == [style : {"//", "/*"}, lines : Seq(AnyLine)]

\* What a comment is made of.
LEMMA CommentFacts ==
  ASSUME NEW c \in AnyComment
  PROVE  c.style \in {"//", "/*"} /\ c.lines \in Seq(AnyLine)
  BY DEF AnyComment

\* The directives of a comment, taken in order, are directives.
LEMMA DirectivesTyped ==
  ASSUME NEW c \in AnyComment
  PROVE  /\ Select(c.lines, Directives(c)) \in Seq(AnyLine)
         /\ \A k \in 1..Len(Select(c.lines, Directives(c))) :
              isDirective(Select(c.lines, Directives(c))[k])
<1> DEFINE text == c.lines
           numbers == Directives(c)
<1>1. text \in Seq(AnyLine)
  BY CommentFacts
<1>2. numbers \subseteq DOMAIN text /\ \A k \in numbers : isDirective(text[k])
  BY DEF Directives
<1> HIDE DEF text, numbers
<1>3. /\ Select(text, numbers) \in Seq(AnyLine)
      /\ Len(Select(text, numbers)) = Cardinality(numbers)
      /\ \A k \in 1..Cardinality(numbers) : \E m \in numbers : Select(text, numbers)[k] = text[m]
  BY <1>1, <1>2, SelectTyped
<1>4. \A k \in 1..Len(Select(text, numbers)) : isDirective(Select(text, numbers)[k])
  BY <1>2, <1>3
<1> QED  BY <1>3, <1>4 DEF text, numbers

\* The text of a comment is one of lines.
LEMMA TextTyped ==
  ASSUME NEW c \in AnyComment
  PROVE  TextOf(c) \in Seq(AnyLine)
<1>1. CASE c.style = "/*"
  BY <1>1, CommentFacts DEF TextOf
<1>2. CASE c.style # "/*"
  <2>1. PICK text : text = Select(c.lines, DOMAIN c.lines \ Directives(c))
    OBVIOUS
  <2>2. text \in Seq(AnyLine)
    <3>1. c.lines \in Seq(AnyLine) /\ DOMAIN c.lines \ Directives(c) \subseteq DOMAIN c.lines
      BY CommentFacts
    <3> QED  BY <2>1, <3>1, SelectTyped
  <2>3. PICK n \in Nat : n = Len(text)
    BY <2>2, SeqFacts
  <2>4. DOMAIN text = 1..n /\ \A k \in 1..n : AfterSlashes(text[k]) \in AnyLine
    BY <2>2, <2>3, SeqFacts, SlashesTyped
  <2>5. TextOf(c) = [k \in DOMAIN text |-> AfterSlashes(text[k])]
    BY <1>2, <2>1 DEF TextOf
  <2>6. TextOf(c) \in [1..n -> AnyLine]
    BY <2>4, <2>5
  <2> QED  BY <2>3, <2>6, FunctionIsSeq
<1> QED  BY <1>1, <1>2

\* The last elements of a sequence, by their numbers.
LEMMA SelectLast ==
  ASSUME NEW S, NEW all \in Seq(S), NEW after \in Seq(S), NEW a \in Nat, NEW b \in Nat,
         Len(after) = b, \A k \in 1..b : all[a + k] = after[k]
  PROVE  /\ Cardinality((a + 1)..(a + b)) = b
         /\ Select(all, (a + 1)..(a + b)) = after
<1> DEFINE T == (a + 1)..(a + b)
<1>1. ASSUME NEW x \in Int, x >= a
      PROVE  IsFiniteSet((a + 1)..x) /\ Cardinality((a + 1)..x) = x - a
  <2>1. a + 1 \in Int
    OBVIOUS
  <2>2. IsFiniteSet((a + 1)..x) /\ Cardinality((a + 1)..x) = IF a + 1 > x THEN 0 ELSE x - (a + 1) + 1
    BY <2>1, FS_Interval
  <2> QED  BY <1>1, <2>2
<1>2. Cardinality(T) = b
  <2>1. a + b \in Int /\ a + b >= a /\ a + b - a = b
    OBVIOUS
  <2> QED  BY <1>1, <2>1
<1>3. T \subseteq 1..(a + b)
  OBVIOUS
<1>4. ASSUME NEW k \in 1..b  PROVE Nth(T, k) = a + k
  <2>1. a + b \in Nat
    OBVIOUS
  <2>2. /\ Nth(T, k) \in T
        /\ Cardinality({m \in T : m <= Nth(T, k)}) = k
    <3> HIDE DEF T
    <3> QED  BY <1>2, <1>3, <2>1, NthIn
  <2>3. PICK x \in T : x = Nth(T, k) /\ Cardinality({m \in T : m <= x}) = k
    BY <2>2
  <2>4. {m \in T : m <= x} = (a + 1)..x /\ x \in Int /\ x >= a
    BY <2>3
  <2>5. Cardinality((a + 1)..x) = x - a
    BY <1>1, <2>4
  <2>6. x - a = k
    BY <2>3, <2>4, <2>5
  <2>7. x = a + k
    <3> HIDE DEF T
    <3>1. \A y, z, w \in Int : y - z = w => y = z + w
      OBVIOUS
    <3>2. a \in Int /\ k \in Int
      OBVIOUS
    <3> QED  BY <2>4, <2>6, <3>1, <3>2
  <2> QED  BY <2>3, <2>7
<1>5. Select(all, T) = [k \in 1..b |-> all[Nth(T, k)]]
  BY <1>2 DEF Select
<1> HIDE DEF T
<1>6. Select(all, T) = [k \in 1..b |-> after[k]]
  BY <1>4, <1>5
<1>7. after = [k \in 1..b |-> after[k]]
  <2>1. after \in [1..b -> S]
    BY LenProperties
  <2> QED  BY <2>1
<1> QED  BY <1>2, <1>6, <1>7 DEF T

\* The directives of a comment are its last lines, and nothing is before them or
\* a blank line is.
Placed(c) ==
  LET n == Cardinality(Directives(c))
      text == Len(c.lines) - n
  IN n > 0 => /\ Directives(c) = (text + 1)..Len(c.lines)
              /\ text > 0 => c.lines[text] = Blank

\* All lines after the a-th are these, and directives, and no other line is; a
\* blank line is before them.
LastAre(all, a, ds) ==
  /\ a \in Nat /\ all \in Seq(AnyLine) /\ Len(all) = a + Len(ds)
  /\ \A k \in 1..a : ~ isDirective(all[k])
  /\ \A k \in 1..Len(ds) : all[a + k] = ds[k] /\ isDirective(ds[k])
  /\ ds # <<>> /\ a > 0 => all[a] = Blank

\* With its directives last, those are all it has, and they are in their place.
LEMMA LastPlaced ==
  ASSUME NEW c \in AnyComment, NEW ds \in Seq(AnyLine), NEW a, LastAre(c.lines, a, ds)
  PROVE  Select(c.lines, Directives(c)) = ds /\ Placed(c)
<1>1. PICK b \in Nat : b = Len(ds)
  BY SeqFacts
<1>2. PICK all \in Seq(AnyLine) : all = c.lines
  BY CommentFacts
<1>3. /\ a \in Nat /\ Len(all) = a + b
      /\ \A k \in 1..a : ~ isDirective(all[k])
      /\ \A k \in 1..b : all[a + k] = ds[k] /\ isDirective(ds[k])
      /\ ds # <<>> /\ a > 0 => all[a] = Blank
  BY <1>1, <1>2 DEF LastAre
<1>4. DOMAIN all = 1..(a + b)
  BY <1>3, SeqFacts
<1>5. Directives(c) = (a + 1)..(a + b)
  <2>1. ASSUME NEW k \in 1..(a + b)  PROVE isDirective(all[k]) <=> k \in (a + 1)..(a + b)
    <3>1. CASE k <= a
      <4>1. k \in 1..a /\ ~ (k \in (a + 1)..(a + b))
        BY <1>3, <3>1
      <4> QED  BY <1>3, <4>1
    <3>2. CASE ~ (k <= a)
      <4>1. PICK n \in 1..b : k = a + n
        <5>1. k - a \in 1..b /\ k = a + (k - a)
          BY <1>1, <1>3, <3>2
        <5> QED  BY <5>1
      <4>2. k \in (a + 1)..(a + b)
        BY <1>1, <1>3, <3>2
      <4> QED  BY <1>3, <4>1, <4>2
    <3> QED  BY <3>1, <3>2
  <2>2. (a + 1)..(a + b) \subseteq 1..(a + b)
    BY <1>1, <1>3
  <2> QED  BY <1>2, <1>4, <2>1, <2>2 DEF Directives
<1>6. /\ Cardinality((a + 1)..(a + b)) = b
      /\ Select(all, (a + 1)..(a + b)) = ds
  <2>1. Len(ds) = b /\ \A k \in 1..b : all[a + k] = ds[k]
    BY <1>1, <1>3
  <2>2. a \in Nat /\ b \in Nat /\ all \in Seq(AnyLine) /\ ds \in Seq(AnyLine)
    BY <1>1, <1>2, <1>3
  <2> QED  BY ONLY <2>1, <2>2, SelectLast, SMTT(30)
<1>7. b > 0 /\ a > 0 => all[a] = Blank
  BY <1>1, <1>3, EmptySeq
<1>8. a + b - b = a
  BY <1>1, <1>3
<1>9. Placed(c)
  BY <1>2, <1>3, <1>5, <1>6, <1>7, <1>8 DEF Placed
<1> QED  BY <1>2, <1>5, <1>6, <1>9

\* The text with its slashes, and perhaps a blank line after it.
Slashed(all, text, a) ==
  /\ a = Len(text) \/ (a = Len(text) + 1 /\ all[a] = Blank)
  /\ \A k \in 1..Len(text) : all[k] = WithSlashes(text[k])

\* The text comes before the directives, with its slashes.
LEMMA ComposeSplit ==
  ASSUME NEW text \in Seq(AnyLine), NEW ds \in Seq(AnyLine),
         \A k \in 1..Len(ds) : isDirective(ds[k])
  PROVE  \E a \in Nat : /\ LastAre(Compose("//", text, ds), a, ds)
                        /\ Slashed(Compose("//", text, ds), text, a)
<1>1. PICK n \in Nat : n = Len(text)
  BY SeqFacts
<1>2. DOMAIN text = 1..n /\ \A k \in 1..n : text[k] \in AnyLine
  BY <1>1, SeqFacts
<1>3. PICK above \in Seq(AnyLine) : /\ above = [k \in DOMAIN text |-> WithSlashes(text[k])]
                                    /\ Len(above) = n
                                    /\ \A k \in 1..n : /\ ~ isDirective(above[k])
                                                       /\ above[k] = WithSlashes(text[k])
  <2> DEFINE f == [k \in DOMAIN text |-> WithSlashes(text[k])]
  <2>1. f \in [1..n -> AnyLine] /\ \A k \in 1..n : ~ isDirective(f[k]) /\ f[k] = WithSlashes(text[k])
    BY <1>2, SlashesTyped
  <2> HIDE DEF f
  <2>2. f \in Seq(AnyLine) /\ Len(f) = n
    BY <1>1, <2>1, FunctionIsSeq
  <2> QED  BY <2>1, <2>2 DEF f
<1>4. PICK b \in Nat : b = Len(ds)
  BY SeqFacts
<1>5. CASE ds = <<>>
  <2>1. Compose("//", text, ds) = above
    <3>1. above \o <<>> = above
      BY <1>3, ConcatEmptySeq
    <3>2. Compose("//", text, ds) = above \o <<>>
      BY <1>3, <1>5 DEF Compose
    <3> QED  BY <3>1, <3>2
  <2>2. Len(ds) = 0 /\ n + 0 = n
    BY <1>1, <1>5, EmptySeq
  <2>3. \A k \in 1..0 : FALSE
    OBVIOUS
  <2>4. LastAre(above, n, ds)
    BY <1>1, <1>3, <1>5, <2>2, <2>3 DEF LastAre
  <2>5. Slashed(above, text, n)
    BY <1>1, <1>3 DEF Slashed
  <2> QED  BY <1>1, <2>1, <2>4, <2>5
<1>6. CASE ds # <<>>
  <2>1. PICK rest \in Seq(AnyLine) :
          /\ rest = <<Blank>> \o ds /\ Len(rest) = 1 + b
          /\ \A k \in 1..(1 + b) : rest[k] = IF k <= 1 THEN Blank ELSE ds[k - 1]
    <3>1. PICK one \in Seq(AnyLine) : one = <<Blank>> /\ Len(one) = 1 /\ one[1] = Blank
      BY BlankTyped, SingleTyped
    <3>2. /\ one \o ds \in Seq(AnyLine) /\ Len(one \o ds) = 1 + b
          /\ \A k \in 1..(1 + b) : (one \o ds)[k] = IF k <= 1 THEN one[k] ELSE ds[k - 1]
      BY <1>4, <3>1, ConcatProperties
    <3>3. PICK rest : rest = one \o ds
      OBVIOUS
    <3>4. \A k \in 1..(1 + b) : k <= 1 => k = 1
      OBVIOUS
    <3>5. \A k \in 1..(1 + b) : rest[k] = IF k <= 1 THEN Blank ELSE ds[k - 1]
      BY <3>1, <3>2, <3>3, <3>4
    <3>6. rest = <<Blank>> \o ds /\ rest \in Seq(AnyLine) /\ Len(rest) = 1 + b
      BY <3>1, <3>2, <3>3
    <3> QED  BY <3>5, <3>6
  <2>2. PICK all \in Seq(AnyLine) :
          /\ all = above \o rest /\ Len(all) = n + (1 + b)
          /\ \A k \in 1..(n + (1 + b)) : all[k] = IF k <= n THEN above[k] ELSE rest[k - n]
    <3>1. PICK all : all = above \o rest
      OBVIOUS
    <3>2. /\ all \in Seq(AnyLine) /\ Len(all) = Len(above) + Len(rest)
          /\ \A k \in 1..(Len(above) + Len(rest)) :
               all[k] = IF k <= Len(above) THEN above[k] ELSE rest[k - Len(above)]
      BY <1>3, <2>1, <3>1, ConcatProperties
    <3>3. Len(above) = n /\ Len(rest) = 1 + b
      BY <1>3, <2>1
    <3>4. /\ Len(all) = n + (1 + b)
          /\ \A k \in 1..(n + (1 + b)) : all[k] = IF k <= n THEN above[k] ELSE rest[k - n]
      BY <3>2, <3>3
    <3> QED  BY <3>1, <3>2, <3>4
  <2>3. Compose("//", text, ds) = all
    BY <1>3, <1>6, <2>1, <2>2 DEF Compose
  <2>4. all[n + 1] = Blank
    <3>1. n + 1 \in 1..(n + (1 + b)) /\ ~ (n + 1 <= n) /\ n + 1 - n = 1 /\ 1 \in 1..(1 + b) /\ 1 <= 1
      BY <1>1, <1>4
    <3> QED  BY <2>1, <2>2, <3>1
  <2>5. ASSUME NEW k \in 1..(n + 1)  PROVE ~ isDirective(all[k])
    <3>1. CASE k \in 1..n
      <4>1. k \in 1..(n + (1 + b)) /\ k <= n
        BY <1>1, <1>4, <3>1
      <4> QED  BY <1>3, <2>2, <3>1, <4>1
    <3>2. CASE k = n + 1
      BY <2>4, <3>2, BlankTyped DEF isDirective
    <3>3. k \in 1..n \/ k = n + 1
      BY <1>1
    <3> QED  BY <3>1, <3>2, <3>3
  <2>6. ASSUME NEW k \in 1..b  PROVE all[n + 1 + k] = ds[k]
    <3>1. PICK m \in 1..(n + (1 + b)), l \in 1..(1 + b) :
            m = n + 1 + k /\ ~ (m <= n) /\ m - n = l /\ ~ (l <= 1) /\ l - 1 = k
      <4>1. /\ n + 1 + k \in 1..(n + (1 + b)) /\ ~ (n + 1 + k <= n) /\ n + 1 + k - n = k + 1
            /\ k + 1 \in 1..(1 + b) /\ ~ (k + 1 <= 1) /\ k + 1 - 1 = k
        BY <1>1, <1>4
      <4> QED  BY <4>1
    <3>2. all[m] = rest[l]
      BY <2>2, <3>1
    <3>3. rest[l] = ds[k]
      BY <2>1, <3>1
    <3> QED  BY <3>1, <3>2, <3>3
  <2>7. n + 1 \in Nat /\ Len(all) = (n + 1) + b
    BY <1>1, <1>4, <2>2
  <2>8. LastAre(all, n + 1, ds)
    BY <1>4, <2>4, <2>5, <2>6, <2>7 DEF LastAre
  <2>9. Slashed(all, text, n + 1)
    <3>1. \A k \in 1..n : k \in 1..(n + (1 + b)) /\ k <= n
      BY <1>1, <1>4
    <3>2. \A k \in 1..n : all[k] = WithSlashes(text[k])
      BY <1>3, <2>2, <3>1
    <3> QED  BY <1>1, <2>4, <3>2 DEF Slashed
  <2> QED  BY <2>3, <2>7, <2>8, <2>9
<1> QED  BY <1>5, <1>6

\* What is composed is lines; of text and directives, nothing is a directive
\* but those.
LEMMA ComposeTyped ==
  ASSUME NEW c \in AnyComment, NEW text \in Seq(AnyLine), NEW ds \in Seq(AnyLine),
         \A k \in 1..Len(ds) : isDirective(ds[k])
  PROVE  LET all == Compose(c.style, text, ds)
             new == [c EXCEPT !.lines = all]
         IN /\ new \in AnyComment /\ new.style = c.style
            /\ c.style = "//" => Select(new.lines, Directives(new)) = ds /\ Placed(new)
<1> DEFINE all == Compose(c.style, text, ds)
           new == [c EXCEPT !.lines = all]
<1>0. <<Blank>> \in Seq(AnyLine)
  BY BlankTyped, SingleTyped
<1>1. CASE c.style = "/*"
  <2>1. all = (<<Blank>> \o text) \o <<Blank>>
    BY <1>1 DEF Compose
  <2>2. <<Blank>> \o text \in Seq(AnyLine)
    BY <1>0, ConcatProperties
  <2>3. all \in Seq(AnyLine)
    BY <1>0, <2>1, <2>2, ConcatProperties
  <2> HIDE DEF all
  <2>4. new \in AnyComment /\ new.style = c.style
    BY <2>3 DEF AnyComment
  <2> QED  BY <1>1, <2>4 DEF all
<1>2. CASE c.style = "//"
  <2>1. PICK a \in Nat : LastAre(Compose("//", text, ds), a, ds)
    BY ComposeSplit
  <2>2. LastAre(all, a, ds)
    BY <1>2, <2>1
  <2>3. all \in Seq(AnyLine)
    BY <2>2 DEF LastAre
  <2> HIDE DEF all
  <2>4. new \in AnyComment /\ new.style = c.style /\ new.lines = all
    BY <2>3 DEF AnyComment
  <2> HIDE DEF new
  <2>5. LastAre(new.lines, a, ds)
    BY <2>2, <2>4
  <2>6. Select(new.lines, Directives(new)) = ds /\ Placed(new)
    BY <2>4, <2>5, LastPlaced
  <2> QED  BY <2>4, <2>6 DEF new, all
<1> QED  BY <1>1, <1>2, CommentFacts

\* A comment that is left alone is all directives, if it has two slashes.
LEMMA IgnoredPlaced ==
  ASSUME NEW c \in AnyComment, c.style = "//", Ignored(c)
  PROVE  Placed(c)
<1>1. PICK n \in Nat : n = Len(c.lines)
  BY CommentFacts, SeqFacts
<1>2. DOMAIN c.lines = 1..n
  BY <1>1, CommentFacts, SeqFacts
<1>3. Directives(c) = 1..n
  BY <1>2 DEF Ignored, Directives
<1>4. Cardinality(1..n) = n
  <2>1. 1 \in Int /\ n \in Int
    BY <1>1
  <2>2. Cardinality(1..n) = IF 1 > n THEN 0 ELSE n - 1 + 1
    BY <2>1, FS_Interval
  <2> QED  BY <1>1, <2>2
<1>5. n - n = 0 /\ 0 + 1 = 1 /\ ~ (0 > 0)
  BY <1>1
<1> QED  BY <1>1, <1>3, <1>4, <1>5 DEF Placed

------------------------------------------------------------------------------
(* What printing makes of an item: a marker and a text, on one line *)

\* A line that says something.
Says(line) == line.words # <<>>

\* An item that is nothing but the definition of a link: it is printed as a
\* marker alone, and that line is left open.
Bare(line) == isList(line) /\ Tail(line.words) = <<"[a]:", "url">>

\* Lines at the margin.
Plain == {line \in AnyLine : ~ indented(line)}

\* A paragraph that an item starts with: its first line stays with the marker.
Starts(text) == text # <<>> /\ Says(text[1]) /\ ~ Defines(text[1])

\* Items that have such a paragraph.
SoundItems == {item \in ItemSet : /\ item.marker \in Bullets \union Numbers
                                  /\ item.paras # <<>> /\ item.paras[1] # <<>>
                                  /\ Says(item.paras[1][1])}

\* An item the first paragraph of which is being read.
Begun(item, text) == /\ item.marker \in Bullets \union Numbers
                     /\ item.paras = <<>> /\ Starts(text)

\* Lists all of whose items have one, the last when what is read is ended.
SoundLists == {s \in ListSet :
  /\ s.text \in Seq(Plain) /\ s.links \in Seq(Plain)
  /\ \A k \in 1..Len(s.items) : s.items[k] \in SoundItems \/ (k = Len(s.items) /\ Begun(s.items[k], s.text))}
Flushed == {s \in ListSet : s.items \in Seq(SoundItems) /\ s.text = <<>> /\ s.links \in Seq(Plain)}

\* What is flushed is sound.
LEMMA FlushedSound == Flushed \subseteq SoundLists
<1> SUFFICES ASSUME NEW s \in Flushed  PROVE s \in SoundLists
  OBVIOUS
<1>1. s \in ListSet /\ s.items \in Seq(SoundItems) /\ s.text = <<>> /\ s.links \in Seq(Plain)
  BY DEF Flushed
<1>2. s.text \in Seq(Plain)
  BY <1>1, EmptySeq
<1>3. \A k \in 1..Len(s.items) : s.items[k] \in SoundItems
  BY <1>1, SeqFacts
<1> QED  BY <1>1, <1>2, <1>3 DEF SoundLists

\* The paragraph of the last item is ended, or its links are taken out: an item
\* that has begun has more than links (parse.go:626-644).
LEMMA FlushSound ==
  ASSUME NEW s \in SoundLists
  PROVE  Flush(s) \in Flushed
<1>1. /\ s \in ListSet /\ s.text \in Seq(Plain) /\ s.links \in Seq(Plain)
      /\ \A k \in 1..Len(s.items) : s.items[k] \in SoundItems \/ (k = Len(s.items) /\ Begun(s.items[k], s.text))
  BY DEF SoundLists
<1>2. s.items \in Seq(ItemSet) /\ s.text \in Seq(AnyLine)
  BY <1>1, ListFacts
<1>3. Flush(s) \in ListSet
  BY <1>1, FlushTyped
<1>4. PICK n \in Nat : n = Len(s.items)
  BY <1>2, SeqFacts
<1>5. DOMAIN s.items = 1..n
  BY <1>2, <1>4, SeqFacts
<1>6. CASE s.items = <<>>
  <2>1. Flush(s) = [s EXCEPT !.text = <<>>]
    BY <1>6 DEF Flush
  <2>2. Flush(s).items = s.items /\ Flush(s).text = <<>> /\ Flush(s).links = s.links
    BY <1>1, <2>1 DEF ListSet
  <2>3. <<>> \in Seq(SoundItems)
    BY EmptySeq
  <2> QED  BY <1>1, <1>3, <1>6, <2>2, <2>3 DEF Flushed
<1>7. CASE s.items # <<>> /\ (s.text = <<>> \/ AllLinks(s.text))
  <2>1. PICK links : links = s.links \o s.text
    OBVIOUS
  <2>2. links \in Seq(Plain)
    BY <1>1, <2>1, ConcatProperties
  <2>3. Flush(s) = [s EXCEPT !.text = <<>>, !.links = links]
    BY <1>7, <2>1 DEF Flush
  <2>4. Flush(s).items = s.items /\ Flush(s).text = <<>> /\ Flush(s).links = links
    BY <1>1, <2>3 DEF ListSet
  <2>5. ~ Starts(s.text)
    <3>1. CASE s.text = <<>>
      BY <3>1 DEF Starts
    <3>2. CASE s.text # <<>>
      <4>1. 1 \in DOMAIN s.text
        <5>1. Len(s.text) \in Nat \ {0} /\ DOMAIN s.text = 1..Len(s.text)
          BY <1>2, <3>2, EmptySeq, SeqFacts
        <5> QED  BY <5>1
      <4> QED  BY <1>7, <3>2, <4>1 DEF Starts, AllLinks
    <3> QED  BY <3>1, <3>2
  <2>6. \A k \in 1..n : s.items[k] \in SoundItems
    BY <1>1, <1>4, <2>5 DEF Begun
  <2>7. s.items \in Seq(SoundItems)
    <3>1. s.items \in [1..n -> ItemSet]
      BY <1>2, <1>4, LenProperties
    <3>2. s.items \in [1..n -> SoundItems]
      BY <2>6, <3>1
    <3> QED  BY <3>2, FunctionIsSeq
  <2> QED  BY <1>3, <2>2, <2>4, <2>7 DEF Flushed
<1>8. CASE s.items # <<>> /\ ~ (s.text = <<>> \/ AllLinks(s.text))
  <2>1. n \in 1..n
    <3>1. n # 0
      BY <1>2, <1>4, <1>8, EmptySeq
    <3> QED  BY <3>1
  <2>2. PICK old \in ItemSet : old = s.items[n]
    BY <1>2, <1>4, <2>1, SeqFacts
  <2>3. PICK paras : paras = Append(old.paras, s.text)
    OBVIOUS
  <2>4. old.paras \in Seq(Seq(AnyLine))
    BY <2>2 DEF ItemSet
  <2>5. PICK m \in Nat : m = Len(old.paras)
    BY <2>4, SeqFacts
  <2>6. /\ paras \in Seq(Seq(AnyLine)) /\ Len(paras) = m + 1
        /\ \A k \in 1..m : paras[k] = old.paras[k]
        /\ paras[m + 1] = s.text
    BY <1>2, <2>3, <2>4, <2>5, AppendProperties
  <2>7. old \in SoundItems \/ Begun(old, s.text)
    BY <1>1, <1>4, <2>1, <2>2
  <2>8. paras # <<>>
    <3>1. Len(paras) # 0
      BY <2>6
    <3> QED  BY <3>1, EmptySeq
  <2>9. paras[1] # <<>> /\ Says(paras[1][1])
    <3>1. CASE m = 0
      <4>1. old.paras = <<>>
        BY <2>4, <2>5, <3>1, EmptySeq
      <4>2. Starts(s.text)
        BY <2>7, <4>1 DEF SoundItems, Begun
      <4>3. paras[1] = s.text
        BY <2>6, <3>1
      <4> QED  BY <4>2, <4>3 DEF Starts
    <3>2. CASE m # 0
      <4>1. old.paras # <<>>
        BY <2>5, <3>2, EmptySeq
      <4>2. old \in SoundItems
        BY <2>7, <4>1 DEF Begun
      <4>3. 1 \in 1..m
        BY <3>2
      <4>4. paras[1] = old.paras[1]
        BY <2>6, <4>3
      <4> QED  BY <4>2, <4>4 DEF SoundItems
    <3> QED  BY <3>1, <3>2
  <2>10. PICK item : item = [old EXCEPT !.paras = paras]
    OBVIOUS
  <2>11. item \in ItemSet /\ item.paras = paras /\ item.marker = old.marker
    BY <2>2, <2>6, <2>10 DEF ItemSet
  <2>12. item \in SoundItems
    <3>1. old.marker \in Bullets \union Numbers
      BY <2>7 DEF SoundItems, Begun
    <3> QED  BY <2>8, <2>9, <2>11, <3>1 DEF SoundItems
  <2>13. PICK items : items = [s.items EXCEPT ![n] = item]
    OBVIOUS
  <2>14. items \in Seq(SoundItems)
    <3>1. s.items \in [1..n -> ItemSet]
      BY <1>2, <1>4, LenProperties
    <3>2. \A k \in 1..n : k # n => s.items[k] \in SoundItems
      BY <1>1, <1>4
    <3>3. items \in [1..n -> SoundItems]
      BY <2>1, <2>12, <2>13, <3>1, <3>2
    <3> QED  BY <3>3, FunctionIsSeq
  <2>15. Flush(s) = [s EXCEPT !.text = <<>>, !.items = items]
    <3>1. Flush(s) = [s EXCEPT !.text = <<>>, !.items[Len(s.items)].paras = Append(@, s.text)]
      BY <1>8 DEF Flush
    <3>2. items = [s.items EXCEPT ![Len(s.items)].paras = Append(@, s.text)]
      BY <1>4, <2>2, <2>3, <2>10, <2>13
    <3> QED  BY <1>1, <3>1, <3>2 DEF ListSet
  <2>16. Flush(s).items = items /\ Flush(s).text = <<>> /\ Flush(s).links = s.links
    BY <1>1, <2>15 DEF ListSet
  <2> QED  BY <1>1, <1>3, <2>14, <2>16 DEF Flushed
<1> QED  BY <1>6, <1>7, <1>8

\* A line of words at the margin.
LEMMA PlainLine ==
  ASSUME NEW words \in Seq(Word)
  PROVE  Line(<<>>, words) \in Plain /\ Line(<<>>, words).words = words
<1>1. <<>> \in Seq({" ", "\t"})
  BY EmptySeq
<1>2. /\ Line(<<>>, words) \in AnyLine /\ Line(<<>>, words).lead = <<>>
      /\ Line(<<>>, words).words = words
  BY <1>1, LineTyped
<1> QED  BY <1>2 DEF Plain, indented

\* A line that starts an item has words after its marker, and they are not all
\* of a link (parse.go:646-667).
LEMMA TakeSound ==
  ASSUME NEW s \in SoundLists, NEW line \in AnyLine, ~ Bare(line), NEW first
  PROVE  Take(s, line, first) \in SoundLists
<1>0. /\ s \in ListSet /\ s.text \in Seq(Plain) /\ s.links \in Seq(Plain)
      /\ \A k \in 1..Len(s.items) : s.items[k] \in SoundItems \/ (k = Len(s.items) /\ Begun(s.items[k], s.text))
  BY DEF SoundLists
<1>1. line.words \in Seq(Word)
  BY FieldsTyped
<1>2. PICK f \in Flushed : f = Flush(s)
  BY FlushSound
<1>3. f \in ListSet /\ f.items \in Seq(SoundItems) /\ f.text = <<>> /\ f.links \in Seq(Plain)
  BY <1>2 DEF Flushed
<1>4. Take(s, line, first) \in ListSet
  BY <1>0, TakeTyped
<1> DEFINE number(l) == l.words[1] \in Numbers
<1>5. CASE isList(line) /\ number(line) = number(first)
  <2>1. Len(line.words) \in Nat /\ Len(line.words) > 1 /\ line.words[1] \in Bullets \union Numbers
    BY <1>1, <1>5, SeqFacts DEF isList
  <2>2. line.words # <<>>
    BY <2>1, EmptySeq
  <2>3. Tail(line.words) \in Seq(Word) /\ Len(Tail(line.words)) = Len(line.words) - 1
    BY <1>1, <2>2, HeadTailProperties
  <2>4. PICK item : item = [marker |-> line.words[1], paras |-> <<>>]
    OBVIOUS
  <2>5. PICK new \in Plain : new = Line(<<>>, Tail(line.words)) /\ new.words = Tail(line.words)
    BY <2>3, PlainLine
  <2>6. Says(new)
    <3>1. PICK n \in Nat : n = Len(line.words) /\ n > 1
      BY <2>1
    <3>2. n - 1 # 0
      <4>1. \A x \in Nat : x > 1 => x - 1 # 0
        OBVIOUS
      <4> QED  BY ONLY <3>1, <4>1, Zenon
    <3>3. Len(new.words) # 0
      BY <2>3, <2>5, <3>1, <3>2
    <3> QED  BY <3>3, EmptySeq DEF Says
  <2>7. ~ Defines(new)
    BY <1>5, <2>5 DEF Defines, Bare
  <2>8. PICK text \in Seq(Plain) : text = <<new>> /\ Len(text) = 1 /\ text[1] = new
    BY <2>5, SingleTyped
  <2>9. Begun(item, text)
    <3>1. text # <<>>
      BY <2>8, EmptySeq
    <3> QED  BY <2>1, <2>4, <2>6, <2>7, <2>8, <3>1 DEF Begun, Starts
  <2>10. item \in ItemSet
    <3>1. line.words[1] \in Word /\ <<>> \in Seq(Seq(AnyLine))
      <4>1. 1 \in 1..Len(line.words)
        BY <2>1
      <4> QED  BY <1>1, <4>1, SeqFacts, EmptySeq
    <3> QED  BY <2>4, <3>1 DEF ItemSet
  <2>11. PICK items : items = Append(f.items, item)
    OBVIOUS
  <2>12. PICK n \in Nat : n = Len(f.items)
    BY <1>3, SeqFacts
  <2>13. /\ Len(items) = n + 1 /\ items[n + 1] = item
         /\ \A k \in 1..n : items[k] = f.items[k] /\ items[k] \in SoundItems
    <3>1. f.items \in Seq(ItemSet)
      BY <1>3, ListFacts
    <3>2. /\ Len(items) = n + 1 /\ items[n + 1] = item
          /\ \A k \in 1..n : items[k] = f.items[k]
      BY <2>10, <2>11, <2>12, <3>1, AppendProperties
    <3>3. \A k \in 1..n : f.items[k] \in SoundItems
      BY <1>3, <2>12, SeqFacts
    <3> QED  BY <3>2, <3>3
  <2>14. Take(s, line, first) = [f EXCEPT !.items = items, !.text = text]
    BY <1>2, <1>5, <2>4, <2>5, <2>8, <2>11 DEF Take
  <2>15. /\ Take(s, line, first).items = items /\ Take(s, line, first).text = text
         /\ Take(s, line, first).links = f.links
    BY <1>3, <2>14 DEF ListSet
  <2>16. \A k \in 1..(n + 1) : items[k] \in SoundItems \/ (k = n + 1 /\ Begun(items[k], text))
    <3>1. \A k \in 1..(n + 1) : k \in 1..n \/ k = n + 1
      OBVIOUS
    <3> QED  BY <2>9, <2>13, <3>1
  <2> QED  BY <1>3, <1>4, <2>8, <2>13, <2>15, <2>16 DEF SoundLists
<1>6. CASE ~ (isList(line) /\ number(line) = number(first)) /\ line.words = <<>>
  <2>1. Take(s, line, first) = [f EXCEPT !.between = TRUE]
    BY <1>2, <1>6 DEF Take
  <2>2. /\ Take(s, line, first).items = f.items /\ Take(s, line, first).text = f.text
        /\ Take(s, line, first).links = f.links
    BY <1>3, <2>1 DEF ListSet
  <2>3. Take(s, line, first) \in Flushed
    BY <1>3, <1>4, <2>2 DEF Flushed
  <2> QED  BY <2>3, FlushedSound
<1>7. CASE ~ (isList(line) /\ number(line) = number(first)) /\ line.words # <<>>
  <2>1. PICK new \in Plain : new = Trimmed(line)
    BY <1>1, PlainLine DEF Trimmed
  <2>2. PICK text : text = Append(s.text, new)
    OBVIOUS
  <2>3. PICK m \in Nat : m = Len(s.text)
    BY <1>0, SeqFacts
  <2>4. /\ text \in Seq(Plain) /\ Len(text) = m + 1
        /\ \A k \in 1..m : text[k] = s.text[k]
    BY <1>0, <2>1, <2>2, <2>3, AppendProperties
  <2>5. Starts(s.text) => Starts(text)
    <3> SUFFICES ASSUME Starts(s.text)  PROVE Starts(text)
      OBVIOUS
    <3>1. m # 0
      BY <1>0, <2>3, EmptySeq DEF Starts
    <3>2. 1 \in 1..m /\ Len(text) # 0
      BY <2>4, <3>1
    <3>3. text[1] = s.text[1] /\ text # <<>>
      BY <2>4, <3>2, EmptySeq
    <3> QED  BY <3>3 DEF Starts
  <2>6. Take(s, line, first) = [s EXCEPT !.text = text]
    BY <1>7, <2>1, <2>2 DEF Take
  <2>7. /\ Take(s, line, first).items = s.items /\ Take(s, line, first).text = text
        /\ Take(s, line, first).links = s.links
    BY <1>0, <2>6 DEF ListSet
  <2>8. \A k \in 1..Len(s.items) : s.items[k] \in SoundItems \/ (k = Len(s.items) /\ Begun(s.items[k], text))
    BY <1>0, <2>5 DEF Begun
  <2> QED  BY <1>0, <1>4, <2>4, <2>7, <2>8 DEF SoundLists
<1> QED  BY <1>5, <1>6, <1>7

\* All lines of a list that has no bare item.
LEMMA TakeAllSound ==
  ASSUME NEW text \in Seq(AnyLine), \A k \in 1..Len(text) : ~ Bare(text[k])
  PROVE  TakeAll(text) \in SoundLists
<1>1. PICK n \in Nat : n = Len(text)
  BY SeqFacts
<1>2. PICK w \in [0..n -> ListSet] :
        /\ w[0] = EmptyList /\ w[n] = TakeAll(text)
        /\ \A m \in 1..n : w[m] = Take(w[m - 1], text[m], text[1])
  BY <1>1, TakeAllFolds
<1>3. w[0] \in SoundLists
  <2>1. EmptyList.items = <<>> /\ EmptyList.text = <<>> /\ EmptyList.links = <<>>
    BY DEF EmptyList
  <2>2. <<>> \in Seq(SoundItems) /\ <<>> \in Seq(Plain)
    BY EmptySeq
  <2>3. EmptyList \in Flushed
    BY <2>1, <2>2, EmptyListTyped DEF Flushed
  <2> QED  BY <1>2, <2>3, FlushedSound
<1>4. ASSUME NEW m \in (0 + 1)..n, w[m - 1] \in SoundLists  PROVE w[m] \in SoundLists
  <2>1. m \in 1..n
    OBVIOUS
  <2>2. text[m] \in AnyLine /\ ~ Bare(text[m])
    BY <1>1, <2>1, SeqFacts
  <2>3. Take(w[m - 1], text[m], text[1]) \in SoundLists
    BY <1>4, <2>2, TakeSound
  <2> QED  BY <1>2, <2>1, <2>3
<1>5. 0 \in Nat /\ 0 <= n
  BY <1>1
<1>6. w[n] \in SoundLists
  BY ONLY <1>1, <1>3, <1>4, <1>5, Climbs
<1> QED  BY <1>2, <1>6

\* Spans of paragraphs are at the margin.
Marginal(all, span) == span.kind = "para" => \A k \in span.start..span.end : ~ indented(all[k])

\* Blocks whose paragraphs and links are at the margin, and whose items have a
\* paragraph to start with.
SoundBlocks == {b \in BlockSet : /\ b.kind \in {"para", "links"} => b.text \in Seq(Plain)
                                 /\ b.kind = "list" => b.items \in Seq(SoundItems) /\ b.links \in Seq(Plain)}

\* What Parse makes of lines without bare items.
LEMMA BlockSound ==
  ASSUME NEW all \in Seq(AnyLine), \A k \in 1..Len(all) : ~ Bare(all[k]),
         NEW span, Within(all, span), Marginal(all, span), NEW before \in BOOLEAN
  PROVE  BlockOf(all, span, before) \in SoundBlocks
<1>1. PICK n \in Nat : n = Len(all)
  BY SeqFacts
<1>2. PICK start \in 1..n, end \in Nat : /\ start = span.start /\ end = span.end
                                         /\ start <= end /\ end <= n
  BY <1>1 DEF Within, SpanSet
<1>3. PICK text : text = SubSeq(all, start, end)
  OBVIOUS
<1>4. BlockOf(all, span, before) \in BlockSet
  BY BlockTyped
<1>5. start \in Int /\ end \in Int /\ \A k \in start..end : k \in 1..n
  BY <1>2
<1>6. \A k \in 1..n : all[k] \in AnyLine
  BY <1>1, SeqFacts
<1>7. CASE span.kind = "list"
  <2> DEFINE Loose == {line \in AnyLine : ~ Bare(line)}
  <2>1. \A k \in start..end : all[k] \in Loose
    BY <1>1, <1>5, <1>6
  <2>2. text \in Seq(Loose)
    BY <1>3, <1>5, <2>1, SubSeqProperties
  <2>3. text \in Seq(AnyLine)
    <3>1. \A k \in start..end : all[k] \in AnyLine
      BY <1>5, <1>6
    <3> QED  BY <1>3, <1>5, <3>1, SubSeqProperties
  <2>4. \A k \in 1..Len(text) : ~ Bare(text[k])
    <3>1. \A k \in 1..Len(text) : text[k] \in Loose
      BY <2>2, SeqFacts
    <3> QED  BY <3>1
  <2>5. PICK list \in Flushed : list = Flush(TakeAll(text))
    BY <2>3, <2>4, TakeAllSound, FlushSound
  <2>6. BlockOf(all, span, before) = ListBlock(text, before)
    BY <1>2, <1>3, <1>7 DEF BlockOf
  <2>7. /\ ListBlock(text, before).kind = "list" /\ ListBlock(text, before).items = list.items
        /\ ListBlock(text, before).links = list.links
    BY <2>5 DEF ListBlock
  <2>8. list.items \in Seq(SoundItems) /\ list.links \in Seq(Plain)
    BY <2>5 DEF Flushed
  <2> QED  BY <1>4, <2>6, <2>7, <2>8 DEF SoundBlocks
<1>8. CASE span.kind = "para"
  <2>1. \A k \in start..end : all[k] \in Plain
    BY <1>2, <1>5, <1>6, <1>8 DEF Marginal, Plain
  <2>2. text \in Seq(Plain)
    BY <1>3, <1>5, <2>1, SubSeqProperties
  <2>3. BlockOf(all, span, before) = [kind |-> IF AllLinks(text) THEN "links" ELSE "para", text |-> text]
    BY <1>2, <1>3, <1>8 DEF BlockOf
  <2>4. /\ BlockOf(all, span, before).kind \in {"para", "links"}
        /\ BlockOf(all, span, before).text = text
    BY <2>3
  <2> QED  BY <1>4, <2>2, <2>4 DEF SoundBlocks
<1>9. CASE ~ (span.kind \in {"list", "para"})
  <2>1. BlockOf(all, span, before).kind \in {"code", "heading"}
    <3>1. span.kind \in {"list", "code", "heading", "old heading", "para"}
      BY DEF Within, SpanSet
    <3> QED  BY <1>9, <3>1 DEF BlockOf
  <2> QED  BY <1>4, <2>1 DEF SoundBlocks
<1> QED  BY <1>7, <1>8, <1>9

\* And of all spans.
LEMMA BlocksSound ==
  ASSUME NEW all \in Seq(AnyLine), \A k \in 1..Len(all) : ~ Bare(all[k]),
         NEW list \in Seq(SpanSet),
         \A k \in DOMAIN list : Within(all, list[k]) /\ Marginal(all, list[k])
  PROVE  Blocks(all, list) \in Seq(SoundBlocks)
<1>1. PICK n \in Nat : n = Len(list)
  BY SeqFacts
<1>2. DOMAIN list = 1..n
  BY <1>1, SeqFacts
<1> DEFINE before(k) == k > 1 /\ list[k - 1].end + 1 < list[k].start
<1>3. ASSUME NEW k \in 1..n  PROVE BlockOf(all, list[k], before(k)) \in SoundBlocks
  <2>1. before(k) \in BOOLEAN
    OBVIOUS
  <2> HIDE DEF before
  <2> QED  BY <1>2, <2>1, BlockSound
<1>4. Blocks(all, list) = [k \in 1..n |-> BlockOf(all, list[k], before(k))]
  BY <1>2 DEF Blocks
<1> HIDE DEF before
<1>5. Blocks(all, list) \in [1..n -> SoundBlocks]
  BY <1>3, <1>4
<1> QED  BY <1>5, FunctionIsSeq

------------------------------------------------------------------------------
(* What is printed is quiet: indentation starts after a blank line or at an  *)
(* item, and ends before a blank line                                        *)

\* What may follow a line that says something.
Follows(a, b) ==
  Says(a) /\ Says(b) => /\ indented(a) => indented(b)
                        /\ indented(b) => indented(a) \/ isList(b)

\* No line of a text may set off a heuristic.
Quiet(text) == \A k \in 2..Len(text) : Follows(text[k - 1], text[k])

\* A blank line may follow any line, and any line a blank one.
LEMMA BlankFollows ==
  ASSUME NEW line
  PROVE  Follows(Blank, line) /\ Follows(line, Blank)
  BY BlankTyped DEF Follows, Says

\* A text after another.
LEMMA QuietConcat ==
  ASSUME NEW a \in Seq(AnyLine), NEW b \in Seq(AnyLine), Quiet(a), Quiet(b),
         Len(a) > 0 /\ Len(b) > 0 => Follows(a[Len(a)], b[1])
  PROVE  Quiet(a \o b)
<1>1. PICK n \in Nat : n = Len(a)
  BY SeqFacts
<1>2. PICK m \in Nat : m = Len(b)
  BY SeqFacts
<1>3. PICK all : all = a \o b
  OBVIOUS
<1>4. /\ Len(all) = n + m
      /\ \A k \in 1..(n + m) : all[k] = IF k <= n THEN a[k] ELSE b[k - n]
  BY <1>1, <1>2, <1>3, ConcatProperties
<1>5. ASSUME NEW k \in 2..(n + m)  PROVE Follows(all[k - 1], all[k])
  <2>1. CASE k <= n
    <3>1. k \in 1..(n + m) /\ k - 1 \in 1..(n + m) /\ k - 1 <= n /\ k \in 2..n
      BY <2>1
    <3>2. all[k] = a[k] /\ all[k - 1] = a[k - 1]
      BY <1>4, <2>1, <3>1
    <3> QED  BY <1>1, <3>1, <3>2 DEF Quiet
  <2>2. CASE k = n + 1
    <3>1. /\ n + 1 \in 1..(n + m) /\ n \in 1..(n + m) /\ n <= n /\ ~ (n + 1 <= n)
          /\ n + 1 - 1 = n /\ n + 1 - n = 1 /\ n > 0 /\ m > 0
      BY <2>2
    <3>2. all[n + 1] = b[1] /\ all[n] = a[n]
      BY <1>4, <3>1
    <3>3. Follows(a[n], b[1])
      BY <1>1, <1>2, <3>1
    <3> QED  BY <2>2, <3>1, <3>2, <3>3
  <2>3. CASE ~ (k <= n) /\ k # n + 1
    <3>1. PICK l \in 2..m : /\ l = k - n /\ k - 1 - n = l - 1
                            /\ k \in 1..(n + m) /\ k - 1 \in 1..(n + m) /\ ~ (k - 1 <= n)
      <4>1. /\ k - n \in 2..m /\ k - 1 - n = (k - n) - 1
            /\ k \in 1..(n + m) /\ k - 1 \in 1..(n + m) /\ ~ (k - 1 <= n)
        BY <2>3
      <4> QED  BY <4>1
    <3>2. all[k] = b[l] /\ all[k - 1] = b[l - 1]
      BY <1>4, <2>3, <3>1
    <3> QED  BY <1>2, <3>1, <3>2 DEF Quiet
  <2> QED  BY <2>1, <2>2, <2>3
<1> QED  BY <1>3, <1>4, <1>5 DEF Quiet

\* Lines of which all that say something are indented.
Hanging(text) == \A k \in 1..Len(text) : Says(text[k]) => indented(text[k])

\* They follow each other, and so do lines at the margin.
LEMMA EvenQuiet ==
  ASSUME NEW text \in Seq(AnyLine), Hanging(text) \/ \A k \in 1..Len(text) : ~ indented(text[k])
  PROVE  Quiet(text)
<1>1. PICK n \in Nat : n = Len(text)
  BY SeqFacts
<1>2. ASSUME NEW k \in 2..n  PROVE Follows(text[k - 1], text[k])
  <2>1. k \in 1..n /\ k - 1 \in 1..n
    OBVIOUS
  <2> QED  BY <1>1, <2>1 DEF Hanging, Follows
<1> QED  BY <1>1, <1>2 DEF Quiet

\* Lines at the margin are quiet.
LEMMA PlainQuiet ==
  ASSUME NEW text \in Seq(Plain)
  PROVE  text \in Seq(AnyLine) /\ Quiet(text)
<1>1. PICK n \in Nat : n = Len(text)
  BY SeqFacts
<1>2. \A k \in 1..n : text[k] \in AnyLine /\ ~ indented(text[k])
  <2>1. \A k \in 1..n : text[k] \in Plain
    BY <1>1, SeqFacts
  <2> QED  BY <2>1 DEF Plain
<1>3. text \in Seq(AnyLine)
  <2>1. text \in [1..n -> Plain]
    BY <1>1, LenProperties
  <2>2. text \in [1..n -> AnyLine]
    BY <1>2, <2>1
  <2> QED  BY <2>2, FunctionIsSeq
<1> QED  BY <1>1, <1>2, <1>3, EvenQuiet

\* A line alone.
LEMMA SingleQuiet ==
  ASSUME NEW line \in AnyLine
  PROVE  <<line>> \in Seq(AnyLine) /\ Quiet(<<line>>)
<1>1. PICK text \in Seq(AnyLine) : text = <<line>> /\ Len(text) = 1
  BY SingleTyped
<1>2. \A k \in 2..1 : FALSE
  OBVIOUS
<1> QED  BY <1>1, <1>2 DEF Quiet

\* What is printed is quiet, and if it is rested anything may be printed next.
CalmOuts == {out \in Outs : ~ out.open /\ Quiet(out.text)}
RestedOuts == {out \in CalmOuts : Len(out.text) > 0 => out.text[Len(out.text)] = Blank}

\* Printing lines that may follow.
LEMMA WriteQuiet ==
  ASSUME NEW out \in CalmOuts, NEW text \in Seq(AnyLine), Quiet(text),
         Len(out.text) > 0 /\ Len(text) > 0 => Follows(out.text[Len(out.text)], text[1])
  PROVE  Write(out, text) \in CalmOuts
<1>1. out \in Outs /\ ~ out.open /\ Quiet(out.text) /\ out.text \in Seq(AnyLine)
  BY DEF CalmOuts, Outs
<1>2. CASE text = <<>>
  BY <1>2 DEF Write
<1>3. CASE text # <<>>
  <2>1. PICK all : all = out.text \o text
    OBVIOUS
  <2>2. Quiet(all)
    BY <1>1, <2>1, QuietConcat
  <2>3. Write(out, text) = [out EXCEPT !.text = all]
    BY <1>1, <1>3, <2>1 DEF Write
  <2>4. Write(out, text) \in Outs /\ ~ Write(out, text).open
    BY <1>1, <1>3, WriteTyped
  <2>5. Write(out, text).text = all
    BY <1>1, <2>3 DEF Outs
  <2> QED  BY <2>2, <2>4, <2>5 DEF CalmOuts
<1> QED  BY <1>2, <1>3

\* Whatever is printed after nothing or after a blank line.
LEMMA WriteRested ==
  ASSUME NEW out \in RestedOuts, NEW text \in Seq(AnyLine), Quiet(text)
  PROVE  Write(out, text) \in CalmOuts
<1>1. out \in CalmOuts /\ (Len(out.text) > 0 => out.text[Len(out.text)] = Blank)
  BY DEF RestedOuts
<1>2. Len(out.text) > 0 /\ Len(text) > 0 => Follows(out.text[Len(out.text)], text[1])
  BY <1>1, BlankFollows
<1> QED  BY <1>1, <1>2, WriteQuiet

\* A blank line.
LEMMA WriteRests ==
  ASSUME NEW out \in CalmOuts
  PROVE  Write(out, <<Blank>>) \in RestedOuts
<1>1. PICK one \in Seq(AnyLine) : one = <<Blank>> /\ Len(one) = 1 /\ one[1] = Blank /\ Quiet(one)
  BY BlankTyped, SingleTyped, SingleQuiet
<1>2. Write(out, one) \in CalmOuts
  BY <1>1, BlankFollows, WriteQuiet
<1>3. out \in Outs /\ ~ out.open /\ out.text \in Seq(AnyLine)
  BY DEF CalmOuts, Outs
<1>4. PICK n \in Nat : n = Len(out.text)
  BY <1>3, SeqFacts
<1>5. PICK all : all = out.text \o one
  OBVIOUS
<1>6. Len(all) = n + 1 /\ \A k \in 1..(n + 1) : all[k] = IF k <= n THEN out.text[k] ELSE one[k - n]
  BY <1>1, <1>3, <1>4, <1>5, ConcatProperties
<1>7. n + 1 \in 1..(n + 1) /\ ~ (n + 1 <= n) /\ n + 1 - n = 1
  BY <1>4
<1>8. all[n + 1] = Blank
  BY <1>1, <1>6, <1>7
<1>9. one # <<>>
  BY <1>1, EmptySeq
<1>10. Write(out, one) = [out EXCEPT !.text = all]
  BY <1>3, <1>5, <1>9 DEF Write
<1>11. Write(out, one).text = all
  BY <1>3, <1>10 DEF Outs
<1> QED  BY <1>1, <1>2, <1>6, <1>8, <1>11 DEF RestedOuts

\* Four spaces before each line of a paragraph of an item.
LEMMA HangQuiet ==
  ASSUME NEW text \in Seq(AnyLine)
  PROVE  /\ Hang(text) \in Seq(AnyLine) /\ Len(Hang(text)) = Len(text)
         /\ \A k \in 1..Len(text) : indented(Hang(text)[k]) /\ Hang(text)[k].words = text[k].words
         /\ Quiet(Hang(text))
<1>1. PICK n \in Nat : n = Len(text)
  BY SeqFacts
<1>2. DOMAIN text = 1..n
  BY <1>1, SeqFacts
<1>3. PICK all \in Seq(AnyLine) : all = Hang(text)
  BY HangTyped
<1>4. all = [k \in 1..n |-> Line(Space(4), text[k].words)]
  BY <1>2, <1>3 DEF Hang
<1>5. Len(all) = n
  BY <1>1, <1>3, <1>4, LenProperties
<1>6. Space(4) # <<>>
  <2>1. Space(4) = [k \in 1..4 |-> " "] /\ DOMAIN <<>> = {} /\ 1 \in 1..4
    BY EmptySeq DEF Space
  <2> QED  BY <2>1
<1>7. \A k \in 1..n : indented(all[k]) /\ all[k].words = text[k].words
  BY <1>4, <1>6 DEF Line, indented
<1>8. Hanging(all)
  BY <1>5, <1>7 DEF Hanging
<1>9. Quiet(all)
  BY <1>3, <1>8, EvenQuiet
<1> QED  BY <1>1, <1>3, <1>5, <1>7, <1>9

\* The marker of an item is one when it is printed.
LEMMA MarkerFound ==
  ASSUME NEW item \in SoundItems
  PROVE  /\ Marker(item) \in AnyLine /\ indented(Marker(item))
         /\ Len(Marker(item).words) = 1 /\ Marker(item).words[1] \in Bullets \union Numbers
<1>1. item.marker \in Word /\ item.marker \in Bullets \union Numbers
  BY DEF SoundItems, ItemSet
<1>2. "-" \in Word /\ "-" \in Bullets
  BY DEF Word, Bullets
<1>3. /\ <<"-">> \in Seq(Word) /\ Len(<<"-">>) = 1 /\ <<"-">>[1] = "-"
      /\ <<item.marker>> \in Seq(Word) /\ Len(<<item.marker>>) = 1 /\ <<item.marker>>[1] = item.marker
  BY <1>1, <1>2, SingleTyped
<1>4. ASSUME NEW n \in {1, 2}  PROVE Space(n) \in Seq({" ", "\t"}) /\ Space(n) # <<>>
  <2>1. n \in Nat /\ 1 \in 1..n
    OBVIOUS
  <2>2. Space(n) = [k \in 1..n |-> " "] /\ DOMAIN <<>> = {}
    BY EmptySeq DEF Space
  <2> QED  BY <2>1, <2>2, SpaceTyped
<1>5. ASSUME NEW n \in {1, 2}, NEW words \in Seq(Word)
      PROVE  /\ Line(Space(n), words) \in AnyLine /\ indented(Line(Space(n), words))
             /\ Line(Space(n), words).words = words
  <2>1. PICK lead \in Seq({" ", "\t"}) : lead = Space(n) /\ lead # <<>>
    BY <1>4
  <2>2. Line(lead, words) \in AnyLine /\ Line(lead, words).lead = lead /\ Line(lead, words).words = words
    BY LineTyped
  <2> QED  BY <2>1, <2>2 DEF indented
<1>6. CASE item.marker \in Bullets
  <2>1. Marker(item) = Line(Space(2), <<"-">>)
    BY <1>6 DEF Marker
  <2> QED  BY <1>2, <1>3, <1>5, <2>1
<1>7. CASE ~ (item.marker \in Bullets)
  <2>1. Marker(item) = Line(Space(1), <<item.marker>>)
    BY <1>7 DEF Marker
  <2> QED  BY <1>1, <1>3, <1>5, <2>1
<1> QED  BY <1>6, <1>7

\* The first line of an item reads as one.
LEMMA JoinedIsList ==
  ASSUME NEW last \in AnyLine, indented(last), Len(last.words) = 1,
         last.words[1] \in Bullets \union Numbers,
         NEW words \in Seq(Word), words # <<>>
  PROVE  LET joined == [last EXCEPT !.words = @ \o words]
         IN joined \in AnyLine /\ indented(joined) /\ isList(joined)
<1>1. last.words \in Seq(Word) /\ last.lead # <<>>
  BY FieldsTyped DEF indented
<1>2. PICK m \in Nat : m = Len(words) /\ m > 0
  <2>1. Len(words) \in Nat \ {0}
    BY EmptySeq, SeqFacts
  <2>2. \A x \in Nat \ {0} : x > 0
    OBVIOUS
  <2> QED  BY <2>1, <2>2
<1>3. PICK new \in Seq(Word) :
        /\ new = last.words \o words /\ Len(new) = 1 + m
        /\ \A k \in 1..(1 + m) : new[k] = IF k <= 1 THEN last.words[k] ELSE words[k - 1]
  <2>1. PICK old \in Seq(Word) : old = last.words /\ Len(old) = 1
    BY <1>1
  <2>2. /\ old \o words \in Seq(Word) /\ Len(old \o words) = Len(old) + Len(words)
        /\ \A k \in 1..(Len(old) + Len(words)) :
             (old \o words)[k] = IF k <= Len(old) THEN old[k] ELSE words[k - Len(old)]
    BY ONLY <2>1, ConcatProperties
  <2>3. Len(old) = 1 /\ Len(words) = m
    BY <1>2, <2>1
  <2>4. PICK new : new = old \o words
    OBVIOUS
  <2>5. /\ new \in Seq(Word) /\ Len(new) = 1 + m
        /\ \A k \in 1..(1 + m) : new[k] = IF k <= 1 THEN old[k] ELSE words[k - 1]
    BY ONLY <2>2, <2>3, <2>4
  <2> QED  BY ONLY <2>1, <2>4, <2>5
<1>4. Len(new) > 1 /\ new[1] = last.words[1]
  <2>1. 1 \in 1..(1 + m) /\ 1 <= 1 /\ 1 + m > 1
    BY <1>2
  <2> QED  BY <1>3, <2>1
<1>5. PICK joined : joined = [last EXCEPT !.words = new]
  OBVIOUS
<1>6. joined \in AnyLine /\ joined.words = new /\ joined.lead = last.lead
  BY <1>3, <1>5 DEF AnyLine
<1> QED  BY <1>1, <1>3, <1>4, <1>5, <1>6 DEF indented, isList

\* Without the last line there is what was before it.
LEMMA FrontOfConcat ==
  ASSUME NEW text \in Seq(AnyLine), NEW line \in AnyLine
  PROVE  /\ text \o <<line>> \in Seq(AnyLine)
         /\ Front(text \o <<line>>) = text /\ Last(text \o <<line>>) = line
<1>1. PICK n \in Nat : n = Len(text)
  BY SeqFacts
<1>2. PICK one \in Seq(AnyLine) : one = <<line>> /\ Len(one) = 1 /\ one[1] = line
  BY SingleTyped
<1>3. PICK all : all = text \o one
  OBVIOUS
<1>4. /\ all \in Seq(AnyLine) /\ Len(all) = n + 1
      /\ \A k \in 1..(n + 1) : all[k] = IF k <= n THEN text[k] ELSE one[k - n]
  BY <1>1, <1>2, <1>3, ConcatProperties
<1>5. n + 1 \in 1..(n + 1) /\ ~ (n + 1 <= n) /\ n + 1 - n = 1 /\ n + 1 - 1 = n
  BY <1>1
<1>6. Last(all) = line
  BY <1>2, <1>4, <1>5 DEF Last
<1>7. \A k \in 1..n : k \in 1..(n + 1) /\ k <= n
  BY <1>1
<1>8. Front(all) = text
  <2>1. PICK front : front = SubSeq(all, 1, n)
    OBVIOUS
  <2>2. \A k \in 1..n : all[k] \in AnyLine
    BY <1>4, <1>7, SeqFacts
  <2>3. 1 \in Int /\ n \in Int
    BY <1>1
  <2>4. /\ front \in Seq(AnyLine)
        /\ Len(front) = IF 1 <= n THEN n - 1 + 1 ELSE 0
        /\ \A k \in 1..(n - 1 + 1) : front[k] = all[1 + k - 1]
    BY <2>1, <2>2, <2>3, SubSeqProperties
  <2>5. /\ (IF 1 <= n THEN n - 1 + 1 ELSE 0) = n /\ n - 1 + 1 = n
        /\ \A k \in 1..n : 1 + k - 1 = k
    BY <1>1
  <2>6. Len(front) = n /\ \A k \in 1..n : front[k] = text[k]
    BY <1>4, <1>7, <2>4, <2>5
  <2>7. front = text
    BY <1>1, <2>4, <2>6, SeqEqual
  <2> QED  BY <1>4, <1>5, <2>1, <2>7 DEF Front
<1> QED  BY <1>2, <1>3, <1>4, <1>6, <1>8

\* What follows the first of hanging lines.
LEMMA TailQuiet ==
  ASSUME NEW text \in Seq(AnyLine), text # <<>>, Hanging(text)
  PROVE  /\ Tail(text) \in Seq(AnyLine) /\ Quiet(Tail(text))
         /\ \A k \in 1..Len(Tail(text)) : Says(Tail(text)[k]) => indented(Tail(text)[k])
<1>1. PICK n \in Nat : n = Len(text)
  BY SeqFacts
<1>2. PICK rest : rest = Tail(text)
  OBVIOUS
<1>3. rest \in Seq(AnyLine) /\ Len(rest) = n - 1 /\ \A k \in 1..(n - 1) : rest[k] = text[k + 1]
  BY <1>1, <1>2, HeadTailProperties
<1>4. \A k \in 1..(n - 1) : k + 1 \in 1..n
  BY <1>1
<1>5. \A k \in 1..Len(rest) : Says(rest[k]) => indented(rest[k])
  BY <1>1, <1>3, <1>4 DEF Hanging
<1>6. Quiet(rest)
  BY <1>3, <1>5, EvenQuiet DEF Hanging
<1> QED  BY <1>2, <1>3, <1>5, <1>6

\* The marker of an item and the first paragraph after it: an item may follow
\* any line, and the lines after its first are indented as it is.
LEMMA MarkedQuiet ==
  ASSUME NEW out \in CalmOuts, NEW item \in SoundItems
  PROVE  Para(Marked(out, item), item.paras, 1) \in CalmOuts
<1>1. out \in Outs /\ ~ out.open /\ Quiet(out.text) /\ out.text \in Seq(AnyLine)
  BY DEF CalmOuts, Outs
<1>2. PICK marker \in AnyLine :
        /\ marker = Marker(item) /\ indented(marker)
        /\ Len(marker.words) = 1 /\ marker.words[1] \in Bullets \union Numbers
  BY MarkerFound
<1>3. PICK open \in Seq(AnyLine) : open = out.text \o <<marker>> /\ Front(open) = out.text /\ Last(open) = marker
  BY <1>1, FrontOfConcat
<1>4. open # <<>>
  <2>1. <<marker>> \in Seq(AnyLine) /\ <<marker>> # <<>>
    BY SingleTyped, EmptySeq
  <2> QED  BY <1>1, <1>3, <2>1, ConcatEqualIffEmpty
<1>5. Marked(out, item) \in Outs /\ Marked(out, item).open /\ Marked(out, item).text = open
  <2>1. <<marker>> # <<>>
    BY EmptySeq
  <2>2. Write(out, <<marker>>) = [out EXCEPT !.text = open]
    BY <1>1, <1>3, <2>1 DEF Write
  <2>3. Marked(out, item) = [[out EXCEPT !.text = open] EXCEPT !.open = TRUE]
    BY <1>2, <2>2 DEF Marked
  <2> QED  BY <1>1, <1>3, <1>4, <2>3 DEF Outs
<1>6. PICK text \in Seq(AnyLine) : text = item.paras[1] /\ text # <<>> /\ Says(text[1])
  <2>1. item.paras \in Seq(Seq(AnyLine)) /\ item.paras # <<>>
    BY DEF SoundItems, ItemSet
  <2>2. Len(item.paras) \in Nat \ {0}
    BY <2>1, EmptySeq, SeqFacts
  <2>3. 1 \in 1..Len(item.paras)
    BY <2>2
  <2>4. item.paras[1] \in Seq(AnyLine)
    BY <2>1, <2>3, SeqFacts
  <2> QED  BY <2>4 DEF SoundItems
<1>7. PICK n \in Nat : n = Len(text) /\ 1 \in 1..n /\ n # 0
  <2>1. Len(text) \in Nat \ {0}
    BY <1>6, EmptySeq, SeqFacts
  <2> QED  BY <2>1
<1>8. PICK hang \in Seq(AnyLine) :
        /\ hang = Hang(text) /\ Len(hang) = n
        /\ \A k \in 1..n : indented(hang[k]) /\ hang[k].words = text[k].words
  BY <1>7, HangQuiet
<1>9. hang # <<>> /\ Hanging(hang)
  BY <1>7, <1>8, EmptySeq DEF Hanging
<1>10. PICK words \in Seq(Word) : words = hang[1].words /\ words # <<>>
  <2>1. text[1] \in AnyLine
    BY <1>7, SeqFacts
  <2>2. text[1].words \in Seq(Word)
    BY <2>1, FieldsTyped
  <2>3. hang[1].words = text[1].words
    BY <1>7, <1>8
  <2> QED  BY <1>6, <2>2, <2>3 DEF Says
<1>11. PICK joined \in AnyLine : /\ joined = [marker EXCEPT !.words = @ \o words]
                                 /\ indented(joined) /\ isList(joined)
  BY <1>2, <1>10, JoinedIsList
<1>12. PICK above \in Seq(AnyLine) : above = out.text \o <<joined>> /\ Quiet(above)
  <2>1. <<joined>> \in Seq(AnyLine) /\ Len(<<joined>>) = 1 /\ <<joined>>[1] = joined /\ Quiet(<<joined>>)
    BY SingleTyped, SingleQuiet
  <2>2. \A line : Follows(line, joined)
    BY <1>11 DEF Follows
  <2>3. Quiet(out.text \o <<joined>>)
    BY <1>1, <2>1, <2>2, QuietConcat
  <2> QED  BY <1>1, <2>3, FrontOfConcat
<1>13. Last(above) = joined
  BY <1>1, <1>12, FrontOfConcat
<1>14. PICK rest \in Seq(AnyLine) : /\ rest = Tail(hang) /\ Quiet(rest)
                                    /\ \A k \in 1..Len(rest) : Says(rest[k]) => indented(rest[k])
  BY <1>9, TailQuiet
<1>15. Len(above) > 0 /\ Len(rest) > 0 => Follows(above[Len(above)], rest[1])
  <2> SUFFICES ASSUME Len(rest) > 0  PROVE Follows(above[Len(above)], rest[1])
    OBVIOUS
  <2>1. above[Len(above)] = joined
    BY <1>13 DEF Last
  <2>2. Len(rest) \in Nat
    BY SeqFacts
  <2>3. 1 \in 1..Len(rest)
    BY <2>2
  <2>4. Says(rest[1]) => indented(rest[1])
    BY <1>14, <2>3
  <2> QED  BY <1>11, <2>1, <2>4 DEF Follows
<1>16. PICK all : all = above \o rest /\ Quiet(all)
  BY <1>12, <1>14, <1>15, QuietConcat
<1>17. Para(Marked(out, item), item.paras, 1) = Write(Marked(out, item), hang)
  BY <1>6, <1>8 DEF Para
<1>18. Write(Marked(out, item), hang) = [text |-> all, open |-> FALSE]
  <2>1. Write(Marked(out, item), hang) =
          [text |-> Front(open) \o <<[Last(open) EXCEPT !.words = @ \o hang[1].words]>> \o Tail(hang), open |-> FALSE]
    BY <1>5, <1>9 DEF Write
  <2> QED  BY <1>3, <1>10, <1>11, <1>12, <1>14, <1>16, <2>1
<1>19. Write(Marked(out, item), hang) \in Outs
  BY <1>5, WriteTyped
<1>20. Write(Marked(out, item), hang).text = all /\ ~ Write(Marked(out, item), hang).open
  BY ONLY <1>18
<1> QED  BY <1>16, <1>17, <1>19, <1>20 DEF CalmOuts

\* An item.
LEMMA ItemQuiet ==
  ASSUME NEW out \in CalmOuts, NEW item \in SoundItems
  PROVE  ItemLines(out, item) \in CalmOuts
<1>1. out \in Outs /\ item \in ItemSet
  BY DEF CalmOuts, SoundItems
<1>2. PICK paras \in Seq(Seq(AnyLine)) : paras = item.paras
  BY <1>1 DEF ItemSet
<1>3. PICK n \in Nat : n = Len(paras) /\ 1 <= n
  <2>1. paras # <<>>
    BY <1>2 DEF SoundItems
  <2>2. Len(paras) \in Nat \ {0}
    BY <2>1, EmptySeq, SeqFacts
  <2>3. \A x \in Nat \ {0} : 1 <= x
    OBVIOUS
  <2> QED  BY <2>2, <2>3
<1>4. PICK w \in [0..n -> Outs] :
        /\ w[0] = Marked(out, item) /\ w[n] = ItemLines(out, item)
        /\ \A m \in 1..n : w[m] = Para(w[m - 1], paras, m)
  BY <1>1, <1>2, <1>3, ItemLinesFolds
<1>5. w[1] \in CalmOuts
  <2>1. 1 \in 1..n /\ 1 - 1 = 0
    BY <1>3
  <2>2. w[1] = Para(Marked(out, item), item.paras, 1)
    BY <1>2, <1>4, <2>1
  <2> QED  BY <2>2, MarkedQuiet
<1>6. ASSUME NEW m \in (1 + 1)..n, w[m - 1] \in CalmOuts  PROVE w[m] \in CalmOuts
  <2>1. m \in 1..n /\ m # 1
    OBVIOUS
  <2>2. PICK text \in Seq(AnyLine) : text = Hang(paras[m]) /\ Quiet(text)
    <3>1. paras[m] \in Seq(AnyLine)
      BY <1>3, <2>1, SeqFacts
    <3> QED  BY <3>1, HangQuiet
  <2>3. w[m] = Write(Write(w[m - 1], <<Blank>>), text)
    BY <1>4, <2>1, <2>2 DEF Para
  <2>4. Write(w[m - 1], <<Blank>>) \in RestedOuts
    BY <1>6, WriteRests
  <2> QED  BY <2>2, <2>3, <2>4, WriteRested
<1>7. 1 \in Nat
  OBVIOUS
<1>8. w[n] \in CalmOuts
  BY ONLY <1>3, <1>5, <1>6, <1>7, Climbs
<1> QED  BY <1>4, <1>8

\* A list, whether a blank line is before it or not.
LEMMA ListQuiet ==
  ASSUME NEW out \in CalmOuts, NEW b \in Lists, b.items \in Seq(SoundItems)
  PROVE  BlockLines(out, b) \in CalmOuts
<1>1. out \in Outs
  BY DEF CalmOuts
<1>2. PICK n \in Nat : n = Len(b.items)
  BY SeqFacts
<1>3. PICK w \in [0..n -> Outs] :
        /\ w[0] = out /\ w[n] = BlockLines(out, b)
        /\ \A m \in 1..n : w[m] = Item(w[m - 1], b, m)
  BY <1>1, <1>2, ListLinesFolds
<1>4. w[0] \in CalmOuts
  BY <1>3
<1>5. ASSUME NEW m \in (0 + 1)..n, w[m - 1] \in CalmOuts  PROVE w[m] \in CalmOuts
  <2>1. m \in 1..n
    OBVIOUS
  <2>2. PICK o \in CalmOuts : o = IF m > 1 /\ b.loose THEN Write(w[m - 1], <<Blank>>) ELSE w[m - 1]
    BY <1>5, WriteRests DEF RestedOuts
  <2>3. b.items[m] \in SoundItems
    BY <1>2, <2>1, SeqFacts
  <2>4. w[m] = ItemLines(o, b.items[m])
    BY <1>3, <2>1, <2>2 DEF Item
  <2> QED  BY <2>2, <2>3, <2>4, ItemQuiet
<1>6. 0 \in Nat /\ 0 <= n
  BY <1>2
<1>7. w[n] \in CalmOuts
  BY ONLY <1>2, <1>4, <1>5, <1>6, Climbs
<1> QED  BY <1>3, <1>7

\* A block, after a blank line if it is no list (print.go:118-247).
LEMMA BlockQuiet ==
  ASSUME NEW out \in CalmOuts, NEW b \in SoundBlocks, b.kind # "links",
         out \in RestedOuts \/ b.kind = "list"
  PROVE  BlockLines(out, b) \in CalmOuts
<1>1. b \in BlockSet
  BY DEF SoundBlocks
<1>2. CASE b \in Lists
  <2>1. b.kind = "list"
    BY <1>2 DEF Lists
  <2>2. b.items \in Seq(SoundItems)
    BY <2>1 DEF SoundBlocks
  <2> QED  BY <1>2, <2>2, ListQuiet
<1>3. CASE b \in Titles
  <2>1. b.kind = "heading" /\ b.text \in Seq(AnyLine) /\ b.text # <<>>
    BY <1>3 DEF Titles
  <2>2. b.text[1] \in AnyLine
    <3>1. Len(b.text) \in Nat \ {0}
      BY <2>1, EmptySeq
    <3>2. 1 \in 1..Len(b.text)
      BY <3>1
    <3> QED  BY <2>1, <3>2, SeqFacts
  <2>3. PICK words \in Seq(Word) : words = <<"#">> \o b.text[1].words
    <3>1. "#" \in Word /\ b.text[1].words \in Seq(Word)
      BY <2>2, FieldsTyped DEF Word
    <3> QED  BY <3>1, ConsTyped
  <2>4. Line(<<>>, words) \in AnyLine
    BY <2>3, PlainLine DEF Plain
  <2>5. BlockLines(out, b) = Write(out, <<Line(<<>>, words)>>)
    BY <2>1, <2>3 DEF BlockLines
  <2>6. out \in RestedOuts
    BY <2>1
  <2>7. <<Line(<<>>, words)>> \in Seq(AnyLine) /\ Quiet(<<Line(<<>>, words)>>)
    BY <2>4, SingleQuiet
  <2> QED  BY <2>5, <2>6, <2>7, WriteRested
<1>4. CASE b \in Texts
  <2>1. b.kind \in {"para", "code"} /\ b.text \in Seq(AnyLine)
    BY <1>4 DEF Texts
  <2>2. out \in RestedOuts
    BY <2>1
  <2>3. CASE b.kind = "para"
    <3>1. BlockLines(out, b) = Write(out, b.text)
      BY <2>3 DEF BlockLines
    <3>2. b.text \in Seq(Plain)
      BY <2>3 DEF SoundBlocks
    <3>3. Quiet(b.text)
      BY <3>2, PlainQuiet
    <3> QED  BY <2>1, <2>2, <3>1, <3>3, WriteRested
  <2>4. CASE b.kind = "code"
    <3>1. PICK n \in Nat : n = Len(b.text)
      BY <2>1, SeqFacts
    <3>2. DOMAIN b.text = 1..n /\ \A k \in 1..n : b.text[k] \in AnyLine
      BY <2>1, <3>1, SeqFacts
    <3> DEFINE Tabbed(line) == IF line = Blank THEN Blank ELSE [line EXCEPT !.lead = <<"\t">> \o @]
               all == [k \in DOMAIN b.text |-> Tabbed(b.text[k])]
    <3>3. ASSUME NEW line \in AnyLine
          PROVE  Tabbed(line) \in AnyLine /\ (Says(Tabbed(line)) => indented(Tabbed(line)))
      <4>1. PICK lead \in Seq({" ", "\t"}) : lead = <<"\t">> \o line.lead /\ lead # <<>>
        <5>1. "\t" \in {" ", "\t"} /\ line.lead \in Seq({" ", "\t"})
          BY FieldsTyped
        <5> QED  BY <5>1, ConsTyped
      <4>2. [line EXCEPT !.lead = lead] \in AnyLine /\ [line EXCEPT !.lead = lead].lead = lead
        BY <4>1 DEF AnyLine
      <4> QED  BY <4>1, <4>2, BlankTyped DEF Says, indented
    <3>4. BlockLines(out, b) = Write(out, all)
      BY <2>4 DEF BlockLines
    <3> HIDE DEF Tabbed
    <3>5. all \in [1..n -> AnyLine] /\ \A k \in 1..n : Says(all[k]) => indented(all[k])
      BY <3>2, <3>3
    <3> HIDE DEF all
    <3>6. all \in Seq(AnyLine) /\ Len(all) = n
      BY <3>1, <3>5, FunctionIsSeq
    <3>7. Quiet(all)
      BY <3>5, <3>6, EvenQuiet DEF Hanging
    <3> QED  BY <2>2, <3>4, <3>6, <3>7, WriteRested
  <2> QED  BY <2>1, <2>3, <2>4
<1> QED  BY <1>1, <1>2, <1>3, <1>4 DEF BlockSet

\* One more block: a blank line is before all that are no lists.
LEMMA AddQuiet ==
  ASSUME NEW out \in CalmOuts, NEW content \in Seq(SoundBlocks), NEW k \in 1..Len(content),
         content[k].kind # "links", k = 1 => out \in RestedOuts
  PROVE  Add(out, content, k) \in CalmOuts
<1>1. content[k] \in SoundBlocks
  BY SeqFacts
<1>2. PICK b \in SoundBlocks : b = content[k] /\ b.kind # "links"
  BY <1>1
<1>3. CASE k > 1 /\ blankBefore(b)
  <2>1. Write(out, <<Blank>>) \in RestedOuts /\ Write(out, <<Blank>>) \in CalmOuts
    BY WriteRests DEF RestedOuts
  <2>2. Add(out, content, k) = BlockLines(Write(out, <<Blank>>), b)
    BY <1>2, <1>3 DEF Add
  <2> QED  BY <1>2, <2>1, <2>2, BlockQuiet
<1>4. CASE ~ (k > 1 /\ blankBefore(b))
  <2>1. Add(out, content, k) = BlockLines(out, b)
    BY <1>2, <1>4 DEF Add
  <2>2. out \in RestedOuts \/ b.kind = "list"
    <3>1. CASE k > 1
      BY <1>4, <3>1 DEF blankBefore
    <3>2. CASE ~ (k > 1)
      <4>1. PICK n \in Nat : n = Len(content)
        BY SeqFacts
      <4>2. k = 1
        BY <3>2, <4>1
      <4> QED  BY <4>2
    <3> QED  BY <3>1, <3>2
  <2> QED  BY <1>2, <2>1, <2>2, BlockQuiet
<1> QED  BY <1>3, <1>4

\* The blocks but those of links.
LEMMA BodyQuiet ==
  ASSUME NEW content \in Seq(SoundBlocks), \A k \in 1..Len(content) : content[k].kind # "links"
  PROVE  FoldLeftDomain(LAMBDA o, k : Add(o, content, k), [text |-> <<>>, open |-> FALSE], content) \in CalmOuts
<1>1. PICK n \in Nat : n = Len(content)
  BY SeqFacts
<1>2. content \in Seq(BlockSet)
  <2>1. content \in [1..n -> SoundBlocks]
    BY <1>1, LenProperties
  <2>2. content \in [1..n -> BlockSet]
    BY <2>1 DEF SoundBlocks
  <2> QED  BY <2>2, FunctionIsSeq
<1> DEFINE all == FoldLeftDomain(LAMBDA o, k : Add(o, content, k), [text |-> <<>>, open |-> FALSE], content)
<1>3. PICK w \in [0..n -> Outs] :
        /\ w[0] = [text |-> <<>>, open |-> FALSE] /\ w[n] = all
        /\ \A m \in 1..n : w[m] = Add(w[m - 1], content, m)
  BY <1>1, <1>2, BodyFolds
<1> HIDE DEF all
<1>4. w[0] \in RestedOuts /\ w[0] \in CalmOuts
  <2>1. Len(<<>>) = 0 /\ \A k \in 2..0 : FALSE
    BY EmptySeq
  <2>2. w[0].text = <<>> /\ w[0].open = FALSE /\ w[0] \in Outs
    BY <1>3, NothingTyped
  <2>3. Quiet(w[0].text)
    BY <2>1, <2>2 DEF Quiet
  <2> QED  BY <2>1, <2>2, <2>3 DEF RestedOuts, CalmOuts
<1>5. ASSUME NEW m \in (0 + 1)..n, w[m - 1] \in CalmOuts  PROVE w[m] \in CalmOuts
  <2>1. m \in 1..n /\ (m = 1 => m - 1 = 0)
    OBVIOUS
  <2>2. Add(w[m - 1], content, m) \in CalmOuts
    BY <1>1, <1>4, <1>5, <2>1, AddQuiet
  <2> QED  BY <1>3, <2>1, <2>2
<1>6. 0 \in Nat /\ 0 <= n
  BY <1>1
<1>7. w[n] \in CalmOuts
  BY ONLY <1>1, <1>4, <1>5, <1>6, Climbs
<1> QED  BY <1>3, <1>7 DEF all

\* Sound blocks are printed as a quiet text, and so are the links after them
\* (print.go:180-206).
LEMMA CommentQuiet ==
  ASSUME NEW blocks \in Seq(SoundBlocks)
  PROVE  Quiet(Comment(blocks))
<1> DEFINE said == {k \in DOMAIN blocks : blocks[k].kind # "links"}
           content == Select(blocks, said)
           links == FlattenSeq([k \in DOMAIN blocks |-> LinksOf(blocks[k])])
           used == \E k \in DOMAIN content : Used(UsedIn(content[k]))
           uses == IF used /\ links # <<>> THEN 1 ELSE 0
           Section(out, text) == IF text = <<>> THEN out ELSE Write(Write(out, <<Blank>>), text)
           body == FoldLeftDomain(LAMBDA o, k : Add(o, content, k), [text |-> <<>>, open |-> FALSE], content)
           first == SubSeq(links, 1, uses)
           rest == SubSeq(links, uses + 1, Len(links))
<1>1. Comment(blocks) = Section(Section(body, first), rest).text
  BY DEF Comment
<1>2. body \in CalmOuts
  <2>1. said \subseteq DOMAIN blocks
    OBVIOUS
  <2> HIDE DEF said
  <2>2. /\ content \in Seq(SoundBlocks) /\ Len(content) = Cardinality(said)
        /\ \A k \in 1..Cardinality(said) : \E m \in said : content[k] = blocks[m]
    BY <2>1, SelectTyped
  <2>3. \A m \in said : blocks[m].kind # "links"
    BY DEF said
  <2> HIDE DEF content
  <2>4. \A k \in 1..Len(content) : content[k].kind # "links"
    BY <2>2, <2>3
  <2> QED  BY <2>2, <2>4, BodyQuiet
<1> HIDE DEF body
<1>3. links \in Seq(Plain)
  <2>1. PICK n \in Nat : n = Len(blocks)
    BY SeqFacts
  <2>2. DOMAIN blocks = 1..n /\ \A k \in 1..n : blocks[k] \in SoundBlocks
    BY <2>1, SeqFacts
  <2>3. ASSUME NEW b \in SoundBlocks  PROVE LinksOf(b) \in Seq(Plain)
    <3>1. <<>> \in Seq(Plain)
      BY EmptySeq
    <3>2. CASE b.kind = "list"
      BY <3>2 DEF SoundBlocks, LinksOf
    <3>3. CASE b.kind = "links"
      BY <3>3 DEF SoundBlocks, LinksOf
    <3>4. CASE b.kind # "list" /\ b.kind # "links"
      BY <3>1, <3>4 DEF LinksOf
    <3> QED  BY <3>2, <3>3, <3>4
  <2> DEFINE all == [k \in DOMAIN blocks |-> LinksOf(blocks[k])]
  <2>4. all \in [1..n -> Seq(Plain)]
    BY <2>2, <2>3
  <2> HIDE DEF all
  <2>5. all \in Seq(Seq(Plain))
    BY <2>1, <2>4, FunctionIsSeq
  <2>6. FlattenSeq(all) \in Seq(Plain)
    BY <2>5, FlattenTyped
  <2> QED  BY <2>6 DEF all
<1> HIDE DEF links, used
<1>4. PICK h \in Nat : h = Len(links)
  BY <1>3, SeqFacts
<1>5. uses \in 0..h
  <2>1. links # <<>> => h # 0
    BY <1>3, <1>4, EmptySeq
  <2> QED  BY <1>4, <2>1
<1> HIDE DEF uses
<1>6. first \in Seq(Plain) /\ rest \in Seq(Plain)
  <2>1. \A k \in 1..h : links[k] \in Plain
    BY <1>3, <1>4, SeqFacts
  <2>2. \A k \in 1..uses : links[k] \in Plain
    BY <1>5, <2>1
  <2>3. \A k \in (uses + 1)..h : links[k] \in Plain
    BY <1>5, <2>1
  <2>4. 1 \in Int /\ uses \in Int /\ uses + 1 \in Int /\ h \in Int
    BY <1>4, <1>5
  <2>5. SubSeq(links, 1, uses) \in Seq(Plain)
    BY <2>2, <2>4, SubSeqProperties
  <2>6. SubSeq(links, uses + 1, h) \in Seq(Plain)
    BY <2>3, <2>4, SubSeqProperties
  <2> QED  BY <1>4, <2>5, <2>6
<1> HIDE DEF first, rest
<1>7. ASSUME NEW out \in CalmOuts, NEW text \in Seq(Plain)  PROVE Section(out, text) \in CalmOuts
  <2>1. PICK o \in RestedOuts : o = Write(out, <<Blank>>)
    BY WriteRests
  <2>2. text \in Seq(AnyLine) /\ Quiet(text)
    BY PlainQuiet
  <2>3. Write(o, text) \in CalmOuts
    BY <2>1, <2>2, WriteRested
  <2> QED  BY <2>1, <2>3
<1> HIDE DEF Section
<1>8. Section(Section(body, first), rest) \in CalmOuts
  BY <1>2, <1>6, <1>7
<1> QED  BY <1>1, <1>8 DEF CalmOuts

\* The lines of a text without the blank ones around.
Trimming(new, text, a) ==
  /\ a \in Nat /\ a + Len(new) <= Len(text)
  /\ \A k \in 1..Len(new) : new[k] = text[a + k]
  /\ \A k \in 1..Len(text) : text[k] # Blank => k \in (a + 1)..(a + Len(new))

\* They are those between two.
LEMMA TrimFound ==
  ASSUME NEW text \in Seq(AnyLine)
  PROVE  \E a : Trimming(TrimBlanks(text), text, a)
<1> DEFINE said == {k \in DOMAIN text : text[k] # Blank}
<1>1. PICK n \in Nat : n = Len(text)
  BY SeqFacts
<1>2. DOMAIN text = 1..n /\ \A k \in 1..n : text[k] \in AnyLine
  BY <1>1, SeqFacts
<1>3. CASE said = {}
  <2>1. TrimBlanks(text) = <<>>
    BY <1>3 DEF TrimBlanks
  <2>2. Len(<<>>) = 0 /\ 0 + 0 <= n /\ 0 \in Nat /\ \A k \in 1..0 : FALSE
    BY <1>1, EmptySeq
  <2>3. \A k \in 1..n : text[k] = Blank
    BY <1>2, <1>3
  <2>4. Trimming(<<>>, text, 0)
    BY <1>1, <2>2, <2>3 DEF Trimming
  <2> QED  BY <2>1, <2>4
<1>4. CASE said # {}
  <2>1. TrimBlanks(text) = SubSeq(text, Min(said), Max(said))
    BY <1>4 DEF TrimBlanks
  <2>2. said \subseteq 1..n /\ \A k \in 1..n : text[k] # Blank => k \in said
    BY <1>2
  <2> HIDE DEF said
  <2>3. 1 \in Int /\ n \in Int
    OBVIOUS
  <2>4. Min(said) \in said /\ \A y \in said : Min(said) <= y
    BY <1>4, <2>2, <2>3, MinIn
  <2>5. Max(said) \in said /\ \A y \in said : Max(said) >= y
    BY <1>4, <2>2, <2>3, MaxIn
  <2>6. PICK a \in 1..n, b \in 1..n : a = Min(said) /\ b = Max(said)
    BY <2>2, <2>4, <2>5
  <2>7. a <= b /\ \A y \in said : a <= y /\ y <= b
    <3>1. \A y \in said : a <= y /\ b >= y
      BY <2>4, <2>5, <2>6
    <3>2. \A y \in said : a <= y /\ y <= b
      BY <2>2, <2>6, <3>1
    <3> QED  BY <2>4, <2>6, <3>2
  <2>8. \A k \in a..b : text[k] \in AnyLine
    BY <1>2
  <2>9. a \in Int /\ b \in Int
    OBVIOUS
  <2>10. PICK new : new = SubSeq(text, a, b)
    OBVIOUS
  <2>11. /\ Len(new) = IF a <= b THEN b - a + 1 ELSE 0
         /\ \A k \in 1..(b - a + 1) : new[k] = text[a + k - 1]
    BY <2>8, <2>9, <2>10, SubSeqProperties
  <2>12. PICK o \in Nat, m \in Nat : o = a - 1 /\ m = b - a + 1
    <3>1. a - 1 \in Nat /\ b - a + 1 \in Nat
      BY <2>7
    <3> QED  BY <3>1
  <2>13. /\ o + m <= n /\ o + 1 = a /\ o + m = b
         /\ \A k \in 1..m : a + k - 1 = o + k
    BY <2>7, <2>12
  <2>14. Len(new) = m
    BY <2>7, <2>11, <2>12
  <2>15. \A k \in 1..m : new[k] = text[o + k]
    BY <2>11, <2>12, <2>13
  <2>16. \A k \in 1..n : text[k] # Blank => k \in (o + 1)..(o + m)
    <3>1. \A k \in 1..n : text[k] # Blank => k \in a..b
      BY <2>2, <2>7
    <3> QED  BY <2>13, <3>1
  <2>17. Trimming(new, text, o)
    BY <1>1, <2>13, <2>14, <2>15, <2>16 DEF Trimming
  <2> QED  BY <2>1, <2>6, <2>10, <2>17
<1> QED  BY <1>3, <1>4

\* Each is a line of the text, and none that says something is missing; they are
\* as quiet as the text is.
LEMMA TrimQuiet ==
  ASSUME NEW text \in Seq(AnyLine)
  PROVE  /\ \A k \in 1..Len(TrimBlanks(text)) : \E j \in 1..Len(text) : TrimBlanks(text)[k] = text[j]
         /\ \A j \in 1..Len(text) : text[j] # Blank =>
              \E k \in 1..Len(TrimBlanks(text)) : TrimBlanks(text)[k] = text[j]
         /\ Quiet(text) => Quiet(TrimBlanks(text))
<1>1. PICK n \in Nat : n = Len(text)
  BY SeqFacts
<1>2. PICK new \in Seq(AnyLine) : new = TrimBlanks(text)
  BY TrimTyped
<1>3. PICK m \in Nat : m = Len(new)
  BY <1>2, SeqFacts
<1>4. PICK a \in Nat : /\ a + m <= n /\ \A k \in 1..m : new[k] = text[a + k]
                       /\ \A k \in 1..n : text[k] # Blank => k \in (a + 1)..(a + m)
  <2>1. PICK a : Trimming(new, text, a)
    BY <1>2, TrimFound
  <2> QED  BY <1>1, <1>3, <2>1 DEF Trimming
<1>5. ASSUME NEW k \in 1..m  PROVE \E j \in 1..n : new[k] = text[j]
  <2>1. a + k \in 1..n
    BY <1>4
  <2> QED  BY <1>4, <2>1
<1>6. ASSUME NEW j \in 1..n, text[j] # Blank  PROVE \E k \in 1..m : new[k] = text[j]
  <2>1. j - a \in 1..m /\ a + (j - a) = j
    BY <1>4, <1>6
  <2> QED  BY <1>4, <2>1
<1>7. ASSUME Quiet(text)  PROVE Quiet(new)
  <2>1. ASSUME NEW k \in 2..m  PROVE Follows(new[k - 1], new[k])
    <3>1. k \in 1..m /\ k - 1 \in 1..m /\ a + k \in 2..n /\ a + (k - 1) = a + k - 1
      BY <1>4
    <3>2. new[k] = text[a + k] /\ new[k - 1] = text[a + k - 1]
      BY <1>4, <3>1
    <3> QED  BY <1>1, <1>7, <3>1, <3>2 DEF Quiet
  <2> QED  BY <1>3, <2>1 DEF Quiet
<1> QED  BY <1>1, <1>2, <1>3, <1>5, <1>6, <1>7

\* What unindent leaves of a line that says something has its words; if a line is
\* at the margin the others stay where they are.
LEMMA UnindentQuiet ==
  ASSUME NEW text \in Seq(AnyLine)
  PROVE  /\ \A k \in 1..Len(unindent(text)) :
              \/ unindent(text)[k] = Blank
              \/ /\ Says(unindent(text)[k])
                 /\ \E j \in 1..Len(text) : unindent(text)[k].words = text[j].words
         /\ Quiet(text) /\ (\E k \in 1..Len(text) : text[k] # Blank /\ ~ indented(text[k]))
              => Quiet(unindent(text))
<1> DEFINE trimmed == TrimBlanks(text)
           leads == {trimmed[k].lead : k \in {m \in DOMAIN trimmed : trimmed[m] # Blank}}
           common == IF leads = {} THEN 0 ELSE Len(LongestCommonPrefix(leads))
           first == common + 1
           Cut(line) == IF line.words = <<>> THEN Blank
                        ELSE [line EXCEPT !.lead = SubSeq(@, first, Len(@))]
           cut == [k \in DOMAIN trimmed |-> Cut(trimmed[k])]
<1>1. unindent(text) = TrimBlanks(cut)
  BY DEF unindent
<1>2. trimmed \in Seq(AnyLine)
  BY TrimTyped
<1>3. /\ \A k \in 1..Len(trimmed) : \E j \in 1..Len(text) : trimmed[k] = text[j]
      /\ \A j \in 1..Len(text) : text[j] # Blank => \E k \in 1..Len(trimmed) : trimmed[k] = text[j]
      /\ Quiet(text) => Quiet(trimmed)
  BY TrimQuiet
<1> HIDE DEF trimmed
<1>4. PICK n \in Nat : n = Len(trimmed)
  BY <1>2, SeqFacts
<1>5. DOMAIN trimmed = 1..n /\ \A k \in 1..n : trimmed[k] \in AnyLine
  BY <1>2, <1>4, SeqFacts
<1>6. leads \in SUBSET Seq({" ", "\t"})
  <2>1. \A k \in 1..n : trimmed[k].lead \in Seq({" ", "\t"})
    BY <1>5, FieldsTyped
  <2> QED  BY <1>5, <2>1
<1>7. common \in Nat
  <2> HIDE DEF leads
  <2>1. leads # {} => Len(LongestCommonPrefix(leads)) \in Nat
    BY <1>6, PrefixFound
  <2> QED  BY <2>1
<1>8. (\E k \in 1..Len(text) : text[k] # Blank /\ ~ indented(text[k])) => common = 0
  <2> SUFFICES ASSUME NEW j \in 1..Len(text), text[j] # Blank, ~ indented(text[j])  PROVE common = 0
    OBVIOUS
  <2>1. PICK k \in 1..n : trimmed[k] = text[j]
    BY <1>3, <1>4
  <2>2. trimmed[k].lead \in leads /\ trimmed[k].lead = <<>>
    BY <1>5, <2>1 DEF indented
  <2> HIDE DEF leads
  <2>3. Len(LongestCommonPrefix(leads)) = 0
    BY <1>6, <2>2, PrefixFound
  <2> QED  BY <2>3
<1> HIDE DEF common
<1>9. first \in Nat \ {0} /\ (common = 0 => first = 1)
  BY <1>7
<1> HIDE DEF first
<1>10. ASSUME NEW line \in AnyLine
      PROVE  /\ Cut(line) \in AnyLine
             /\ Cut(line) = Blank \/ (Says(Cut(line)) /\ Cut(line).words = line.words)
             /\ common = 0 => Cut(line) = Blank \/ Cut(line) = line
  <2>1. CASE line.words = <<>>
    BY <2>1, BlankTyped
  <2>2. CASE line.words # <<>>
    <3> DEFINE lead == line.lead
    <3>1. lead \in Seq({" ", "\t"})
      BY FieldsTyped
    <3> HIDE DEF lead
    <3>2. PICK l \in Nat : l = Len(lead)
      BY <3>1, SeqFacts
    <3>3. \A k \in first..l : lead[k] \in {" ", "\t"}
      <4>1. \A k \in 1..l : lead[k] \in {" ", "\t"}
        BY <3>1, <3>2, SeqFacts
      <4>2. first..l \subseteq 1..l
        BY <1>9
      <4> QED  BY <4>1, <4>2
    <3>4. first \in Int /\ l \in Int
      BY <1>9
    <3>5. PICK rest : rest = SubSeq(lead, first, l)
      OBVIOUS
    <3>6. rest \in Seq({" ", "\t"})
      BY <3>2, <3>3, <3>4, <3>5, SubSeqProperties
    <3>7. Cut(line) = [line EXCEPT !.lead = rest]
      BY <2>2, <3>2, <3>5 DEF lead
    <3>8. [line EXCEPT !.lead = rest] \in AnyLine /\ [line EXCEPT !.lead = rest].words = line.words
      BY <3>6 DEF AnyLine
    <3>9. ASSUME common = 0  PROVE rest = lead
      <4>1. SubSeq(lead, 1, Len(lead)) = lead
        BY <3>1, SubSeqFull
      <4>2. first = 1
        BY <1>9, <3>9
      <4> QED  BY <3>2, <3>5, <4>1, <4>2
    <3>10. rest = lead => [line EXCEPT !.lead = rest] = line
      BY DEF AnyLine, lead
    <3> HIDE DEF Cut
    <3> QED  BY <2>2, <3>7, <3>8, <3>9, <3>10 DEF Says
  <2> QED  BY <2>1, <2>2
<1>11. \A k \in 1..n : cut[k] = Cut(trimmed[k])
  BY <1>5
<1>12. cut \in [1..n -> AnyLine]
  BY <1>5, <1>10
<1> HIDE DEF cut, Cut
<1>13. cut \in Seq(AnyLine) /\ Len(cut) = n
  BY <1>4, <1>12, FunctionIsSeq
<1>14. PICK new : new = TrimBlanks(cut)
  OBVIOUS
<1>15. /\ \A k \in 1..Len(new) : \E j \in 1..n : new[k] = cut[j]
       /\ Quiet(cut) => Quiet(new)
  BY <1>13, <1>14, TrimQuiet
<1>16. ASSUME NEW k \in 1..Len(new)
       PROVE  new[k] = Blank \/ (Says(new[k]) /\ \E j \in 1..Len(text) : new[k].words = text[j].words)
  <2>1. PICK j \in 1..n : new[k] = Cut(trimmed[j])
    BY <1>11, <1>15
  <2>2. PICK o \in 1..Len(text) : trimmed[j] = text[o]
    BY <1>3, <1>4
  <2>3. Cut(trimmed[j]) = Blank \/ (Says(Cut(trimmed[j])) /\ Cut(trimmed[j]).words = trimmed[j].words)
    BY <1>5, <1>10
  <2> QED  BY <2>1, <2>2, <2>3
<1>17. ASSUME Quiet(text), common = 0  PROVE Quiet(new)
  <2>1. Quiet(trimmed)
    BY <1>3, <1>17
  <2>2. \A k \in 1..n : cut[k] = Blank \/ cut[k] = trimmed[k]
    BY <1>5, <1>10, <1>11, <1>17
  <2>3. ASSUME NEW k \in 2..n  PROVE Follows(cut[k - 1], cut[k])
    <3>1. k \in 1..n /\ k - 1 \in 1..n
      OBVIOUS
    <3>2. Follows(trimmed[k - 1], trimmed[k])
      BY <1>4, <2>1 DEF Quiet
    <3> QED  BY <2>2, <3>1, <3>2, BlankFollows
  <2>4. Quiet(cut)
    BY <1>13, <2>3 DEF Quiet
  <2> QED  BY <1>15, <2>4
<1> QED  BY <1>1, <1>8, <1>14, <1>16, <1>17

\* Without the element that was put before them the others are left.
LEMMA ConsUndone ==
  ASSUME NEW S, NEW e \in S, NEW seq \in Seq(S)
  PROVE  Tail(<<e>> \o seq) = seq /\ (<<e>> \o seq)[1] = e
<1>1. <<e>> \in Seq(S) /\ Len(<<e>>) = 1 /\ <<e>>[1] = e
  BY SingleTyped
<1>2. PICK n \in Nat : n = Len(seq)
  BY SeqFacts
<1>3. PICK all : all = <<e>> \o seq
  OBVIOUS
<1>4. /\ all \in Seq(S) /\ Len(all) = 1 + n
      /\ \A k \in 1..(1 + n) : all[k] = IF k <= 1 THEN <<e>>[k] ELSE seq[k - 1]
  BY <1>1, <1>2, <1>3, ConcatProperties
<1>5. all # <<>>
  BY <1>1, <1>3, ConsTyped
<1>6. PICK rest : rest = Tail(all)
  OBVIOUS
<1>7. rest \in Seq(S) /\ Len(rest) = Len(all) - 1 /\ \A k \in 1..Len(rest) : rest[k] = all[k + 1]
  BY <1>4, <1>5, <1>6, HeadTailProperties
<1>8. Len(rest) = n
  <2>1. 1 + n - 1 = n
    OBVIOUS
  <2> QED  BY <1>4, <1>7, <2>1
<1>9. ASSUME NEW k \in 1..n  PROVE rest[k] = seq[k]
  <2>1. k + 1 \in 1..(1 + n) /\ ~ (k + 1 <= 1) /\ k + 1 - 1 = k
    OBVIOUS
  <2> QED  BY <1>4, <1>7, <1>8, <2>1
<1>10. rest = seq
  BY <1>2, <1>7, <1>8, <1>9, SeqEqual
<1>11. all[1] = e
  <2>1. 1 \in 1..(1 + n) /\ 1 <= 1
    OBVIOUS
  <2> QED  BY <1>1, <1>4, <2>1
<1> QED  BY <1>3, <1>6, <1>10, <1>11

\* The slashes are taken away as they were put.
LEMMA SlashesUndone ==
  ASSUME NEW line \in AnyLine
  PROVE  AfterSlashes(WithSlashes(line)) = line
<1>1. line.lead \in Seq({" ", "\t"})
  BY FieldsTyped
<1>2. CASE line = Blank \/ (line.lead # <<>> /\ line.lead[1] = "\t")
  <2>1. WithSlashes(line) = line
    BY <1>2 DEF WithSlashes
  <2>2. ~ (line.lead # <<>> /\ line.lead[1] = " ")
    <3>1. CASE line = Blank
      BY <3>1, BlankTyped
    <3>2. CASE line.lead[1] = "\t"
      BY <3>2
    <3> QED  BY <1>2, <3>1, <3>2
  <2> QED  BY <2>1, <2>2 DEF AfterSlashes
<1>3. CASE ~ (line = Blank \/ (line.lead # <<>> /\ line.lead[1] = "\t"))
  <2>1. PICK more : more = <<" ">> \o line.lead
    OBVIOUS
  <2>2. more # <<>> /\ Tail(more) = line.lead /\ more[1] = " "
    <3>1. " " \in {" ", "\t"}
      OBVIOUS
    <3> QED  BY <1>1, <2>1, <3>1, ConsTyped, ConsUndone
  <2>3. WithSlashes(line) = [line EXCEPT !.lead = more]
    BY <1>3, <2>1 DEF WithSlashes
  <2>4. [line EXCEPT !.lead = more].lead = more
    BY DEF AnyLine
  <2>5. AfterSlashes([line EXCEPT !.lead = more]) = [[line EXCEPT !.lead = more] EXCEPT !.lead = line.lead]
    BY <2>2, <2>4 DEF AfterSlashes
  <2>6. [[line EXCEPT !.lead = more] EXCEPT !.lead = line.lead] = line
    BY DEF AnyLine
  <2> QED  BY <2>3, <2>5, <2>6
<1> QED  BY <1>2, <1>3

\* The lines of a text are lines of its comment, but for the blank that may have
\* been before them.
LEMMA TextWords ==
  ASSUME NEW c \in AnyComment
  PROVE  \A k \in 1..Len(TextOf(c)) : \E j \in 1..Len(c.lines) : TextOf(c)[k].words = c.lines[j].words
<1>1. c.lines \in Seq(AnyLine)
  BY CommentFacts
<1>2. CASE c.style = "/*"
  <2>1. TextOf(c) = c.lines
    BY <1>2 DEF TextOf
  <2> QED  BY <2>1
<1>3. CASE c.style # "/*"
  <2> DEFINE numbers == DOMAIN c.lines \ Directives(c)
  <2>1. numbers \subseteq DOMAIN c.lines /\ DOMAIN c.lines = 1..Len(c.lines)
    BY <1>1, SeqFacts
  <2>2. PICK text : text = Select(c.lines, numbers)
    OBVIOUS
  <2> HIDE DEF numbers
  <2>3. /\ text \in Seq(AnyLine) /\ Len(text) = Cardinality(numbers)
        /\ \A k \in 1..Cardinality(numbers) : \E m \in numbers : text[k] = c.lines[m]
    BY <1>1, <2>1, <2>2, SelectTyped
  <2>4. PICK n \in Nat : n = Len(text)
    BY <2>3, SeqFacts
  <2>5. DOMAIN text = 1..n /\ \A k \in 1..n : text[k] \in AnyLine
    BY <2>3, <2>4, SeqFacts
  <2>6. TextOf(c) = [k \in 1..n |-> AfterSlashes(text[k])]
    BY <1>3, <2>2, <2>5 DEF TextOf, numbers
  <2>7. \A k \in 1..n : AfterSlashes(text[k]) \in AnyLine
    BY <2>5, SlashesTyped
  <2>8. TextOf(c) \in [1..n -> AnyLine]
    BY <2>6, <2>7
  <2>9. Len(TextOf(c)) = n
    BY <2>4, <2>8, FunctionIsSeq
  <2>10. ASSUME NEW line \in AnyLine  PROVE AfterSlashes(line).words = line.words
    BY DEF AfterSlashes, AnyLine
  <2>11. ASSUME NEW k \in 1..n  PROVE \E j \in 1..Len(c.lines) : TextOf(c)[k].words = c.lines[j].words
    <3>1. PICK m \in numbers : text[k] = c.lines[m]
      BY <2>3, <2>4
    <3>2. TextOf(c)[k] = AfterSlashes(text[k])
      BY <2>6
    <3>3. TextOf(c)[k].words = text[k].words
      BY <2>5, <2>10, <3>2
    <3> QED  BY <2>1, <3>1, <3>3
  <2> QED  BY <2>9, <2>11
<1> QED  BY <1>2, <1>3

\* The first numbers are those of what a sequence starts with.
LEMMA SelectFirst ==
  ASSUME NEW S, NEW all \in Seq(S), NEW above \in Seq(S), NEW a \in Nat, Len(above) = a,
         \A k \in 1..a : all[k] = above[k]
  PROVE  Select(all, 1..a) = above
<1>1. PICK z \in Nat : z = 0
  OBVIOUS
<1>2. z + 1 = 1 /\ z + a = a /\ \A k \in 1..a : all[z + k] = above[k]
  BY <1>1
<1>3. /\ Cardinality((z + 1)..(z + a)) = a
      /\ Select(all, (z + 1)..(z + a)) = above
  BY ONLY <1>2, SelectLast, SMTT(30), Len(above) = a
<1> QED  BY ONLY <1>2, <1>3

\* What gofumpt writes of a quiet text is read as one.
LEMMA PrintedQuiet ==
  ASSUME NEW c \in AnyComment, NEW text \in Seq(AnyLine), Quiet(text), NEW ds \in Seq(AnyLine),
         \A k \in 1..Len(ds) : isDirective(ds[k])
  PROVE  Quiet(TextOf([c EXCEPT !.lines = Compose(c.style, text, ds)]))
<1>1. PICK all : all = Compose(c.style, text, ds)
  OBVIOUS
<1>2. PICK new : new = [c EXCEPT !.lines = all]
  OBVIOUS
<1>3. new.style = c.style /\ new.lines = all
  BY <1>2 DEF AnyComment
<1>4. c.style \in {"//", "/*"}
  BY CommentFacts
<1>5. CASE c.style = "/*"
  <2>1. PICK one \in Seq(AnyLine) : one = <<Blank>> /\ Len(one) = 1 /\ one[1] = Blank /\ Quiet(one)
    BY BlankTyped, SingleTyped, SingleQuiet
  <2>2. PICK above : above = one \o text
    OBVIOUS
  <2>3. above \in Seq(AnyLine)
    BY <2>1, <2>2, ConcatProperties
  <2>4. Quiet(above)
    BY <2>1, <2>2, BlankFollows, QuietConcat
  <2>5. Quiet(above \o one)
    BY <2>1, <2>3, <2>4, BlankFollows, QuietConcat
  <2>6. TextOf(new) = above \o one
    BY <1>1, <1>3, <1>5, <2>1, <2>2 DEF TextOf, Compose
  <2> QED  BY <1>1, <1>2, <2>5, <2>6
<1>6. CASE c.style = "//"
  <2>1. PICK a \in Nat : LastAre(all, a, ds) /\ Slashed(all, text, a)
    BY <1>1, <1>6, ComposeSplit
  <2>2. PICK b \in Nat : b = Len(ds)
    BY SeqFacts
  <2>3. /\ all \in Seq(AnyLine) /\ Len(all) = a + b
        /\ \A k \in 1..a : ~ isDirective(all[k])
        /\ \A k \in 1..b : isDirective(all[a + k])
    BY <2>1, <2>2 DEF LastAre
  <2>4. DOMAIN all = 1..(a + b) /\ \A k \in 1..(a + b) : all[k] \in AnyLine
    BY <2>3, SeqFacts
  <2>5. DOMAIN all \ Directives(new) = 1..a
    <3>1. ASSUME NEW k \in 1..(a + b)  PROVE isDirective(all[k]) <=> ~ (k \in 1..a)
      <4>1. CASE k \in 1..a
        BY <2>3, <4>1
      <4>2. CASE ~ (k \in 1..a)
        <5>1. k - a \in 1..b /\ a + (k - a) = k
          BY <4>2
        <5> QED  BY <2>3, <4>2, <5>1
      <4> QED  BY <4>1, <4>2
    <3>2. 1..a \subseteq 1..(a + b)
      OBVIOUS
    <3> QED  BY <1>3, <2>4, <3>1, <3>2 DEF Directives
  <2>6. PICK above \in Seq(AnyLine) : above = [k \in 1..a |-> all[k]] /\ Len(above) = a
    <3> DEFINE f == [k \in 1..a |-> all[k]]
    <3>1. f \in [1..a -> AnyLine]
      BY <2>4
    <3> HIDE DEF f
    <3>2. f \in Seq(AnyLine) /\ Len(f) = a
      BY <3>1, FunctionIsSeq
    <3> QED  BY <3>2 DEF f
  <2>7. Select(all, 1..a) = above
    <3>1. /\ a \in Nat /\ all \in Seq(AnyLine) /\ above \in Seq(AnyLine) /\ Len(above) = a
          /\ \A k \in 1..a : all[k] = above[k]
      BY <2>3, <2>6
    <3> QED  BY ONLY <3>1, SelectFirst
  <2>8. TextOf(new) = [k \in 1..a |-> AfterSlashes(all[k])]
    <3>1. DOMAIN above = 1..a
      BY <2>6
    <3>2. Select(new.lines, DOMAIN new.lines \ Directives(new)) = above
      BY <1>3, <2>5, <2>7
    <3>3. TextOf(new) = [k \in 1..a |-> AfterSlashes(above[k])]
      BY <1>3, <1>6, <3>1, <3>2 DEF TextOf
    <3> QED  BY <2>6, <3>3
  <2>9. TextOf(new) \in [1..a -> AnyLine]
    <3>1. \A k \in 1..a : k \in 1..(a + b)
      OBVIOUS
    <3>2. \A k \in 1..a : AfterSlashes(all[k]) \in AnyLine
      BY <2>4, <3>1, SlashesTyped
    <3> QED  BY <2>8, <3>2
  <2>10. Len(TextOf(new)) = a
    BY <2>1, <2>9, FunctionIsSeq
  <2>11. PICK n \in Nat : n = Len(text)
    BY SeqFacts
  <2>12. /\ a = n \/ (a = n + 1 /\ all[a] = Blank)
         /\ \A k \in 1..n : all[k] = WithSlashes(text[k])
    BY <2>1, <2>11 DEF Slashed
  <2>13. \A k \in 1..n : k \in 1..a
    BY <2>12
  <2>14. ASSUME NEW k \in 1..n  PROVE TextOf(new)[k] = text[k]
    <3>1. text[k] \in AnyLine
      BY <2>11, SeqFacts
    <3>2. AfterSlashes(WithSlashes(text[k])) = text[k]
      BY <3>1, SlashesUndone
    <3> QED  BY <2>8, <2>12, <2>13, <3>2
  <2>15. a = n + 1 => TextOf(new)[a] = Blank
    <3>1. AfterSlashes(Blank) = Blank
      BY BlankTyped DEF AfterSlashes
    <3>2. a = n + 1 => a \in 1..a /\ all[a] = Blank
      BY <2>12
    <3> QED  BY <2>8, <3>1, <3>2
  <2>16. ASSUME NEW k \in 2..a  PROVE Follows(TextOf(new)[k - 1], TextOf(new)[k])
    <3>1. CASE k \in 1..n
      <4>1. k - 1 \in 1..n /\ k \in 2..n
        BY <3>1
      <4>2. Follows(text[k - 1], text[k])
        BY <2>11, <4>1 DEF Quiet
      <4> QED  BY <2>14, <3>1, <4>1, <4>2
    <3>2. CASE ~ (k \in 1..n)
      <4>1. k = a /\ a = n + 1
        BY <2>12, <3>2
      <4> QED  BY <2>15, <4>1, BlankFollows
    <3> QED  BY <3>1, <3>2
  <2>17. Quiet(TextOf(new))
    BY <2>10, <2>16 DEF Quiet
  <2> QED  BY <1>1, <1>2, <2>17
<1> QED  BY <1>4, <1>5, <1>6

------------------------------------------------------------------------------
(* The heuristics *)

\* A line that is not blank says something.
Spaced == \A k \in 1..Len(lines) : Says(lines[k]) \/ lines[k] = Blank

\* Among quiet lines, none of which counts as indented, no brace is taken into
\* indented ones.
LEMMA IndentedRests ==
  ASSUME LinesTyped, i \in Nat, forceIndent = 0, Spaced, Quiet(lines), IndentedSpan, ~ guessed
  PROVE  ~ guessed'
<1> DEFINE start == Start
           unindentedListOK == isList(lines[start]) /\ start <= forceIndent
           goesOn(k) ==
             \/ lines[k] = Blank \/ Forced(k)
             \/ unindentedListOK /\ isList(lines[k]) /\ \A b \in start..k : lines[b] # Blank
           stops == {k \in (start + 1)..Len(lines) : ~goesOn(k)}
           stop == IF stops = {} THEN Len(lines) + 1 ELSE Min(stops)
           said == {k \in start..(stop - 1) : lines[k] # Blank}
           last == Max(said)
           brace == last < Len(lines) /\ Closes(lines[last + 1])
<1>1. Len(lines) \in Nat
  BY LenProperties DEF LinesTyped
<1>2. start \in (i + 1)..Len(lines) /\ lines[start] # Blank
  BY StartFound DEF IndentedSpan
<1>3. guessed' = (guessed \/ brace) /\ Forced(start)
  BY DEF IndentedSpan
<1>4. ~ (start <= forceIndent)
  BY <1>1, <1>2
<1>5. indented(lines[start])
  BY <1>3, <1>4 DEF Forced
<1>6. ASSUME NEW k \in (start + 1)..Len(lines), goesOn(k), lines[k] # Blank
      PROVE  indented(lines[k])
  <2>1. ~ (k <= forceIndent)
    BY <1>1, <1>2
  <2> QED  BY <1>4, <1>6, <2>1 DEF Forced
<1> HIDE DEF start, goesOn
<1>7. /\ stop \in (start + 1)..(Len(lines) + 1)
      /\ \A k \in (start + 1)..(stop - 1) : goesOn(k)
  <2>1. stops \subseteq (start + 1)..Len(lines)
    OBVIOUS
  <2>2. start + 1 \in Int /\ Len(lines) \in Int
    BY <1>1, <1>2
  <2>3. \A k \in (start + 1)..Len(lines) : ~ (k \in stops) => goesOn(k)
    OBVIOUS
  <2> HIDE DEF stops
  <2>4. stops # {} => Min(stops) \in (start + 1)..Len(lines) /\ \A y \in stops : Min(stops) <= y
    BY <2>1, <2>2, MinIn
  <2>5. stop \in (start + 1)..(Len(lines) + 1)
    BY <1>1, <1>2, <2>4
  <2>6. ASSUME NEW k \in (start + 1)..(stop - 1)  PROVE goesOn(k)
    <3>1. k \in (start + 1)..Len(lines) /\ k < stop
      BY <1>1, <1>2, <2>5
    <3>2. ~ (k \in stops)
      <4>1. CASE stops = {}
        BY <4>1
      <4>2. CASE stops # {}
        <5>1. stop = Min(stops) /\ Min(stops) \in Int /\ k < Min(stops)
          BY <1>1, <1>2, <2>4, <3>1, <4>2
        <5>2. ~ (Min(stops) <= k)
          BY <5>1
        <5> QED  BY <2>4, <4>2, <5>2
      <4> QED  BY <4>1, <4>2
    <3> QED  BY <2>3, <3>1, <3>2
  <2> QED  BY <2>5, <2>6
<1> HIDE DEF stop
<1>8. last \in start..(stop - 1) /\ lines[last] # Blank
  <2>1. said \subseteq start..(stop - 1) /\ said # {}
    BY <1>1, <1>2, <1>7
  <2>2. start \in Int /\ stop - 1 \in Int
    BY <1>1, <1>2, <1>7
  <2>3. \A k \in said : k \in start..(stop - 1) /\ lines[k] # Blank
    OBVIOUS
  <2> HIDE DEF said
  <2>4. Max(said) \in said
    BY <2>1, <2>2, MaxIn
  <2> QED  BY <2>3, <2>4
<1> HIDE DEF last
<1>9. indented(lines[last]) /\ last \in 1..Len(lines)
  <2>1. last \in 1..Len(lines)
    BY <1>1, <1>2, <1>7, <1>8
  <2>2. CASE last = start
    BY <1>5, <2>1, <2>2
  <2>3. CASE last # start
    <3>1. last \in (start + 1)..(stop - 1) /\ last \in (start + 1)..Len(lines)
      BY <1>1, <1>2, <1>7, <1>8, <2>3
    <3> QED  BY <1>6, <1>7, <1>8, <2>1, <3>1
  <2> QED  BY <2>2, <2>3
<1>10. ~ brace
  <2> SUFFICES ASSUME brace  PROVE FALSE
    OBVIOUS
  <2>1. /\ last + 1 \in 2..Len(lines) /\ (last + 1) - 1 = last
        /\ ~ indented(lines[last + 1]) /\ Says(lines[last + 1])
    <3>1. last < Len(lines) /\ Closes(lines[last + 1])
      OBVIOUS
    <3>2. last + 1 \in 2..Len(lines) /\ (last + 1) - 1 = last
      BY <1>1, <1>9, <3>1
    <3> QED  BY <3>1, <3>2 DEF Closes, Says
  <2>2. Follows(lines[last], lines[last + 1])
    BY <2>1 DEF Quiet
  <2>3. Says(lines[last])
    BY <1>8, <1>9 DEF Spaced
  <2> QED  BY <1>9, <2>1, <2>2, <2>3 DEF Follows
<1> QED  BY <1>3, <1>10

\* What becomes of the spans: one is added, and a paragraph is at the margin.
Grown == spans' = spans \/ \E new \in SpanSet : spans' = Append(spans, new) /\ Marginal(lines, new)

\* Unindented lines are a paragraph at the margin; among quiet lines none of
\* them is left to indented ones.
LEMMA UnindentedRests ==
  ASSUME LinesTyped, i \in Nat, Spaced, UnindentedSpan
  PROVE  /\ Grown
         /\ forceIndent = 0 /\ Quiet(lines) /\ ~ guessed => ~ guessed' /\ forceIndent' = 0
<1> DEFINE start == Start
           stops == {k \in (start + 1)..Len(lines) : lines[k] = Blank \/ indented(lines[k])}
           stop == IF stops = {} THEN Len(lines) + 1 ELSE Min(stops)
           looks == stop <= Len(lines) /\ lines[stop] # Blank /\ ~isList(lines[stop])
           end == IF looks THEN Left(start, stop) ELSE stop - 1
           kind == IF end = start /\ isHeading(lines[start]) THEN "heading"
                   ELSE IF end = start /\ isOldHeading(lines, start) THEN "old heading"
                   ELSE "para"
<1>1. Len(lines) \in Nat
  BY LenProperties DEF LinesTyped
<1>2. start \in (i + 1)..Len(lines) /\ lines[start] # Blank
  BY StartFound DEF UnindentedSpan
<1>3. /\ forceIndent' = ForceIndent(end, stop)
      /\ guessed' = (guessed \/ end < stop - 1)
      /\ IF end < start THEN i' = start - 1 /\ spans' = spans ELSE AddSpan(start, end, kind)
      /\ ~ Forced(start)
  BY DEF UnindentedSpan
<1>4. ~ indented(lines[start])
  BY <1>3 DEF Forced
<1> HIDE DEF start
<1>5. /\ stop \in (start + 1)..(Len(lines) + 1)
      /\ stop <= Len(lines) => lines[stop] = Blank \/ indented(lines[stop])
      /\ \A k \in start..(stop - 1) : lines[k] # Blank /\ ~ indented(lines[k])
  <2>1. stops \subseteq (start + 1)..Len(lines)
    OBVIOUS
  <2>2. start + 1 \in Int /\ Len(lines) \in Int
    BY <1>1, <1>2
  <2>3. \A k \in (start + 1)..Len(lines) : k \in stops <=> lines[k] = Blank \/ indented(lines[k])
    OBVIOUS
  <2> HIDE DEF stops
  <2>4. stops # {} => /\ Min(stops) \in (start + 1)..Len(lines) /\ Min(stops) \in stops
                      /\ \A y \in stops : Min(stops) <= y
    BY <2>1, <2>2, MinIn
  <2>5. stop \in (start + 1)..(Len(lines) + 1)
    BY <1>1, <1>2, <2>4
  <2>6. stop <= Len(lines) => lines[stop] = Blank \/ indented(lines[stop])
    <3>1. stop <= Len(lines) => stops # {}
      BY <1>1
    <3>2. stops # {} => stop = Min(stops)
      OBVIOUS
    <3> QED  BY <2>3, <2>4, <3>1, <3>2
  <2>7. ASSUME NEW k \in start..(stop - 1)  PROVE lines[k] # Blank /\ ~ indented(lines[k])
    <3>1. CASE k = start
      BY <1>2, <1>4, <3>1
    <3>2. CASE k # start
      <4>1. k \in (start + 1)..Len(lines) /\ k < stop
        BY <1>1, <1>2, <2>5, <3>2
      <4>2. ~ (k \in stops)
        <5>1. CASE stops = {}
          BY <5>1
        <5>2. CASE stops # {}
          <6>1. stop = Min(stops) /\ Min(stops) \in Int /\ k < Min(stops)
            BY <1>1, <1>2, <2>4, <4>1, <5>2
          <6>2. ~ (Min(stops) <= k)
            BY <6>1
          <6> QED  BY <2>4, <5>2, <6>2
        <5> QED  BY <5>1, <5>2
      <4> QED  BY <2>3, <4>1, <4>2
    <3> QED  BY <3>1, <3>2
  <2> QED  BY <2>5, <2>6, <2>7
<1> HIDE DEF stop
<1>6. Left(start, stop) \in (start - 1)..(stop - 1)
  BY <1>1, <1>2, <1>5, LeftFound
<1>7. end \in (start - 1)..(stop - 1)
  BY <1>1, <1>2, <1>5, <1>6
<1>8. Grown
  <2>1. CASE end < start
    BY <1>3, <2>1 DEF Grown
  <2>2. CASE ~ (end < start)
    <3> HIDE DEF end, kind
    <3>1. kind \in {"list", "code", "heading", "old heading", "para"}
      BY DEF kind
    <3>2. start \in Nat /\ end \in Nat
      BY <1>1, <1>2, <1>5, <1>7, <2>2
    <3>3. PICK new \in SpanSet : new = [start |-> start, end |-> end, kind |-> kind]
      BY <3>1, <3>2 DEF SpanSet
    <3>4. spans' = Append(spans, new)
      BY <1>3, <2>2, <3>3 DEF AddSpan
    <3>5. \A k \in start..end : k \in start..(stop - 1)
      BY <1>1, <1>2, <1>5, <1>7
    <3>6. Marginal(lines, new)
      BY <1>5, <3>3, <3>5 DEF Marginal
    <3> QED  BY <3>4, <3>6 DEF Grown
  <2> QED  BY <2>1, <2>2
<1>9. ASSUME forceIndent = 0, Quiet(lines), ~ guessed
      PROVE  ~ guessed' /\ forceIndent' = 0
  <2>1. ~ looks
    <3> SUFFICES ASSUME looks  PROVE FALSE
      OBVIOUS
    <3>1. stop \in 2..Len(lines) /\ stop - 1 \in start..(stop - 1) /\ stop \in 1..Len(lines)
          /\ stop - 1 \in 1..Len(lines)
      BY <1>1, <1>2, <1>5
    <3>2. Follows(lines[stop - 1], lines[stop])
      BY <1>9, <3>1 DEF Quiet
    <3>3. Says(lines[stop - 1]) /\ Says(lines[stop]) /\ ~ indented(lines[stop - 1]) /\ indented(lines[stop])
      BY <1>5, <3>1 DEF Spaced
    <3> QED  BY <3>2, <3>3 DEF Follows
  <2>2. end = stop - 1 /\ ~ (end < stop - 1)
    BY <1>1, <1>2, <1>5, <2>1
  <2> HIDE DEF end
  <2> QED  BY <1>3, <1>9, <2>2 DEF ForceIndent
<1> QED  BY <1>8, <1>9

\* Indented lines are no paragraph.
LEMMA IndentedGrown ==
  ASSUME LinesTyped, i \in Nat, IndentedSpan
  PROVE  Grown
<1>1. PICK end \in Start..Len(lines), kind \in {"list", "code"} :
        spans' = Append(spans, [start |-> Start, end |-> end, kind |-> kind])
  BY IndentedAdds
<1>2. Start \in (i + 1)..Len(lines) /\ Len(lines) \in Nat
  BY StartFound, LenProperties DEF IndentedSpan, LinesTyped
<1>3. Start \in Nat /\ end \in Nat
  BY <1>2
<1>4. PICK new \in SpanSet : new = [start |-> Start, end |-> end, kind |-> kind]
  BY <1>3 DEF SpanSet
<1>5. Marginal(lines, new)
  BY <1>4 DEF Marginal
<1> QED  BY <1>1, <1>4, <1>5 DEF Grown

\* Paragraphs stay at the margin.
LEMMA GrownMarginal ==
  ASSUME spans \in Seq(SpanSet), \A k \in DOMAIN spans : Marginal(lines, spans[k]), Grown
  PROVE  \A k \in DOMAIN spans' : Marginal(lines, spans'[k])
<1>1. CASE spans' = spans
  BY <1>1
<1>2. ASSUME NEW new \in SpanSet, spans' = Append(spans, new), Marginal(lines, new)
      PROVE  \A k \in DOMAIN spans' : Marginal(lines, spans'[k])
  <2>1. PICK n \in Nat : n = Len(spans)
    BY SeqFacts
  <2>2. DOMAIN spans = 1..n
    BY <2>1, SeqFacts
  <2>3. PICK all \in Seq(SpanSet) : /\ all = spans' /\ Len(all) = n + 1
                                    /\ \A k \in 1..n : all[k] = spans[k]
                                    /\ all[n + 1] = new
    BY <1>2, <2>1, AppendProperties
  <2>4. DOMAIN all = 1..(n + 1)
    BY <2>3, SeqFacts
  <2>5. ASSUME NEW k \in DOMAIN all  PROVE Marginal(lines, all[k])
    <3>1. k \in 1..n \/ k = n + 1
      <4>1. k \in 1..(n + 1)
        BY <2>4
      <4> QED  BY <4>1
    <3>2. CASE k \in 1..n
      BY <2>2, <2>3, <3>2
    <3>3. CASE k = n + 1
      BY <1>2, <2>3, <3>3
    <3> QED  BY <3>1, <3>2, <3>3
  <2> QED  BY <2>3, <2>5
<1> QED  BY <1>1, <1>2 DEF Grown

------------------------------------------------------------------------------
(* The invariant *)

\* The comment is one, and so are the lines made of it.
Typed ==
  /\ comment \in AnyComment
  /\ directives \in Seq(AnyLine)
  /\ LinesTyped

\* Spans start at lines, those of headings at headings and those of lists at items:
\* what is left of a heading without its mark is one line.
Headings ==
  \A k \in DOMAIN spans :
    /\ spans[k].start \in 1..Len(lines)
    /\ spans[k].kind = "heading" => isHeading(lines[spans[k].start])
    /\ Kinded(lines, spans[k])

\* The directives of the comment are those of the source; while it is parsed they
\* are kept aside, and when it is done they are at its end.
Kept ==
  /\ comment.style = source.style
  /\ \A k \in 1..Len(directives) : isDirective(directives[k])
  /\ comment.style = "//" =>
       /\ Select(comment.lines, Directives(comment)) = Select(source.lines, Directives(source))
       /\ step = "parse" => directives = Select(comment.lines, Directives(comment))
       /\ step = "done" => Placed(comment)

IInv == Typed /\ Progress /\ Covering /\ Headings /\ Kept

\* A comment is given and nothing is made of it.
LEMMA IInvInit == Init => IInv
<1> SUFFICES ASSUME Init  PROVE IInv
  OBVIOUS
<1>1. comment \in AnyComment
  BY CommentsAssumption DEF Init, AnyComment
<1>2. <<>> \in Seq(AnyLine) /\ Len(<<>>) = 0 /\ DOMAIN <<>> = {}
  BY EmptySeq
<1>3. Typed
  BY <1>1, <1>2 DEF Init, Typed, LinesTyped
<1>4. Headings
  BY <1>2 DEF Init, Headings
<1>5. Kept
  <2>1. directives = <<>> /\ source = comment /\ step = "extract"
    BY DEF Init
  <2>2. \A k \in 1..0 : FALSE
    OBVIOUS
  <2> QED  BY <1>2, <2>1, <2>2 DEF Kept
<1> QED  BY <1>3, <1>4, <1>5, ProgressInit, CoveringInit DEF IInv

\* The spans are among the lines.
LEMMA SpansWithin ==
  ASSUME IInv
  PROVE  \A k \in DOMAIN spans : Within(lines, spans[k])
<1>1. PICK n \in Nat : n = Len(lines)
  BY SeqFacts DEF IInv, Typed, LinesTyped
<1>2. ASSUME NEW k \in DOMAIN spans  PROVE Within(lines, spans[k])
  <2>1. spans \in Seq(SpanSet) /\ spans[k].start <= spans[k].end /\ spans[k].end <= i /\ i \in 0..n
    BY <1>1 DEF IInv, Covering, Progress
  <2>2. spans[k] \in SpanSet
    BY <2>1, SeqFacts
  <2>3. spans[k].end \in Nat
    BY <2>2 DEF SpanSet
  <2>4. spans[k].end <= n
    BY <1>1, <2>1, <2>3
  <2> QED  BY <1>1, <2>1, <2>2, <2>4 DEF IInv, Headings, Within
<1> QED  BY <1>2

\* What Finish makes of the comment.
LEMMA Finished ==
  ASSUME IInv, Finish
  PROVE  /\ comment' \in AnyComment /\ comment'.style = comment.style
         /\ comment.style = "//" => /\ Select(comment'.lines, Directives(comment')) = directives
                                    /\ Placed(comment')
<1>2. \A k \in DOMAIN spans : Within(lines, spans[k])
  BY SpansWithin
<1>3. Blocks(lines, spans) \in Seq(BlockSet)
  <2>1. lines \in Seq(AnyLine) /\ spans \in Seq(SpanSet)
    BY DEF IInv, Typed, LinesTyped, Covering
  <2> QED  BY <1>2, <2>1, BlocksTyped
<1>4. PICK text \in Seq(AnyLine) : text = Comment(Blocks(lines, spans))
  BY <1>3, CommentTyped
<1>5. /\ comment \in AnyComment /\ directives \in Seq(AnyLine)
      /\ \A k \in 1..Len(directives) : isDirective(directives[k])
  BY DEF IInv, Typed, Kept
<1> DEFINE all == Compose(comment.style, text, directives)
           new == [comment EXCEPT !.lines = all]
<1>6. /\ new \in AnyComment /\ new.style = comment.style
      /\ comment.style = "//" => Select(new.lines, Directives(new)) = directives /\ Placed(new)
  BY <1>4, <1>5, ComposeTyped, Zenon
<1>7. comment' = new
  BY <1>4 DEF Finish
<1> HIDE DEF new
<1> QED  BY <1>6, <1>7

\* What is extracted, and what is printed, are lines.
LEMMA TypedNext ==
  ASSUME IInv, [Next]_vars
  PROVE  Typed'
<1>1. comment \in AnyComment /\ directives \in Seq(AnyLine) /\ lines \in Seq(AnyLine)
  BY DEF IInv, Typed, LinesTyped
<1>2. <<>> \in Seq(AnyLine)
  BY EmptySeq
<1>3. CASE Extract
  <2>1. comment' = comment
    BY <1>3 DEF Extract
  <2>2. CASE Ignored(comment)
    BY <1>1, <1>3, <2>1, <2>2 DEF Extract, Typed, LinesTyped
  <2>3. CASE ~ Ignored(comment)
    <3>1. /\ lines' = unindent(TextOf(comment))
          /\ directives' = IF comment.style = "/*" THEN <<>> ELSE Select(comment.lines, Directives(comment))
      BY <1>3, <2>3 DEF Extract
    <3>2. lines' \in Seq(AnyLine)
      BY <1>1, <3>1, TextTyped, UnindentTyped
    <3>3. directives' \in Seq(AnyLine)
      BY <1>1, <1>2, <3>1, DirectivesTyped
    <3> QED  BY <1>1, <2>1, <3>2, <3>3 DEF Typed, LinesTyped
  <2> QED  BY <2>2, <2>3
<1>4. CASE IndentedSpan
  BY <1>1, <1>4 DEF IndentedSpan, Typed, LinesTyped
<1>5. CASE UnindentedSpan
  BY <1>1, <1>5 DEF UnindentedSpan, Typed, LinesTyped
<1>6. CASE Finish
  <2>1. comment' \in AnyComment
    BY <1>6, Finished
  <2>2. directives' = directives /\ lines' = lines
    BY <1>6 DEF Finish
  <2> QED  BY <1>1, <2>1, <2>2 DEF Typed, LinesTyped
<1>7. CASE Again
  BY <1>1, <1>2, <1>7 DEF Again, Typed, LinesTyped
<1>8. CASE UNCHANGED vars
  BY <1>1, <1>8 DEF vars, Typed, LinesTyped
<1> QED  BY <1>3, <1>4, <1>5, <1>6, <1>7, <1>8 DEF Next

\* A span that is added starts at a line, and is a heading where that is one.
LEMMA HeadingsNext ==
  ASSUME IInv, [Next]_vars
  PROVE  Headings'
<1>1. Len(lines) \in Nat /\ i \in Nat /\ spans \in Seq(SpanSet)
  BY SeqFacts DEF IInv, Typed, LinesTyped, Progress, Covering
<1>2. ASSUME NEW end \in Int, ~ (end < Start), Start <= Len(lines), Added(Start, end), lines' = lines
      PROVE  Headings'
  <2>1. PICK start \in 1..Len(lines) : start = Start
    <3>1. Start \in (i + 1)..Len(lines)
      BY <1>1, <1>2, StartFound DEF IInv, Typed
    <3> QED  BY <1>1, <3>1
  <2>2. start \in Nat /\ end \in Nat
    <3>1. start \in Int /\ start >= 1 /\ ~ (end < start)
      BY <1>1, <1>2, <2>1
    <3>2. end \in Int
      BY <1>2
    <3> QED  BY <3>1, <3>2
  <2>3. PICK new \in SpanSet : /\ spans' = Append(spans, new) /\ new.start = start
                               /\ new.kind = "heading" => isHeading(lines[start])
                               /\ Kinded(lines, new)
    <3>1. PICK kind \in {"list", "code", "heading", "old heading", "para"} :
            /\ spans' = Append(spans, [start |-> start, end |-> end, kind |-> kind])
            /\ kind = "heading" => isHeading(lines[start])
            /\ Kinded(lines, [start |-> start, end |-> end, kind |-> kind])
      BY <1>2, <2>1 DEF Added
    <3>2. [start |-> start, end |-> end, kind |-> kind] \in SpanSet
      BY <2>2 DEF SpanSet
    <3> QED  BY <3>1, <3>2
  <2>4. PICK n \in Nat : n = Len(spans)
    BY <1>1, SeqFacts
  <2>5. DOMAIN spans = 1..n
    BY <1>1, <2>4, SeqFacts
  <2>6. PICK all \in Seq(SpanSet) : /\ all = spans' /\ Len(all) = n + 1
                                    /\ \A k \in 1..n : all[k] = spans[k]
                                    /\ all[n + 1] = new
    <3>1. spans' = Append(spans, new)
      BY <2>3
    <3>2. /\ Append(spans, new) \in Seq(SpanSet) /\ Len(Append(spans, new)) = Len(spans) + 1
          /\ \A k \in 1..Len(spans) : Append(spans, new)[k] = spans[k]
          /\ Append(spans, new)[Len(spans) + 1] = new
      BY <1>1, <2>3, AppendProperties
    <3> QED  BY <2>4, <3>1, <3>2
  <2>7. DOMAIN all = 1..(n + 1)
    BY <2>6, SeqFacts
  <2>8. ASSUME NEW k \in DOMAIN all
        PROVE  /\ all[k].start \in 1..Len(lines)
               /\ all[k].kind = "heading" => isHeading(lines[all[k].start])
               /\ Kinded(lines, all[k])
    <3>1. k \in 1..n \/ k = n + 1
      <4>1. k \in 1..(n + 1)
        BY <2>7
      <4> QED  BY <2>4, <4>1
    <3>2. CASE k \in 1..n
      BY <2>5, <2>6, <3>2 DEF IInv, Headings
    <3>3. CASE k = n + 1
      <4>1. all[k] = new
        BY <2>6, <3>3
      <4>2. /\ new.start \in 1..Len(lines) /\ (new.kind = "heading" => isHeading(lines[new.start]))
            /\ Kinded(lines, new)
        BY <2>1, <2>3
      <4> QED  BY <4>1, <4>2
    <3> QED  BY <3>1, <3>2, <3>3
  <2> QED  BY <1>2, <2>6, <2>8 DEF Headings
<1>3. CASE Extract
  <2>1. spans' = <<>>
    BY <1>3 DEF Extract, IInv, Progress
  <2> QED  BY <2>1 DEF Headings
<1>4. CASE IndentedSpan
  <2>1. PICK end \in Start..Len(lines) : Added(Start, end)
    BY <1>1, <1>4, IndentedEnds DEF IInv, Typed
  <2>2. Start <= Len(lines) /\ lines' = lines
    BY <1>4 DEF IndentedSpan
  <2>3. Start \in (i + 1)..Len(lines)
    BY <1>1, <2>2, StartFound DEF IInv, Typed
  <2>4. end \in Int /\ ~ (end < Start)
    BY <1>1, <2>1, <2>3
  <2> QED  BY <1>2, <2>1, <2>2, <2>4
<1>5. CASE UnindentedSpan
  <2>1. PICK stop \in (Start + 1)..(Len(lines) + 1) : \E end \in (Start - 1)..(stop - 1) :
          IF end < Start THEN i' = Start - 1 /\ spans' = spans ELSE Added(Start, end)
    BY <1>1, <1>5, UnindentedEnds DEF IInv, Typed
  <2>2. PICK end \in (Start - 1)..(stop - 1) :
          IF end < Start THEN i' = Start - 1 /\ spans' = spans ELSE Added(Start, end)
    BY <2>1
  <2>3. Start <= Len(lines) /\ lines' = lines
    BY <1>5 DEF UnindentedSpan
  <2>4. CASE end < Start
    BY <2>2, <2>3, <2>4 DEF IInv, Headings
  <2>5. CASE ~ (end < Start)
    <3>1. Start \in (i + 1)..Len(lines)
      BY <1>1, <2>3, StartFound DEF IInv, Typed
    <3>2. end \in Int
      BY <1>1, <2>2, <3>1
    <3> QED  BY <1>2, <2>2, <2>3, <2>5, <3>2
  <2> QED  BY <2>4, <2>5
<1>6. CASE Finish
  BY <1>6 DEF Finish, IInv, Headings
<1>7. CASE Again
  BY <1>7 DEF Again, Headings
<1>8. CASE UNCHANGED vars
  BY <1>8 DEF vars, IInv, Headings
<1> QED  BY <1>3, <1>4, <1>5, <1>6, <1>7, <1>8 DEF Next

\* The directives are taken out of the comment and put back.
LEMMA KeptNext ==
  ASSUME IInv, [Next]_vars
  PROVE  Kept'
<1>0. Kept /\ comment \in AnyComment
  BY DEF IInv, Typed
<1>1. CASE Extract
  <2>1. comment' = comment /\ source' = source
    BY <1>1 DEF Extract
  <2>2. CASE Ignored(comment)
    <3>1. directives' = directives /\ step' = "done"
      BY <1>1, <2>2 DEF Extract
    <3>2. comment.style = "//" => Placed(comment)
      BY <1>0, <2>2, IgnoredPlaced
    <3> QED  BY <1>0, <2>1, <3>1, <3>2 DEF Kept
  <2>3. CASE ~ Ignored(comment)
    <3>1. /\ step' = "parse"
          /\ directives' = IF comment.style = "/*" THEN <<>> ELSE Select(comment.lines, Directives(comment))
      BY <1>1, <2>3 DEF Extract
    <3>2. \A k \in 1..Len(directives') : isDirective(directives'[k])
      <4>1. CASE comment.style = "/*"
        <5>1. Len(directives') = 0
          BY <3>1, <4>1, EmptySeq
        <5>2. \A k \in 1..0 : FALSE
          OBVIOUS
        <5> QED  BY <5>1, <5>2
      <4>2. CASE comment.style # "/*"
        <5>1. directives' = Select(comment.lines, Directives(comment))
          BY <3>1, <4>2
        <5>2. \A k \in 1..Len(Select(comment.lines, Directives(comment))) :
                isDirective(Select(comment.lines, Directives(comment))[k])
          BY <1>0, DirectivesTyped
        <5> QED  BY <5>1, <5>2
      <4> QED  BY <4>1, <4>2
    <3>3. comment.style = "//" => directives' = Select(comment.lines, Directives(comment))
      BY <3>1
    <3> QED  BY <1>0, <2>1, <3>1, <3>2, <3>3 DEF Kept
  <2> QED  BY <2>2, <2>3
<1>2. CASE IndentedSpan
  BY <1>0, <1>2 DEF IndentedSpan, Kept
<1>3. CASE UnindentedSpan
  BY <1>0, <1>3 DEF UnindentedSpan, Kept
<1>4. CASE Finish
  <2>1. directives' = directives /\ source' = source /\ step = "parse" /\ step' = "done"
    BY <1>4 DEF Finish
  <2>2. /\ comment'.style = comment.style
        /\ comment.style = "//" => /\ Select(comment'.lines, Directives(comment')) = directives
                                   /\ Placed(comment')
    BY <1>4, Finished
  <2>3. comment.style = "//" => directives = Select(source.lines, Directives(source))
    BY <1>0, <2>1 DEF Kept
  <2> QED  BY <1>0, <2>1, <2>2, <2>3 DEF Kept
<1>5. CASE Again
  <2>1. comment' = comment /\ source' = source /\ step' = "extract" /\ directives' = <<>>
    BY <1>5 DEF Again
  <2>2. Len(<<>>) = 0 /\ \A k \in 1..0 : FALSE
    BY EmptySeq
  <2> QED  BY <1>0, <2>1, <2>2 DEF Kept
<1>6. CASE UNCHANGED vars
  BY <1>0, <1>6 DEF vars, Kept
<1> QED  BY <1>1, <1>2, <1>3, <1>4, <1>5, <1>6 DEF Next

\* Each part is kept; that of the headings and of the directives needs the others.
LEMMA IInvNext == IInv /\ [Next]_vars => IInv'
<1> SUFFICES ASSUME IInv, [Next]_vars  PROVE IInv'
  OBVIOUS
<1>1. Typed'
  BY TypedNext
<1>2. LinesTyped /\ LinesTyped' /\ Progress /\ Covering
  BY <1>1 DEF IInv, Typed
<1>3. Progress' /\ Covering'
  BY <1>2, ProgressNext, CoveringNext
<1>4. Headings' /\ Kept'
  BY HeadingsNext, KeptNext
<1> QED  BY <1>1, <1>3, <1>4 DEF IInv

\* In every behaviour, whatever the comments are.
LEMMA IInvHolds == Spec => []IInv
<1>1. Init => IInv
  BY IInvInit
<1>2. IInv /\ [Next]_vars => IInv'
  BY IInvNext
<1> QED  BY <1>1, <1>2, PTL DEF Spec

\* Whatever comment gofumpt is given, and when it is given what it made of it:
\* the watchdog of parseSpans does not bark (parse.go:363-378).
THEOREM WatchdogQuiet == Spec => []MakesProgress
<1>1. IInv => MakesProgress
  BY ProgressQuiet DEF IInv, Typed
<1> QED  BY <1>1, IInvHolds, PTL

\* The spans are in order and no line that says something is in none, whatever
\* lines the heuristics give from one to the next (parse.go:380-494).
THEOREM SpansCovering == Spec => []SpansCover
<1>1. IInv => SpansCover
  BY CoveringCovers DEF IInv, Typed
<1> QED  BY <1>1, IInvHolds, PTL

\* Whatever the text is and is printed as, the directives of a comment are kept,
\* in their order, and nothing but a blank line is between them or before them
\* (printer/comment.go:57-144).
THEOREM DirectivesStayApart == Spec => []DirectivesApart
<1>1. IInv => DirectivesApart
  <2> SUFFICES ASSUME IInv, step = "done", source.style = "//"
               PROVE  DirectivesApart
    BY DEF DirectivesApart
  <2>1. Kept /\ comment.style = "//"
    BY DEF IInv, Kept
  <2>2. /\ Select(comment.lines, Directives(comment)) = Select(source.lines, Directives(source))
        /\ Placed(comment)
    BY <2>1 DEF Kept
  <2> QED  BY <2>2 DEF Placed, DirectivesApart
<1> QED  BY <1>1, IInvHolds, PTL

\* A comment none of whose items is bare.
Unbare(c) == \A k \in 1..Len(c.lines) : ~ Bare(c.lines[k])

\* A comment with a line at the margin.
Flat(c) == \E k \in DOMAIN TextOf(c) : TextOf(c)[k] # Blank /\ ~ indented(TextOf(c)[k])

\* A comment that gofumpt leaves alone or whose lines set off no heuristic.
Still(c) == Ignored(c) \/ Quiet(TextOf(c))

\* At first there are no bare items, and what is made of that is still.
FirstRun ==
  once = <<>> => /\ step # "done" => Unbare(comment)
                 /\ \A k \in 1..Len(lines) : ~ Bare(lines[k])
                 /\ step = "done" => Still(comment)

\* The second time, lines among which one was at the margin are quiet, and no
\* heuristic was set off yet.
SecondRun ==
  /\ step = "extract" => ~ guessed
  /\ once # <<>> => /\ step = "extract" => comment = once[1] /\ Still(comment)
                    /\ Flat(once[1]) => /\ ~ guessed
                                        /\ step = "parse" => forceIndent = 0 /\ Quiet(lines)

\* The paragraphs are at the margin.
Margins == \A k \in DOMAIN spans : Marginal(lines, spans[k])

RestInv == FirstRun /\ SecondRun /\ Spaced /\ Margins

\* Nothing is parsed yet.
LEMMA RestInit ==
  ASSUME Init, \A c \in Comments : Unbare(c)
  PROVE  RestInv
<1>1. /\ once = <<>> /\ step = "extract" /\ lines = <<>> /\ spans = <<>> /\ ~ guessed
      /\ comment \in Comments
  BY DEF Init
<1>2. Len(<<>>) = 0 /\ DOMAIN <<>> = {} /\ \A k \in 1..0 : FALSE
  BY EmptySeq
<1>3. Len(lines) = 0 /\ DOMAIN spans = {}
  BY <1>1, <1>2
<1>4. Unbare(comment)
  BY <1>1
<1> QED  BY <1>1, <1>2, <1>3, <1>4 DEF RestInv, FirstRun, SecondRun, Spaced, Margins

\* The lines of a comment without bare items have none either, and those of a
\* quiet one with a line at the margin are quiet.
LEMMA ExtractRests ==
  ASSUME IInv, RestInv, Extract
  PROVE  RestInv'
<1>1. /\ comment \in AnyComment /\ step = "extract" /\ once' = once /\ comment' = comment
      /\ guessed' = guessed /\ spans' = spans /\ forceIndent' = forceIndent
      /\ spans = <<>> /\ forceIndent = 0 /\ lines = <<>>
  BY DEF Extract, IInv, Typed, Progress
<1>2. Margins'
  <2>1. DOMAIN spans' = {}
    BY <1>1, EmptySeq
  <2> QED  BY <2>1 DEF Margins
<1>3. CASE Ignored(comment)
  <2>1. step' = "done" /\ lines' = lines
    BY <1>3 DEF Extract
  <2>2. Still(comment')
    BY <1>1, <1>3 DEF Still
  <2>3. FirstRun'
    BY <1>1, <2>1, <2>2 DEF RestInv, FirstRun
  <2>4. SecondRun'
    BY <1>1, <2>1 DEF RestInv, SecondRun
  <2>5. Spaced'
    BY <2>1 DEF RestInv, Spaced
  <2> QED  BY <1>2, <2>3, <2>4, <2>5 DEF RestInv
<1>4. CASE ~ Ignored(comment)
  <2>1. step' = "parse" /\ lines' = unindent(TextOf(comment))
    BY <1>4 DEF Extract
  <2>2. PICK text \in Seq(AnyLine) : text = TextOf(comment)
    BY <1>1, TextTyped
  <2>3. \A k \in 1..Len(lines') : \/ lines'[k] = Blank
                                  \/ /\ Says(lines'[k])
                                     /\ \E j \in 1..Len(text) : lines'[k].words = text[j].words
    BY <2>1, <2>2, UnindentQuiet
  <2>4. Quiet(text) /\ (\E k \in 1..Len(text) : text[k] # Blank /\ ~ indented(text[k])) => Quiet(lines')
    BY <2>1, <2>2, UnindentQuiet
  <2>5. Spaced'
    BY <2>3 DEF Spaced
  <2>6. FirstRun'
    <3> SUFFICES ASSUME once = <<>>, NEW k \in 1..Len(lines'), Bare(lines'[k])  PROVE FALSE
      BY <1>1, <2>1 DEF RestInv, FirstRun
    <3>1. Unbare(comment)
      BY <1>1 DEF RestInv, FirstRun
    <3>2. Says(lines'[k])
      <4>1. ~ (lines'[k] = Blank)
        BY BlankTyped, EmptySeq DEF Bare, isList
      <4> QED  BY <2>3, <4>1
    <3>3. PICK j \in 1..Len(text) : lines'[k].words = text[j].words
      <4>1. ~ (lines'[k] = Blank)
        BY <3>2, BlankTyped DEF Says
      <4> QED  BY <2>3, <4>1
    <3>4. PICK m \in 1..Len(comment.lines) : text[j].words = comment.lines[m].words
      BY <1>1, <2>2, TextWords
    <3>5. Bare(comment.lines[m])
      BY <3>3, <3>4 DEF Bare, isList
    <3> QED  BY <3>1, <3>5 DEF Unbare
  <2>7. SecondRun'
    <3>1. ~ guessed'
      BY <1>1 DEF RestInv, SecondRun
    <3>2. ASSUME once # <<>>, Flat(once[1])  PROVE Quiet(lines')
      <4>1. comment = once[1] /\ Still(comment)
        BY <1>1, <3>2 DEF RestInv, SecondRun
      <4>2. Quiet(text)
        BY <1>4, <2>2, <4>1 DEF Still
      <4>3. \E k \in 1..Len(text) : text[k] # Blank /\ ~ indented(text[k])
        <5>1. DOMAIN text = 1..Len(text)
          BY SeqFacts
        <5> QED  BY <2>2, <3>2, <4>1, <5>1 DEF Flat
      <4> QED  BY <2>4, <4>2, <4>3
    <3> QED  BY <1>1, <2>1, <3>1, <3>2 DEF SecondRun
  <2> QED  BY <1>2, <2>5, <2>6, <2>7 DEF RestInv
<1> QED  BY <1>3, <1>4

\* A span that is added is at the margin if it is a paragraph, and quiet lines
\* set off no heuristic.
LEMMA SpanRests ==
  ASSUME IInv, RestInv, IndentedSpan \/ UnindentedSpan
  PROVE  RestInv'
<1>1. /\ LinesTyped /\ i \in Nat /\ spans \in Seq(SpanSet)
      /\ Spaced
  <2>1. Len(lines) \in Nat /\ i \in 0..Len(lines)
    BY SeqFacts DEF IInv, Typed, LinesTyped, Progress
  <2> QED  BY <2>1 DEF IInv, Typed, Covering, RestInv
<1>2. /\ comment' = comment /\ once' = once /\ step' = step /\ step = "parse" /\ lines' = lines
      /\ IndentedSpan => forceIndent' = forceIndent
  BY DEF IndentedSpan, UnindentedSpan
<1>3. Grown
  BY <1>1, IndentedGrown, UnindentedRests
<1>4. Margins'
  <2>1. \A k \in DOMAIN spans' : Marginal(lines, spans'[k])
    BY <1>1, <1>3, GrownMarginal DEF RestInv, Margins
  <2> QED  BY <1>2, <2>1 DEF Margins
<1>5. FirstRun'
  BY <1>2 DEF RestInv, FirstRun
<1>6. SecondRun'
  <2> SUFFICES ASSUME once # <<>>, Flat(once[1])
               PROVE  ~ guessed' /\ forceIndent' = 0 /\ Quiet(lines')
    BY <1>2 DEF SecondRun
  <2>1. ~ guessed /\ forceIndent = 0 /\ Quiet(lines)
    BY <1>2 DEF RestInv, SecondRun
  <2>2. CASE IndentedSpan
    BY <1>1, <1>2, <2>1, <2>2, IndentedRests
  <2>3. CASE UnindentedSpan
    BY <1>1, <1>2, <2>1, <2>3, UnindentedRests
  <2> QED  BY <2>2, <2>3
<1>7. Spaced'
  BY <1>1, <1>2 DEF Spaced
<1> QED  BY <1>4, <1>5, <1>6, <1>7 DEF RestInv

\* What is printed of lines without bare items is still.
LEMMA FinishRests ==
  ASSUME IInv, RestInv, Finish
  PROVE  RestInv'
<1>1. /\ once' = once /\ lines' = lines /\ spans' = spans /\ guessed' = guessed /\ step' = "done"
      /\ comment' = [comment EXCEPT !.lines = Compose(comment.style, Comment(Blocks(lines, spans)), directives)]
  BY DEF Finish
<1>2. ASSUME once = <<>>  PROVE Still(comment')
  <2>1. /\ lines \in Seq(AnyLine) /\ spans \in Seq(SpanSet) /\ comment \in AnyComment
        /\ directives \in Seq(AnyLine)
        /\ \A k \in 1..Len(directives) : isDirective(directives[k])
    BY DEF IInv, Typed, LinesTyped, Covering, Kept
  <2>2. \A k \in 1..Len(lines) : ~ Bare(lines[k])
    BY <1>2 DEF RestInv, FirstRun
  <2>3. \A k \in DOMAIN spans : Within(lines, spans[k]) /\ Marginal(lines, spans[k])
    BY SpansWithin DEF RestInv, Margins
  <2>4. PICK blocks : blocks = Blocks(lines, spans)
    OBVIOUS
  <2>5. blocks \in Seq(SoundBlocks)
    BY <2>1, <2>2, <2>3, <2>4, BlocksSound
  <2>6. PICK text \in Seq(AnyLine) : text = Comment(blocks)
    <3>1. blocks \in Seq(BlockSet)
      BY <2>1, <2>3, <2>4, BlocksTyped
    <3> QED  BY <3>1, CommentTyped
  <2>7. Quiet(text)
    BY <2>5, <2>6, CommentQuiet
  <2>8. Quiet(TextOf([comment EXCEPT !.lines = Compose(comment.style, text, directives)]))
    BY <2>1, <2>7, PrintedQuiet
  <2> QED  BY <1>1, <2>4, <2>6, <2>8 DEF Still
<1>3. FirstRun' /\ SecondRun'
  BY <1>1, <1>2 DEF RestInv, FirstRun, SecondRun
<1>4. Spaced' /\ Margins'
  BY <1>1 DEF RestInv, Spaced, Margins
<1> QED  BY <1>3, <1>4 DEF RestInv

\* Each step keeps what the heuristics need to rest.
LEMMA RestNext ==
  ASSUME IInv, RestInv, [Next]_vars
  PROVE  RestInv'
<1>1. CASE Again
  <2>1. /\ step = "done" /\ once = <<>> /\ comment' = comment
        /\ once' = <<comment, [k \in DOMAIN spans |-> Blocks(lines, spans)[k].kind]>>
        /\ step' = "extract" /\ lines' = <<>> /\ spans' = <<>> /\ ~ guessed'
    BY <1>1 DEF Again
  <2>2. once' # <<>> /\ once'[1] = comment
    BY <2>1
  <2>3. Still(comment)
    BY <2>1 DEF RestInv, FirstRun
  <2>4. FirstRun'
    BY <2>2 DEF FirstRun
  <2>5. SecondRun'
    BY <2>1, <2>2, <2>3 DEF SecondRun
  <2>6. Len(lines') = 0 /\ DOMAIN spans' = {} /\ \A k \in 1..0 : FALSE
    BY <2>1, EmptySeq
  <2>7. Spaced' /\ Margins'
    BY <2>6 DEF Spaced, Margins
  <2> QED  BY <2>4, <2>5, <2>7 DEF RestInv
<1>2. CASE UNCHANGED vars
  BY <1>2 DEF vars, RestInv, FirstRun, SecondRun, Spaced, Margins
<1> QED  BY <1>1, <1>2, ExtractRests, SpanRests, FinishRests DEF Next

\* Whatever comment gofumpt is given, if no item of it is bare (a marker and the
\* definition of a link): when it is given what it made of that, and one line of
\* that is at the margin, no heuristic is set off (parse.go:198-260).  A bare item
\* is printed as a marker alone and the next block goes on in its line, so that a
\* brace may come to follow an indented line.
THEOREM HeuristicsStayQuiet ==
  ASSUME \A c \in Comments : Unbare(c)
  PROVE  Spec => []HeuristicsRest
<1>1. Init => RestInv
  BY RestInit
<1>2. IInv /\ RestInv /\ [Next]_vars => RestInv'
  BY RestNext
<1>3. RestInv => HeuristicsRest
  BY DEF RestInv, SecondRun, Flat, HeuristicsRest
<1> QED  BY <1>1, <1>2, <1>3, IInvHolds, PTL DEF Spec

------------------------------------------------------------------------------
(* What sequences say, one after another *)

\* The function by which the sequences are put one after another.
Joined(w, seqs, n, S) ==
  /\ \A m \in 0..n : w[m] \in Seq(S)
  /\ \A m \in 1..n : w[m] = w[m - 1] \o seqs[m]

\* The n sequences are those after the a-th of more.
Part(seqs, n, more, a, S) == \A k \in 1..n : seqs[k] \in Seq(S) /\ more[a + k] = seqs[k]

\* What is added by n steps after the a-th.
Adds(w, a, n, added) == w[a + n] = w[a] \o added

\* There is one that starts with nothing and ends with all of them.
LEMMA FlattenJoins ==
  ASSUME NEW S, NEW n \in Nat, NEW seqs \in Seq(Seq(S)), Len(seqs) = n
  PROVE  \E w : Joined(w, seqs, n, S) /\ w[0] = <<>> /\ w[n] = FlattenSeq(seqs)
<1>1. DOMAIN seqs = 1..n /\ \A k \in 1..n : seqs[k] \in Seq(S)
  BY SeqFacts
<1>2. <<>> \in Seq(S) /\ \A s \in Seq(S) : <<>> \o s = s
  BY EmptySeq, ConcatEmptySeq
<1>3. CASE n = 0
  <2>1. FlattenSeq(seqs) = seqs
    BY <1>3 DEF FlattenSeq
  <2>2. seqs = <<>>
    BY <1>3, EmptySeq
  <2> DEFINE w == [m \in 0..0 |-> <<>>]
  <2>3. (\A m \in 0..0 : w[m] \in Seq(S)) /\ w[0] = <<>>
    BY <1>2
  <2>4. 1..0 = {}
    OBVIOUS
  <2> HIDE DEF w
  <2>5. Joined(w, seqs, 0, S)
    BY <2>3, <2>4 DEF Joined
  <2> QED  BY <1>3, <2>1, <2>2, <2>3, <2>5
<1>4. CASE n # 0
  <2> DEFINE Body(f, m) == f = [k \in 1..m |-> IF k = 1 THEN seqs[k] ELSE f[k - 1] \o seqs[k]]
             Good(m) == \E f \in [1..m -> Seq(S)] : Body(f, m)
             Bad == {m \in 1..n : ~ Good(m)}
             flatten == CHOOSE f : Body(f, n)
             D == Seq(S)
  <2>1. 1 \in 1..n
    BY <1>4
  <2>2. Good(1)
    <3> DEFINE f == [k \in 1..1 |-> seqs[k]]
    <3>1. f \in [1..1 -> Seq(S)]
      BY <1>1, <2>1
    <3>2. Body(f, 1)
      OBVIOUS
    <3> QED  BY <3>1, <3>2
  <2>3. ASSUME NEW m \in 2..n, Good(m - 1)  PROVE Good(m)
    <3>1. PICK old \in [1..(m - 1) -> Seq(S)] : Body(old, m - 1)
      BY <2>3
    <3> DEFINE f == [k \in 1..m |-> IF k = m THEN old[m - 1] \o seqs[m] ELSE old[k]]
    <3>2. old[m - 1] \o seqs[m] \in Seq(S)
      <4>1. m - 1 \in 1..(m - 1) /\ m \in 1..n
        OBVIOUS
      <4>2. old[m - 1] \in Seq(S) /\ seqs[m] \in Seq(S)
        BY <1>1, <4>1
      <4> QED  BY <4>2, ConcatProperties
    <3>3. \A k \in 1..m : k # m => k \in 1..(m - 1)
      OBVIOUS
    <3>4. f \in [1..m -> Seq(S)]
      BY <3>2, <3>3
    <3>5. ASSUME NEW k \in 1..m
          PROVE  f[k] = IF k = 1 THEN seqs[k] ELSE f[k - 1] \o seqs[k]
      <4>1. CASE k = m
        <5>1. k # 1 /\ k - 1 \in 1..m /\ k - 1 # m
          BY <4>1
        <5> QED  BY <4>1, <5>1
      <4>2. CASE k # m
        <5>1. f[k] = old[k] /\ k \in 1..(m - 1)
          BY <3>3, <4>2
        <5>2. old[k] = IF k = 1 THEN seqs[k] ELSE old[k - 1] \o seqs[k]
          BY <3>1, <5>1
        <5>3. k # 1 => k - 1 \in 1..m /\ k - 1 # m
          BY <5>1
        <5> QED  BY <5>1, <5>2, <5>3
      <4> QED  BY <4>1, <4>2
    <3>6. f = [k \in 1..m |-> f[k]]
      OBVIOUS
    <3> HIDE DEF f
    <3>7. Body(f, m)
      BY <3>5, <3>6
    <3> QED  BY <3>4, <3>7
  <2> HIDE DEF Body
  <2>4. Good(n)
    <3> HIDE DEF Good
    <3>1. Bad = {}
      <4> SUFFICES ASSUME Bad # {}  PROVE FALSE
        OBVIOUS
      <4>1. Bad \subseteq Nat
        OBVIOUS
      <4>2. PICK m \in Bad : \A y \in Bad : m <= y
        BY <4>1, LeastNatural
      <4>3. m \in 1..n /\ ~ Good(m)
        BY <4>2
      <4>4. m \in 2..n
        BY <2>2, <4>3
      <4>5. m - 1 \in 1..n /\ ~ (m <= m - 1)
        BY <4>4
      <4>6. Good(m - 1)
        BY <4>2, <4>5
      <4> QED  BY <2>3, <4>3, <4>4, <4>6
    <3>2. n \in 1..n
      BY <1>4
    <3> QED  BY <3>1, <3>2
  <2>5. Body(flatten, n)
    BY <2>4
  <2>6. FlattenSeq(seqs) = flatten[n]
    BY <1>4 DEF FlattenSeq, Body
  <2> HIDE DEF flatten
  <2> DEFINE w == [m \in 0..n |-> IF m = 0 THEN <<>> ELSE flatten[m]]
  <2>7. w[0] = <<>> /\ w[n] = flatten[n]
    BY <1>4
  <2>8. ASSUME NEW m \in 1..n  PROVE w[m] = w[m - 1] \o seqs[m]
    <3>1. flatten[m] = IF m = 1 THEN seqs[m] ELSE flatten[m - 1] \o seqs[m]
      BY <2>5 DEF Body
    <3>2. seqs[m] \in Seq(S) /\ <<>> \o seqs[m] = seqs[m]
      BY <1>1, <1>2
    <3>3. w[m] = flatten[m] /\ w[m - 1] = IF m = 1 THEN <<>> ELSE flatten[m - 1]
      OBVIOUS
    <3> HIDE DEF w
    <3> QED  BY <3>1, <3>2, <3>3
  <2>9. \A m \in 0..n : w[m] \in D
    <3> SUFFICES ASSUME NEW k \in 0..n  PROVE w[k] \in D
      OBVIOUS
    <3> HIDE DEF w
    <3>1. w[0] \in D
      BY <1>2, <2>7
    <3>2. ASSUME NEW m \in (0 + 1)..k, w[m - 1] \in D  PROVE w[m] \in D
      <4>1. m \in 1..n
        OBVIOUS
      <4>2. seqs[m] \in Seq(S)
        BY <1>1, <4>1
      <4> QED  BY <2>8, <3>2, <4>1, <4>2, ConcatProperties
    <3>3. 0 \in Nat /\ k \in Nat /\ 0 <= k
      OBVIOUS
    <3> HIDE DEF D
    <3> QED  BY <3>1, <3>2, <3>3, Climbs
  <2> HIDE DEF w
  <2>10. Joined(w, seqs, n, S)
    BY <2>8, <2>9 DEF Joined
  <2> QED  BY <2>6, <2>7, <2>10
<1> QED  BY <1>3, <1>4 DEF Adds

\* The same sequences after different ones, or the same later in another sequence:
\* what is joined differs by what was there before.
LEMMA JoinedAfter ==
  ASSUME NEW S, NEW n \in Nat, NEW a \in Nat, NEW seqs, NEW more, NEW v, NEW w,
         Part(seqs, n, more, a, S), Joined(v, seqs, n, S), Joined(w, more, a + n, S),
         v[0] = <<>>
  PROVE  Adds(w, a, n, v[n])
<1> DEFINE same == [m \in 0..n |-> w[a + m] = w[a] \o v[m]]
           D == {TRUE}
<1>0. /\ \A m \in 0..n : v[m] \in Seq(S)
      /\ \A m \in 0..(a + n) : w[m] \in Seq(S)
      /\ \A m \in 1..n : v[m] = v[m - 1] \o seqs[m]
      /\ \A m \in 1..(a + n) : w[m] = w[m - 1] \o more[m]
      /\ \A k \in 1..n : seqs[k] \in Seq(S) /\ more[a + k] = seqs[k]
  BY DEF Joined, Part
<1>1. same[0] = TRUE
  <2>0. a \in 0..(a + n)
    OBVIOUS
  <2>1. w[a] \in Seq(S) /\ a + 0 = a /\ 0 \in 0..n
    BY <1>0, <2>0
  <2>2. w[a] \o <<>> = w[a]
    BY <2>1, ConcatEmptySeq
  <2> QED  BY <2>1, <2>2
<1>2. ASSUME NEW m \in 1..n, same[m - 1] = TRUE  PROVE same[m] = TRUE
  <2>1. m - 1 \in 0..n /\ m \in 0..n /\ a + m \in 1..(a + n) /\ a + (m - 1) = (a + m) - 1 /\ a \in 0..(a + n)
    OBVIOUS
  <2>2. w[a + (m - 1)] = w[a] \o v[m - 1]
    BY <1>2, <2>1
  <2>3. w[a + m] = (w[a] \o v[m - 1]) \o seqs[m]
    BY <1>0, <2>1, <2>2, ZenonT(30)
  <2>4. PICK x \in Seq(S), y \in Seq(S), z \in Seq(S) : x = w[a] /\ y = v[m - 1] /\ z = seqs[m]
    BY <1>0, <2>1
  <2>7. (x \o y) \o z = x \o (y \o z)
    BY ConcatAssociative, SMTT(30)
  <2>5. (w[a] \o v[m - 1]) \o seqs[m] = w[a] \o (v[m - 1] \o seqs[m])
    BY <2>4, <2>7
  <2>6. w[a + m] = w[a] \o v[m]
    BY <1>0, <2>3, <2>5
  <2> QED  BY <2>1, <2>6
<1>3. ASSUME NEW x \in 0..n  PROVE w[a + x] = w[a] \o v[x]
  <2>1. same[0] \in D
    BY <1>1
  <2>2. ASSUME NEW m \in (0 + 1)..x, same[m - 1] \in D  PROVE same[m] \in D
    <3>1. m \in 1..n
      OBVIOUS
    <3> HIDE DEF same
    <3> QED  BY <1>2, <2>2, <3>1
  <2>3. 0 \in Nat /\ x \in Nat /\ 0 <= x
    OBVIOUS
  <2>4. same[x] \in D
    <3> HIDE DEF same, D
    <3> QED  BY <2>1, <2>2, <2>3, Climbs
  <2> QED  BY <2>4
<1>4. n \in 0..n
  OBVIOUS
<1> QED  BY <1>3, <1>4 DEF Adds

\* Nothing, and one sequence more.
LEMMA FlattenNone == FlattenSeq(<<>>) = <<>>
<1>1. <<>> \in Seq(Seq({})) /\ Len(<<>>) = 0
  BY EmptySeq
<1>2. PICK w : Joined(w, <<>>, 0, {}) /\ w[0] = <<>> /\ w[0] = FlattenSeq(<<>>)
  <2>1. 0 \in Nat
    OBVIOUS
  <2> QED  BY <1>1, <2>1, FlattenJoins
<1> QED  BY <1>2

\* Two sequences of sequences, one after the other.
LEMMA FlattenConcat ==
  ASSUME NEW S, NEW a \in Seq(Seq(S)), NEW b \in Seq(Seq(S))
  PROVE  FlattenSeq(a \o b) = FlattenSeq(a) \o FlattenSeq(b)
<1>1. PICK m \in Nat, n \in Nat : m = Len(a) /\ n = Len(b)
  BY SeqFacts
<1>2. /\ a \o b \in Seq(Seq(S)) /\ Len(a \o b) = m + n
      /\ \A k \in 1..m : (a \o b)[k] = a[k]
      /\ \A k \in 1..n : (a \o b)[m + k] = b[k]
  <2>1. /\ a \o b \in Seq(Seq(S)) /\ Len(a \o b) = m + n
        /\ \A k \in 1..(m + n) : (a \o b)[k] = IF k <= m THEN a[k] ELSE b[k - m]
    BY <1>1, ConcatProperties
  <2>2. \A k \in 1..m : k \in 1..(m + n) /\ k <= m
    OBVIOUS
  <2>3. \A k \in 1..n : m + k \in 1..(m + n) /\ ~ (m + k <= m) /\ (m + k) - m = k
    OBVIOUS
  <2> QED  BY <2>1, <2>2, <2>3
<1>3. m + n \in Nat
  OBVIOUS
<1>4. PICK w : Joined(w, a \o b, m + n, S) /\ w[0] = <<>> /\ w[m + n] = FlattenSeq(a \o b)
  BY <1>2, <1>3, FlattenJoins
<1>5. PICK u : Joined(u, a, m, S) /\ u[0] = <<>> /\ u[m] = FlattenSeq(a)
  BY <1>1, FlattenJoins
<1>6. PICK v : Joined(v, b, n, S) /\ v[0] = <<>> /\ v[n] = FlattenSeq(b)
  BY <1>1, FlattenJoins
<1>7. (\A k \in 1..m : a[k] \in Seq(S)) /\ (\A k \in 1..n : b[k] \in Seq(S))
  BY <1>1, SeqFacts
<1>8. w[m] = u[m]
  <2>1. Joined(w, a \o b, m, S)
    <3>1. \A k \in 0..m : k \in 0..(m + n)
      OBVIOUS
    <3>2. \A k \in 1..m : k \in 1..(m + n)
      OBVIOUS
    <3> QED  BY <1>4, <3>1, <3>2 DEF Joined
  <2>2. Part(a, m, a \o b, 0, S)
    <3>1. \A k \in 1..m : 0 + k = k
      OBVIOUS
    <3> QED  BY <1>2, <1>7, <3>1 DEF Part
  <2>3. 0 \in Nat /\ m \in 0..m /\ 0 + m = m
    OBVIOUS
  <2>7. Joined(u, a, m, S) /\ u[0] = <<>> /\ Joined(w, a \o b, 0 + m, S)
    BY <1>5, <2>1, <2>3
  <2>4. Adds(w, 0, m, u[m])
    BY <2>2, <2>3, <2>7, JoinedAfter
  <2>5. w[m] = <<>> \o u[m]
    BY <1>4, <2>3, <2>4 DEF Adds
  <2>6. u[m] \in Seq(S)
    BY <1>5, <2>3 DEF Joined
  <2> QED  BY <2>5, <2>6, ConcatEmptySeq
<1>9. w[m + n] = w[m] \o v[n]
  <2>1. Part(b, n, a \o b, m, S)
    BY <1>2, <1>7 DEF Part
  <2>4. Joined(v, b, n, S) /\ v[0] = <<>> /\ Joined(w, a \o b, m + n, S)
    BY <1>4, <1>6
  <2>5. Adds(w, m, n, v[n])
    BY <2>1, <2>4, JoinedAfter
  <2> QED  BY <2>5 DEF Adds
<1> QED  BY <1>4, <1>5, <1>6, <1>8, <1>9

\* A single one is itself.
LEMMA FlattenOne ==
  ASSUME NEW S, NEW e \in Seq(S)
  PROVE  FlattenSeq(<<e>>) = e
<1>1. <<e>> \in Seq(Seq(S)) /\ Len(<<e>>) = 1 /\ <<e>>[1] = e
  BY SingleTyped
<1>2. 1 \in Nat
  OBVIOUS
<1>3. PICK w : Joined(w, <<e>>, 1, S) /\ w[0] = <<>> /\ w[1] = FlattenSeq(<<e>>)
  BY <1>1, <1>2, FlattenJoins
<1>4. w[1] = <<>> \o e
  <2>1. 1 \in 1..1 /\ 1 - 1 = 0
    OBVIOUS
  <2> QED  BY <1>1, <1>3, <2>1 DEF Joined
<1> QED  BY <1>3, <1>4, ConcatEmptySeq

\* One sequence more at the end.
LEMMA FlattenAppend ==
  ASSUME NEW S, NEW a \in Seq(Seq(S)), NEW e \in Seq(S)
  PROVE  FlattenSeq(Append(a, e)) = FlattenSeq(a) \o e
<1>1. Append(a, e) = a \o <<e>>
  BY AppendIsConcat
<1>2. <<e>> \in Seq(Seq(S))
  BY SingleTyped
<1>3. FlattenSeq(a \o <<e>>) = FlattenSeq(a) \o FlattenSeq(<<e>>)
  BY <1>2, FlattenConcat
<1> QED  BY <1>1, <1>3, FlattenOne

------------------------------------------------------------------------------
(* Words without the marks they start with *)

\* The words that are no marks.
Unlike(words) == {k \in DOMAIN words : words[k] \notin Marks}

\* Words without marks start at the first that is none.
LEMMA UnmarkedFound ==
  ASSUME NEW words \in Seq(Word)
  PROVE  /\ Unlike(words) = {} => Unmarked(words) = <<>>
         /\ Unlike(words) # {} => /\ Min(Unlike(words)) \in Unlike(words)
                                  /\ \A y \in Unlike(words) : Min(Unlike(words)) <= y
                                  /\ Unmarked(words) = SubSeq(words, Min(Unlike(words)), Len(words))
         /\ Unmarked(words) \in Seq(Word)
<1>1. PICK n \in Nat : n = Len(words)
  BY SeqFacts
<1>2. DOMAIN words = 1..n /\ \A k \in 1..n : words[k] \in Word
  BY <1>1, SeqFacts
<1>3. Unmarked(words) = IF Unlike(words) = {} THEN <<>> ELSE SubSeq(words, Min(Unlike(words)), Len(words))
  BY DEF Unmarked, Unlike
<1>4. CASE Unlike(words) = {}
  BY <1>3, <1>4, EmptySeq
<1>5. CASE Unlike(words) # {}
  <2>1. Unlike(words) \subseteq 1..n /\ 1 \in Int /\ n \in Int
    BY <1>2 DEF Unlike
  <2>2. Min(Unlike(words)) \in Unlike(words) /\ \A y \in Unlike(words) : Min(Unlike(words)) <= y
    BY <1>5, <2>1, MinIn
  <2>3. PICK m \in 1..n : m = Min(Unlike(words))
    BY <2>1, <2>2
  <2>4. m \in Int /\ n \in Int /\ \A k \in m..n : words[k] \in Word
    BY <1>2
  <2>5. SubSeq(words, m, n) \in Seq(Word)
    BY <2>4, SubSeqProperties
  <2> QED  BY <1>1, <1>3, <1>5, <2>2, <2>3, <2>5
<1> QED  BY <1>4, <1>5

\* Words after marks have the same rest.
LEMMA UnmarkedAfter ==
  ASSUME NEW marks \in Seq(Word), \A k \in 1..Len(marks) : marks[k] \in Marks,
         NEW words \in Seq(Word)
  PROVE  Unmarked(marks \o words) = Unmarked(words)
<1> DEFINE all == marks \o words
<1>1. PICK m \in Nat, n \in Nat : m = Len(marks) /\ n = Len(words)
  BY SeqFacts
<1>2. /\ all \in Seq(Word) /\ Len(all) = m + n
      /\ \A k \in 1..(m + n) : all[k] = IF k <= m THEN marks[k] ELSE words[k - m]
  BY <1>1, ConcatProperties
<1> HIDE DEF all
<1>3. DOMAIN all = 1..(m + n) /\ DOMAIN words = 1..n
  BY <1>1, <1>2, SeqFacts
<1>4. \A k \in 1..(m + n) : k \in Unlike(all) <=> k - m \in Unlike(words)
  <2> SUFFICES ASSUME NEW k \in 1..(m + n)
               PROVE  k \in Unlike(all) <=> k - m \in Unlike(words)
    OBVIOUS
  <2>1. CASE k <= m
    <3>1. all[k] \in Marks
      BY <1>1, <1>2, <2>1
    <3>2. ~ (k - m \in 1..n)
      BY <2>1
    <3> QED  BY <1>3, <3>1, <3>2 DEF Unlike
  <2>2. CASE ~ (k <= m)
    <3>1. all[k] = words[k - m] /\ k - m \in 1..n
      BY <1>2, <2>2
    <3> QED  BY <1>3, <3>1 DEF Unlike
  <2> QED  BY <2>1, <2>2
<1>5. Unlike(all) \subseteq 1..(m + n) /\ Unlike(words) \subseteq 1..n
  BY <1>3 DEF Unlike
<1>6. \A k \in Unlike(words) : k + m \in 1..(m + n) /\ (k + m) - m = k /\ k + m \in Unlike(all)
  <2> SUFFICES ASSUME NEW k \in Unlike(words)
               PROVE  k + m \in 1..(m + n) /\ (k + m) - m = k /\ k + m \in Unlike(all)
    OBVIOUS
  <2>1. k \in 1..n
    BY <1>5
  <2>2. k + m \in 1..(m + n) /\ (k + m) - m = k
    BY <2>1
  <2> QED  BY <1>4, <2>2
<1>7. CASE Unlike(words) = {}
  <2>1. Unlike(all) = {}
    BY <1>4, <1>5, <1>7
  <2> QED  BY <1>2, <1>7, <2>1, UnmarkedFound DEF all
<1>8. CASE Unlike(words) # {}
  <2>1. PICK a \in 1..n : a = Min(Unlike(words)) /\ a \in Unlike(words) /\ \A y \in Unlike(words) : a <= y
    BY <1>5, <1>8, UnmarkedFound
  <2>2. Unlike(all) # {}
    BY <1>6, <1>8
  <2>3. PICK b \in 1..(m + n) : b = Min(Unlike(all)) /\ b \in Unlike(all) /\ \A y \in Unlike(all) : b <= y
    BY <1>2, <1>5, <2>2, UnmarkedFound
  <2>4. b = a + m
    <3>1. b <= a + m
      BY <1>6, <2>1, <2>3
    <3>2. a <= b - m
      BY <1>4, <2>1, <2>3
    <3> QED  BY <3>1, <3>2
  <2>5. Unmarked(all) = SubSeq(all, a + m, m + n) /\ Unmarked(words) = SubSeq(words, a, n)
    BY <1>1, <1>2, <1>8, <2>1, <2>2, <2>3, <2>4, UnmarkedFound
  <2>6. SubSeq(all, a + m, m + n) = SubSeq(words, a, n)
    <3>1. a + m \in (m + 1)..(m + n) /\ m + n \in (m + 1)..(m + n) /\ (a + m) - m = a /\ (m + n) - m = n
      OBVIOUS
    <3>2. a + m \in (Len(marks) + 1)..(Len(marks) + Len(words))
          /\ m + n \in (Len(marks) + 1)..(Len(marks) + Len(words))
      BY <1>1, <3>1
    <3>3. SubSeq(marks \o words, a + m, m + n) = SubSeq(words, (a + m) - Len(marks), (m + n) - Len(marks))
      BY <3>2, SubSeqOfConcat2
    <3> QED  BY <1>1, <3>1, <3>3 DEF all
  <2> QED  BY <2>5, <2>6 DEF all
<1> QED  BY <1>7, <1>8

\* No words, one mark before words, and a mark alone.
LEMMA UnmarkedNone == Unmarked(<<>>) = <<>>
<1>1. <<>> \in Seq(Word) /\ DOMAIN <<>> = {}
  BY EmptySeq
<1>2. Unlike(<<>>) = {}
  BY <1>1 DEF Unlike
<1> QED  BY <1>1, <1>2, UnmarkedFound

\* One mark before words says nothing.
LEMMA UnmarkedOne ==
  ASSUME NEW m \in Word, m \in Marks, NEW words \in Seq(Word)
  PROVE  Unmarked(<<m>> \o words) = Unmarked(words)
<1>2. <<m>> \in Seq(Word) /\ Len(<<m>>) = 1 /\ <<m>>[1] = m
  BY SingleTyped
<1>3. \A k \in 1..Len(<<m>>) : <<m>>[k] \in Marks
  BY <1>2
<1> QED  BY <1>2, <1>3, UnmarkedAfter

\* Nor does one that is taken away.
LEMMA UnmarkedTail ==
  ASSUME NEW words \in Seq(Word), words # <<>>, words[1] \in Marks
  PROVE  Tail(words) \in Seq(Word) /\ Unmarked(Tail(words)) = Unmarked(words)
<1>1. Tail(words) \in Seq(Word)
  BY HeadTailProperties
<1>2. <<words[1]>> \o Tail(words) = words
  <2>1. PICK n \in Nat : n = Len(words) /\ n >= 1
    BY SeqFacts, EmptySeq
  <2>2. 1 \in 1..Len(words) /\ Len(words) \in 1..Len(words)
    BY <2>1
  <2>3. SubSeq(words, 1, Len(words)) = <<words[1]>> \o SubSeq(words, 1 + 1, Len(words))
    BY <2>2, SubSeqRecursiveFirst
  <2>4. Tail(words) = SubSeq(words, 2, Len(words)) /\ SubSeq(words, 1, Len(words)) = words
    BY TailIsSubSeq, SubSeqFull
  <2> QED  BY <2>3, <2>4
<1>3. words[1] \in Word
  <2>1. 1 \in 1..Len(words)
    BY SeqFacts, EmptySeq
  <2> QED  BY <2>1, SeqFacts
<1>4. Unmarked(<<words[1]>> \o Tail(words)) = Unmarked(Tail(words))
  BY <1>1, <1>3, UnmarkedOne
<1> QED  BY <1>1, <1>2, <1>4

\* The definition of a link has no marks.
LEMMA UnmarkedLink ==
  ASSUME NEW words \in Seq(Word), IsLink(words)
  PROVE  Unmarked(words) = words
<1>1. Len(words) = 2 /\ words[1] = "[a]:" /\ DOMAIN words = 1..2
  BY DEF IsLink
<1>2. ~ ("[a]:" \in Marks)
  BY DEF Marks, Bullets, Numbers
<1>3. 1 \in Unlike(words)
  BY <1>1, <1>2 DEF Unlike
<1>4. Unlike(words) \subseteq 1..2
  BY <1>1 DEF Unlike
<1>5. Min(Unlike(words)) = 1
  <2>1. Min(Unlike(words)) \in Unlike(words) /\ Min(Unlike(words)) <= 1
    BY <1>3, UnmarkedFound
  <2> QED  BY <1>4, <2>1
<1>6. Unmarked(words) = SubSeq(words, 1, Len(words))
  BY <1>3, <1>5, UnmarkedFound
<1> QED  BY <1>6, SubSeqFull


------------------------------------------------------------------------------
(* What a text is read as *)

\* It may stand anywhere.
Moves(t, X) == \A s \in Seq(X) : t \o s = s \o t

\* What words are read as: nothing if there are none, and the definition of a link
\* as what may stand anywhere.
Reader(h, X) ==
  /\ h \in [Seq(Word) -> Seq(X)]
  /\ h[<<>>] = <<>>
  /\ \A words \in Seq(Word) : IsLink(words) => Moves(h[words], X)

\* The lines of a text are read without their marks.
Each(text, h) == [k \in DOMAIN text |-> h[Unmarked(text[k].words)]]
Read(text, h) == FlattenSeq(Each(text, h))

\* Each line is read to a sequence, and all of them to one.
LEMMA EachTyped ==
  ASSUME NEW X, NEW h, Reader(h, X), NEW text \in Seq(AnyLine)
  PROVE  /\ Each(text, h) \in Seq(Seq(X)) /\ Len(Each(text, h)) = Len(text)
         /\ \A k \in 1..Len(text) : Each(text, h)[k] = h[Unmarked(text[k].words)]
<1>1. PICK n \in Nat : n = Len(text)
  BY SeqFacts
<1>2. DOMAIN text = 1..n /\ \A k \in 1..n : text[k] \in AnyLine
  BY <1>1, SeqFacts
<1>3. \A k \in 1..n : Unmarked(text[k].words) \in Seq(Word)
  BY <1>2, FieldsTyped, UnmarkedFound
<1>4. Each(text, h) = [k \in 1..n |-> h[Unmarked(text[k].words)]]
  BY <1>2 DEF Each
<1>5. Each(text, h) \in [1..n -> Seq(X)]
  BY <1>3, <1>4 DEF Reader
<1>6. Each(text, h) \in Seq(Seq(X)) /\ Len(Each(text, h)) = n
  BY <1>5, FunctionIsSeq
<1> QED  BY <1>1, <1>4, <1>6

LEMMA ReadTyped ==
  ASSUME NEW X, NEW h, Reader(h, X), NEW text \in Seq(AnyLine)
  PROVE  Read(text, h) \in Seq(X)
  BY EachTyped, FlattenTyped DEF Read

\* No line says nothing.
LEMMA ReadNone ==
  ASSUME NEW X, NEW h, Reader(h, X)
  PROVE  Read(<<>>, h) = <<>>
<1>1. <<>> \in Seq(AnyLine) /\ Len(<<>>) = 0
  BY EmptySeq
<1>2. Each(<<>>, h) \in Seq(Seq(X)) /\ Len(Each(<<>>, h)) = 0
  BY <1>1, EachTyped
<1>3. Each(<<>>, h) = <<>>
  BY <1>2, EmptySeq
<1> QED  BY <1>3, FlattenNone DEF Read

\* Texts that are read as the same line by line.
LEMMA ReadSame ==
  ASSUME NEW X, NEW h, Reader(h, X), NEW a \in Seq(AnyLine), NEW b \in Seq(AnyLine), Len(a) = Len(b),
         \A k \in 1..Len(a) : Unmarked(a[k].words) = Unmarked(b[k].words)
  PROVE  Read(a, h) = Read(b, h)
<1>1. PICK n \in Nat : n = Len(a) /\ n = Len(b) /\ DOMAIN a = 1..n /\ DOMAIN b = 1..n
  BY SeqFacts
<1>2. \A k \in 1..n : Unmarked(a[k].words) = Unmarked(b[k].words)
  BY <1>1
<1>3. Each(a, h) = [k \in 1..n |-> h[Unmarked(a[k].words)]]
  BY <1>1 DEF Each
<1>4. Each(b, h) = [k \in 1..n |-> h[Unmarked(b[k].words)]]
  BY <1>1 DEF Each
<1>5. Each(a, h) = Each(b, h)
  BY <1>2, <1>3, <1>4
<1> QED  BY <1>5 DEF Read

\* Text after text is read in that order.
LEMMA ReadConcat ==
  ASSUME NEW X, NEW h, Reader(h, X), NEW a \in Seq(AnyLine), NEW b \in Seq(AnyLine)
  PROVE  Read(a \o b, h) = Read(a, h) \o Read(b, h)
<1>1. PICK m \in Nat, n \in Nat : m = Len(a) /\ n = Len(b)
  BY SeqFacts
<1>2. /\ a \o b \in Seq(AnyLine) /\ Len(a \o b) = m + n
      /\ \A k \in 1..(m + n) : (a \o b)[k] = IF k <= m THEN a[k] ELSE b[k - m]
  BY <1>1, ConcatProperties
<1>3. /\ Each(a, h) \in Seq(Seq(X)) /\ Len(Each(a, h)) = m
      /\ \A k \in 1..m : Each(a, h)[k] = h[Unmarked(a[k].words)]
  BY <1>1, EachTyped
<1>4. /\ Each(b, h) \in Seq(Seq(X)) /\ Len(Each(b, h)) = n
      /\ \A k \in 1..n : Each(b, h)[k] = h[Unmarked(b[k].words)]
  BY <1>1, EachTyped
<1>10. PICK both \in Seq(AnyLine) : both = a \o b
  BY <1>2
<1>5. /\ Each(both, h) \in Seq(Seq(X)) /\ Len(Each(both, h)) = m + n
      /\ \A k \in 1..(m + n) : Each(both, h)[k] = h[Unmarked(both[k].words)]
  <2>1. Len(both) = m + n
    BY <1>2, <1>10
  <2>2. /\ Each(both, h) \in Seq(Seq(X)) /\ Len(Each(both, h)) = Len(both)
        /\ \A k \in 1..Len(both) : Each(both, h)[k] = h[Unmarked(both[k].words)]
    BY EachTyped
  <2> QED  BY <2>1, <2>2
<1>6. /\ Each(a, h) \o Each(b, h) \in Seq(Seq(X)) /\ Len(Each(a, h) \o Each(b, h)) = m + n
      /\ \A k \in 1..(m + n) : (Each(a, h) \o Each(b, h))[k] = IF k <= m THEN Each(a, h)[k] ELSE Each(b, h)[k - m]
  <2>1. \A p, q \in Seq(Seq(X)) :
          /\ p \o q \in Seq(Seq(X)) /\ Len(p \o q) = Len(p) + Len(q)
          /\ \A k \in 1..(Len(p) + Len(q)) : (p \o q)[k] = IF k <= Len(p) THEN p[k] ELSE q[k - Len(p)]
    BY ConcatProperties
  <2> QED  BY <1>3, <1>4, <2>1
<1>7. \A k \in 1..(m + n) : Each(both, h)[k] = (Each(a, h) \o Each(b, h))[k]
  <2> SUFFICES ASSUME NEW k \in 1..(m + n)
               PROVE  Each(both, h)[k] = (Each(a, h) \o Each(b, h))[k]
    OBVIOUS
  <2>1. Each(both, h)[k] = h[Unmarked(both[k].words)]
    BY <1>5
  <2>2. CASE k <= m
    <3>1. k \in 1..m /\ both[k] = a[k]
      BY <1>2, <1>10, <2>2
    <3> QED  BY <1>3, <1>6, <2>1, <2>2, <3>1
  <2>3. CASE ~ (k <= m)
    <3>1. k - m \in 1..n /\ both[k] = b[k - m]
      BY <1>2, <1>10, <2>3
    <3> QED  BY <1>4, <1>6, <2>1, <2>3, <3>1
  <2> QED  BY <2>2, <2>3
<1>8. Each(both, h) = Each(a, h) \o Each(b, h)
  BY <1>5, <1>6, <1>7, SeqEqual
<1> QED  BY <1>3, <1>4, <1>8, <1>10, FlattenConcat DEF Read

LEMMA ReadOne ==
  ASSUME NEW X, NEW h, Reader(h, X), NEW line \in AnyLine
  PROVE  Read(<<line>>, h) = h[Unmarked(line.words)]
<1>1. <<line>> \in Seq(AnyLine) /\ Len(<<line>>) = 1 /\ <<line>>[1] = line
  BY SingleTyped
<1>2. h[Unmarked(line.words)] \in Seq(X)
  BY FieldsTyped, UnmarkedFound DEF Reader
<1>3. Each(<<line>>, h) = <<h[Unmarked(line.words)]>>
  <2>1. DOMAIN <<line>> = 1..1
    BY <1>1, SeqFacts
  <2> QED  BY <1>1, <2>1 DEF Each
<1> QED  BY <1>2, <1>3, FlattenOne DEF Read

LEMMA ReadAppend ==
  ASSUME NEW X, NEW h, Reader(h, X), NEW text \in Seq(AnyLine), NEW line \in AnyLine
  PROVE  Read(Append(text, line), h) = Read(text, h) \o h[Unmarked(line.words)]
<1>1. Append(text, line) = text \o <<line>> /\ <<line>> \in Seq(AnyLine)
  BY AppendIsConcat, SingleTyped
<1>2. Read(text \o <<line>>, h) = Read(text, h) \o Read(<<line>>, h)
  BY <1>1, ReadConcat
<1> QED  BY <1>1, <1>2, ReadOne

\* All of nothing is nothing.
LEMMA FlattenEmpties ==
  ASSUME NEW S, NEW seqs \in Seq(Seq(S)), \A k \in 1..Len(seqs) : seqs[k] = <<>>
  PROVE  FlattenSeq(seqs) = <<>>
<1>1. PICK n \in Nat : n = Len(seqs)
  BY SeqFacts
<1>2. PICK w : Joined(w, seqs, n, S) /\ w[0] = <<>> /\ w[n] = FlattenSeq(seqs)
  BY <1>1, FlattenJoins
<1> DEFINE D == {<<>>}
<1>3. w[0] \in D
  BY <1>2
<1>4. ASSUME NEW m \in (0 + 1)..n, w[m - 1] \in D  PROVE w[m] \in D
  <2>1. m \in 1..n
    OBVIOUS
  <2>2. w[m] = w[m - 1] \o seqs[m]
    BY <1>2, <2>1 DEF Joined
  <2>3. w[m - 1] = <<>> /\ seqs[m] = <<>> /\ <<>> \o <<>> = <<>>
    BY <1>1, <1>4, <2>1
  <2> QED  BY <2>2, <2>3
<1>5. 0 \in Nat /\ 0 <= n
  OBVIOUS
<1>6. w[n] \in D
  <2> HIDE DEF D
  <2> QED  BY <1>3, <1>4, <1>5, Climbs
<1> QED  BY <1>2, <1>6

\* Lines without words say nothing.
LEMMA ReadBlanks ==
  ASSUME NEW X, NEW h, Reader(h, X), NEW text \in Seq(AnyLine), \A k \in 1..Len(text) : text[k].words = <<>>
  PROVE  Read(text, h) = <<>>
<1>1. \A k \in 1..Len(text) : Each(text, h)[k] = <<>>
  <2> SUFFICES ASSUME NEW k \in 1..Len(text)  PROVE Each(text, h)[k] = <<>>
    OBVIOUS
  <2>1. Each(text, h)[k] = h[Unmarked(text[k].words)]
    BY EachTyped
  <2>2. Unmarked(text[k].words) = <<>>
    BY UnmarkedNone
  <2>3. h[<<>>] = <<>>
    BY DEF Reader
  <2> QED  BY <2>1, <2>2, <2>3
<1> QED  BY <1>1, EachTyped, FlattenEmpties DEF Read


------------------------------------------------------------------------------
(* Blank lines and white space say nothing *)

\* Part of a sequence, element by element.
LEMMA SubSeqTyped ==
  ASSUME NEW S, NEW seq \in Seq(S), NEW a \in Nat \ {0}, NEW b \in Nat, b <= Len(seq)
  PROVE  /\ SubSeq(seq, a, b) \in Seq(S)
         /\ Len(SubSeq(seq, a, b)) = IF a <= b THEN b - a + 1 ELSE 0
         /\ \A k \in 1..(b - a + 1) : SubSeq(seq, a, b)[k] = seq[a + k - 1]
<1>1. PICK n \in Nat : n = Len(seq)
  BY SeqFacts
<1>2. \A k \in 1..n : seq[k] \in S
  BY <1>1, SeqFacts
<1>3. \A k \in a..b : seq[k] \in S
  BY <1>1, <1>2
<1>4. a \in Int /\ b \in Int
  OBVIOUS
<1> QED  BY <1>3, <1>4, SubSeqProperties

\* A text in two parts.
LEMMA ReadSplit ==
  ASSUME NEW X, NEW h, Reader(h, X), NEW text \in Seq(AnyLine),
         NEW a \in 1..(Len(text) + 1), NEW b \in (a - 1)..Len(text), NEW c \in b..Len(text)
  PROVE  Read(SubSeq(text, a, c), h) = Read(SubSeq(text, a, b), h) \o Read(SubSeq(text, b + 1, c), h)
<1>1. PICK n \in Nat : n = Len(text)
  BY SeqFacts
<1>2. a \in Nat \ {0} /\ b \in Nat /\ c \in Nat /\ b <= n /\ c <= n /\ b + 1 \in Nat \ {0}
  BY <1>1
<1>3. PICK s \in Seq(AnyLine) : s = SubSeq(text, a, b)
  BY <1>1, <1>2, SubSeqTyped
<1>4. PICK t \in Seq(AnyLine) : t = SubSeq(text, b + 1, c)
  BY <1>1, <1>2, SubSeqTyped
<1>5. SubSeq(text, a, c) = s \o t
  BY <1>3, <1>4, ConcatAdjacentSubSeq
<1>6. Read(s \o t, h) = Read(s, h) \o Read(t, h)
  BY ReadConcat
<1> QED  BY <1>3, <1>4, <1>5, <1>6

\* Lines without words in between.
LEMMA ReadGap ==
  ASSUME NEW X, NEW h, Reader(h, X), NEW text \in Seq(AnyLine),
         NEW a \in Nat \ {0}, NEW b \in Nat, b <= Len(text), \A k \in a..b : text[k].words = <<>>
  PROVE  Read(SubSeq(text, a, b), h) = <<>>
<1>1. PICK gap \in Seq(AnyLine) : gap = SubSeq(text, a, b)
  BY SubSeqTyped
<1>2. ASSUME NEW k \in 1..Len(gap)  PROVE gap[k].words = <<>>
  <2>1. Len(gap) = IF a <= b THEN b - a + 1 ELSE 0
    BY <1>1, SubSeqTyped
  <2>2. k \in 1..(b - a + 1) /\ a + k - 1 \in a..b
    BY <2>1
  <2>3. gap[k] = text[a + k - 1]
    BY <1>1, <2>2, SubSeqTyped
  <2> QED  BY <2>2, <2>3
<1>3. Read(gap, h) = <<>>
  BY <1>2, ReadBlanks
<1> QED  BY <1>1, <1>3

\* Nothing is said before a part of a text, nor after it.
LEMMA ReadMiddle ==
  ASSUME NEW X, NEW h, Reader(h, X), NEW text \in Seq(AnyLine),
         NEW a \in Nat, NEW b \in Nat, a <= b, b <= Len(text),
         \A k \in 1..Len(text) : k \in (a + 1)..b \/ text[k].words = <<>>
  PROVE  Read(SubSeq(text, a + 1, b), h) = Read(text, h)
<1>1. PICK n \in Nat : n = Len(text)
  BY SeqFacts
<1>2. \A k \in 1..a : text[k].words = <<>>
  <2>1. \A k \in 1..a : k \in 1..Len(text) /\ ~ (k \in (a + 1)..b)
    BY <1>1
  <2> QED  BY <2>1
<1>3. \A k \in (b + 1)..n : text[k].words = <<>>
  <2>1. \A k \in (b + 1)..n : k \in 1..Len(text) /\ ~ (k \in (a + 1)..b)
    BY <1>1
  <2> QED  BY <2>1
<1>4. Read(SubSeq(text, 1, a), h) = <<>>
  <2>1. 1 \in Nat \ {0} /\ a <= Len(text)
    BY <1>1
  <2> QED  BY <1>2, <2>1, ReadGap
<1>5. Read(SubSeq(text, b + 1, n), h) = <<>>
  <2>1. b + 1 \in Nat \ {0} /\ n <= Len(text)
    BY <1>1
  <2> QED  BY <1>3, <2>1, ReadGap
<1>6. Read(SubSeq(text, 1, n), h) = Read(SubSeq(text, 1, a), h) \o Read(SubSeq(text, a + 1, n), h)
  <2>1. 1 \in 1..(Len(text) + 1) /\ a \in (1 - 1)..Len(text) /\ n \in a..Len(text)
    BY <1>1
  <2> QED  BY <2>1, ReadSplit
<1>7. Read(SubSeq(text, a + 1, n), h) = Read(SubSeq(text, a + 1, b), h) \o Read(SubSeq(text, b + 1, n), h)
  <2>1. a + 1 \in 1..(Len(text) + 1) /\ b \in ((a + 1) - 1)..Len(text) /\ n \in b..Len(text)
    BY <1>1
  <2> QED  BY <2>1, ReadSplit
<1>8. SubSeq(text, 1, n) = text
  BY <1>1, SubSeqFull
<1>9. PICK r \in Seq(X) : r = Read(SubSeq(text, a + 1, b), h)
  <2>1. a + 1 \in Nat \ {0}
    OBVIOUS
  <2>2. SubSeq(text, a + 1, b) \in Seq(AnyLine)
    BY <2>1, SubSeqTyped
  <2> QED  BY <2>2, ReadTyped
<1>10. r \o <<>> = r /\ <<>> \o r = r
  BY ConcatEmptySeq
<1> QED  BY <1>4, <1>5, <1>6, <1>7, <1>8, <1>9, <1>10

\* Blank lines around a text, and white space, say nothing.
LEMMA TrimReads ==
  ASSUME NEW X, NEW h, Reader(h, X), NEW text \in Seq(AnyLine)
  PROVE  Read(TrimBlanks(text), h) = Read(text, h)
<1>1. PICK new \in Seq(AnyLine), a \in Nat : new = TrimBlanks(text) /\ Trimming(new, text, a)
  BY TrimTyped, TrimFound DEF Trimming
<1>2. PICK n \in Nat, m \in Nat : n = Len(text) /\ m = Len(new)
  BY SeqFacts
<1>3. /\ a \in Nat /\ a + m <= n
      /\ \A k \in 1..m : new[k] = text[a + k]
      /\ \A k \in 1..n : text[k] # Blank => k \in (a + 1)..(a + m)
  BY <1>1, <1>2 DEF Trimming
<1>4. a + 1 \in Nat \ {0} /\ a + m \in Nat /\ a <= a + m /\ a + m <= Len(text)
  BY <1>2, <1>3
<1>5. \A k \in 1..Len(text) : k \in (a + 1)..(a + m) \/ text[k].words = <<>>
  BY <1>2, <1>3, BlankTyped
<1>6. Read(SubSeq(text, a + 1, a + m), h) = Read(text, h)
  BY <1>3, <1>4, <1>5, ReadMiddle
<1>7. PICK part \in Seq(AnyLine) : part = SubSeq(text, a + 1, a + m)
  BY <1>4, SubSeqTyped
<1>8. Len(part) = m /\ \A k \in 1..m : part[k] = text[a + k]
  <2>1. /\ Len(part) = IF a + 1 <= a + m THEN (a + m) - (a + 1) + 1 ELSE 0
        /\ \A k \in 1..((a + m) - (a + 1) + 1) : part[k] = text[(a + 1) + k - 1]
    BY <1>4, <1>7, SubSeqTyped
  <2>2. (a + m) - (a + 1) + 1 = m /\ (~ (a + 1 <= a + m) => m = 0) /\ \A k \in 1..m : (a + 1) + k - 1 = a + k
    BY <1>3
  <2> QED  BY <2>1, <2>2
<1>9. part = new
  BY <1>2, <1>3, <1>8, SeqEqual
<1> QED  BY <1>1, <1>6, <1>7, <1>9

\* unindent cuts white space off each line, then blank lines off the text.
LEMMA UnindentCuts ==
  ASSUME NEW text \in Seq(AnyLine)
  PROVE  \E cut \in Seq(AnyLine) :
           /\ unindent(text) = TrimBlanks(cut)
           /\ Len(cut) = Len(TrimBlanks(text))
           /\ \A k \in 1..Len(cut) : cut[k].words = TrimBlanks(text)[k].words
<1> DEFINE trimmed == TrimBlanks(text)
           leads == {trimmed[k].lead : k \in {m \in DOMAIN trimmed : trimmed[m] # Blank}}
           common == IF leads = {} THEN 0 ELSE Len(LongestCommonPrefix(leads))
           Cut(line) == IF line.words = <<>> THEN Blank
                        ELSE [line EXCEPT !.lead = SubSeq(@, common + 1, Len(@))]
           cut == [k \in DOMAIN trimmed |-> Cut(trimmed[k])]
<1>1. unindent(text) = TrimBlanks(cut)
  BY DEF unindent
<1>2. trimmed \in Seq(AnyLine)
  BY TrimTyped
<1> HIDE DEF trimmed
<1>3. PICK n \in Nat : n = Len(trimmed)
  BY <1>2, SeqFacts
<1>4. DOMAIN trimmed = 1..n /\ \A k \in 1..n : trimmed[k] \in AnyLine
  BY <1>2, <1>3, SeqFacts
<1>5. common \in Nat
  <2>1. leads \in SUBSET Seq({" ", "\t"})
    <3>1. \A k \in 1..n : trimmed[k].lead \in Seq({" ", "\t"})
      BY <1>4, FieldsTyped
    <3> QED  BY <1>4, <3>1
  <2> HIDE DEF leads
  <2>2. leads # {} => Len(LongestCommonPrefix(leads)) \in Nat
    BY <2>1, PrefixFound
  <2> QED  BY <2>2
<1> HIDE DEF common
<1>6. ASSUME NEW line \in AnyLine  PROVE Cut(line) \in AnyLine /\ Cut(line).words = line.words
  <2>1. CASE line.words = <<>>
    BY <2>1, BlankTyped
  <2>2. CASE line.words # <<>>
    <3> DEFINE lead == line.lead
               rest == SubSeq(lead, common + 1, Len(lead))
    <3>1. lead \in Seq({" ", "\t"})
      BY FieldsTyped
    <3> HIDE DEF lead
    <3>2. PICK l \in Nat : l = Len(lead)
      BY <3>1, SeqFacts
    <3>3. \A k \in (common + 1)..l : lead[k] \in {" ", "\t"}
      <4>1. \A k \in 1..l : lead[k] \in {" ", "\t"}
        BY <3>1, <3>2, SeqFacts
      <4>2. (common + 1)..l \subseteq 1..l
        BY <1>5, <3>2
      <4> QED  BY <4>1, <4>2
    <3>4. common + 1 \in Int /\ l \in Int
      BY <1>5, <3>2
    <3>5. rest \in Seq({" ", "\t"})
      BY <3>2, <3>3, <3>4, SubSeqProperties
    <3>6. Cut(line) = [line EXCEPT !.lead = rest]
      BY <2>2 DEF lead
    <3> HIDE DEF rest
    <3> QED  BY <3>5, <3>6 DEF AnyLine
  <2> QED  BY <2>1, <2>2
<1>7. cut \in [1..n -> AnyLine] /\ \A k \in 1..n : cut[k].words = trimmed[k].words
  BY <1>4, <1>6
<1> HIDE DEF cut
<1>8. cut \in Seq(AnyLine) /\ Len(cut) = n
  BY <1>3, <1>7, FunctionIsSeq
<1> QED  BY <1>1, <1>3, <1>7, <1>8 DEF trimmed

\* So a text says the same without its indentation (unindent).
LEMMA UnindentReads ==
  ASSUME NEW X, NEW h, Reader(h, X), NEW text \in Seq(AnyLine)
  PROVE  Read(unindent(text), h) = Read(text, h)
<1>1. PICK cut \in Seq(AnyLine) :
           /\ unindent(text) = TrimBlanks(cut)
           /\ Len(cut) = Len(TrimBlanks(text))
           /\ \A k \in 1..Len(cut) : cut[k].words = TrimBlanks(text)[k].words
  BY UnindentCuts
<1>2. TrimBlanks(text) \in Seq(AnyLine)
  BY TrimTyped
<1>3. Read(cut, h) = Read(TrimBlanks(text), h)
  <2>1. \A k \in 1..Len(cut) : Unmarked(cut[k].words) = Unmarked(TrimBlanks(text)[k].words)
    BY <1>1
  <2> QED  BY <1>1, <1>2, <2>1, ReadSame
<1>4. Read(TrimBlanks(cut), h) = Read(cut, h) /\ Read(TrimBlanks(text), h) = Read(text, h)
  BY TrimReads
<1> QED  BY <1>1, <1>3, <1>4


------------------------------------------------------------------------------
(* Leaving out what says nothing *)

\* The numbers of a set up to one.
UpTo(T, x) == {m \in T : m <= x}

\* How many they are.
LEMMA UpToCounts ==
  ASSUME NEW n \in Nat, NEW T, T \subseteq 1..n
  PROVE  /\ Cardinality(UpTo(T, 0)) = 0 /\ Cardinality(UpTo(T, n)) = Cardinality(T)
         /\ \A x \in 0..n : Cardinality(UpTo(T, x)) \in 0..Cardinality(T)
         /\ \A x \in 1..n : Cardinality(UpTo(T, x)) =
              IF x \in T THEN Cardinality(UpTo(T, x - 1)) + 1 ELSE Cardinality(UpTo(T, x - 1))
<1>1. \A m \in T : m \in Int /\ 1 <= m /\ m <= n
  OBVIOUS
<1>2. UpTo(T, 0) = {}
  <2>1. \A m \in T : ~ (m <= 0)
    BY <1>1
  <2> QED  BY <2>1 DEF UpTo
<1>3. UpTo(T, n) = T
  BY <1>1 DEF UpTo
<1>4. IsFiniteSet(T) /\ Cardinality(T) \in Nat
  BY BoundedFinite
<1>5. ASSUME NEW x \in 0..n
      PROVE  IsFiniteSet(UpTo(T, x)) /\ Cardinality(UpTo(T, x)) \in 0..Cardinality(T)
  <2>1. UpTo(T, x) \subseteq T /\ UpTo(T, x) \subseteq 1..n
    BY DEF UpTo
  <2>2. IsFiniteSet(UpTo(T, x)) /\ Cardinality(UpTo(T, x)) \in Nat
    BY <2>1, BoundedFinite
  <2>3. Cardinality(UpTo(T, x)) <= Cardinality(T)
    BY <1>4, <2>1, FS_Subset
  <2> QED  BY <1>4, <2>2, <2>3
<1>6. ASSUME NEW x \in 1..n
      PROVE  Cardinality(UpTo(T, x)) = IF x \in T THEN Cardinality(UpTo(T, x - 1)) + 1
                                       ELSE Cardinality(UpTo(T, x - 1))
  <2>1. \A m \in T : m <= x <=> m <= x - 1 \/ m = x
    BY <1>1
  <2>2. UpTo(T, x) = IF x \in T THEN UpTo(T, x - 1) \union {x} ELSE UpTo(T, x - 1)
    BY <2>1 DEF UpTo
  <2>3. ~ (x \in UpTo(T, x - 1))
    BY DEF UpTo
  <2>4. x - 1 \in 0..n
    OBVIOUS
  <2>5. IsFiniteSet(UpTo(T, x - 1))
    BY <1>5, <2>4
  <2>6. CASE x \in T
    BY <2>2, <2>3, <2>5, <2>6, FS_AddElement
  <2>7. CASE ~ (x \in T)
    BY <2>2, <2>7
  <2> QED  BY <2>6, <2>7
<1>7. Cardinality(UpTo(T, 0)) = 0
  BY <1>2, FS_EmptySet
<1> QED  BY <1>3, <1>5, <1>6, <1>7

\* A number of the set is the one of its count.
LEMMA NthOf ==
  ASSUME NEW n \in Nat, NEW T, T \subseteq 1..n, NEW x \in T
  PROVE  /\ Cardinality(UpTo(T, x)) \in 1..Cardinality(T)
         /\ Nth(T, Cardinality(UpTo(T, x))) = x
<1>1. x \in 1..n /\ x - 1 \in 0..n /\ x \in 0..n
  OBVIOUS
<1>2. Cardinality(T) \in Nat
  BY BoundedFinite
<1>3. PICK k \in 0..Cardinality(T) : k = Cardinality(UpTo(T, x))
  BY <1>1, UpToCounts
<1>4. PICK j \in 0..Cardinality(T) : j = Cardinality(UpTo(T, x - 1))
  BY <1>1, UpToCounts
<1>5. k = j + 1
  BY <1>1, <1>3, <1>4, UpToCounts
<1>6. k \in 1..Cardinality(T)
  BY <1>2, <1>5
<1>7. PICK y \in T : y = Nth(T, k) /\ Cardinality(UpTo(T, y)) = k
  BY <1>6, NthIn DEF UpTo
<1>8. ASSUME NEW a \in T, NEW b \in T, a < b  PROVE Cardinality(UpTo(T, a)) # Cardinality(UpTo(T, b))
  <2>0. a \in 1..n /\ b \in 1..n
    OBVIOUS
  <2>1. UpTo(T, a) \subseteq UpTo(T, b)
    <3>1. \A m \in T : m \in 1..n /\ (m <= a => m <= b)
      BY <1>8, <2>0
    <3> QED  BY <3>1 DEF UpTo
  <2>2. b \in UpTo(T, b) /\ ~ (b \in UpTo(T, a))
    BY <1>8, <2>0 DEF UpTo
  <2>3. UpTo(T, b) \subseteq 1..n
    BY DEF UpTo
  <2>4. IsFiniteSet(UpTo(T, b))
    BY <2>3, BoundedFinite
  <2> QED  BY <2>1, <2>2, <2>4, FS_Subset
<1>9. x \in Int /\ y \in Int
  OBVIOUS
<1>10. ~ (x < y) /\ ~ (y < x)
  BY <1>3, <1>7, <1>8
<1>11. x = y
  BY <1>9, <1>10
<1> QED  BY <1>3, <1>6, <1>7, <1>11

\* If the others are empty, nothing is lost.
LEMMA FlattenSelect ==
  ASSUME NEW S, NEW seqs \in Seq(Seq(S)), NEW T, T \subseteq DOMAIN seqs,
         \A k \in DOMAIN seqs : k \in T \/ seqs[k] = <<>>
  PROVE  FlattenSeq(Select(seqs, T)) = FlattenSeq(seqs)
<1>1. PICK n \in Nat : n = Len(seqs) /\ DOMAIN seqs = 1..n
  BY SeqFacts
<1>2. T \subseteq 1..n
  BY <1>1
<1>3. PICK c \in Nat : c = Cardinality(T)
  BY <1>2, BoundedFinite
<1>4. Select(seqs, T) \in Seq(Seq(S)) /\ Len(Select(seqs, T)) = c
  BY <1>3, SelectTyped
<1>5. \A k \in 1..c : Select(seqs, T)[k] = seqs[Nth(T, k)]
  BY <1>3 DEF Select
<1>6. PICK w : Joined(w, seqs, n, S) /\ w[0] = <<>> /\ w[n] = FlattenSeq(seqs)
  BY <1>1, FlattenJoins
<1>7. PICK v : Joined(v, Select(seqs, T), c, S) /\ v[0] = <<>> /\ v[c] = FlattenSeq(Select(seqs, T))
  BY <1>4, FlattenJoins
<1> DEFINE count(x) == Cardinality(UpTo(T, x))
           same == [m \in 0..n |-> w[m] = v[count(m)]]
           D == {TRUE}
<1>8. /\ count(0) = 0 /\ count(n) = c
      /\ \A x \in 0..n : count(x) \in 0..c
      /\ \A x \in 1..n : count(x) = IF x \in T THEN count(x - 1) + 1 ELSE count(x - 1)
  BY <1>2, <1>3, UpToCounts
<1>9. \A x \in T : Nth(T, count(x)) = x
  BY <1>2, NthOf
<1> HIDE DEF count
<1>10. same[0] \in D
  <2>1. 0 \in 0..n
    OBVIOUS
  <2> QED  BY <1>6, <1>7, <1>8, <2>1
<1>11. ASSUME NEW m \in (0 + 1)..n, same[m - 1] \in D  PROVE same[m] \in D
  <2>1. m \in 1..n /\ m - 1 \in 0..n /\ m \in 0..n
    OBVIOUS
  <2>2. w[m - 1] = v[count(m - 1)]
    BY <1>11, <2>1
  <2>3. w[m] = w[m - 1] \o seqs[m] /\ w[m - 1] \in Seq(S)
    BY <1>6, <2>1 DEF Joined
  <2>4. CASE m \in T
    <3>1. count(m) = count(m - 1) + 1 /\ count(m) \in 0..c /\ count(m - 1) \in 0..c
      BY <1>8, <2>1, <2>4
    <3>2. count(m) \in 1..c /\ count(m) - 1 = count(m - 1)
      BY <3>1
    <3>3. v[count(m)] = v[count(m) - 1] \o Select(seqs, T)[count(m)]
      BY <1>7, <3>2 DEF Joined
    <3>4. Select(seqs, T)[count(m)] = seqs[m]
      BY <1>5, <1>9, <2>4, <3>2
    <3>5. w[m] = v[count(m)]
      BY <2>2, <2>3, <3>2, <3>3, <3>4
    <3> QED  BY <2>1, <3>5
  <2>5. CASE ~ (m \in T)
    <3>1. count(m) = count(m - 1) /\ seqs[m] = <<>>
      BY <1>1, <1>8, <2>1, <2>5
    <3>2. PICK x \in Seq(S) : x = w[m - 1]
      BY <2>3
    <3>3. x \o <<>> = x
      BY ConcatEmptySeq
    <3>4. w[m] = v[count(m)]
      BY <2>2, <2>3, <3>1, <3>2, <3>3
    <3> QED  BY <2>1, <3>4
  <2> QED  BY <2>4, <2>5
<1>12. same[n] \in D
  <2> HIDE DEF same, D
  <2>1. 0 \in Nat /\ 0 <= n
    OBVIOUS
  <2> QED  BY <1>10, <1>11, <2>1, Climbs
<1>13. w[n] = v[c]
  <2>1. n \in 0..n
    OBVIOUS
  <2> QED  BY <1>8, <1>12, <2>1
<1> QED  BY <1>6, <1>7, <1>13


------------------------------------------------------------------------------
(* What a list is read as: the paragraphs of its items, and its links *)

ParasRead(paras, h) == FlattenSeq([k \in DOMAIN paras |-> Read(paras[k], h)])
ItemsRead(items, h) == FlattenSeq([k \in DOMAIN items |-> ParasRead(items[k].paras, h)])

\* Paragraphs and items are read to sequences, and one more at the end is read last.
LEMMA ParasTyped ==
  ASSUME NEW X, NEW h, Reader(h, X), NEW paras \in Seq(Seq(AnyLine))
  PROVE  /\ [k \in DOMAIN paras |-> Read(paras[k], h)] \in Seq(Seq(X))
         /\ ParasRead(paras, h) \in Seq(X)
<1>1. PICK n \in Nat : n = Len(paras) /\ DOMAIN paras = 1..n
  BY SeqFacts
<1>2. \A k \in 1..n : paras[k] \in Seq(AnyLine)
  BY <1>1, SeqFacts
<1>3. [k \in 1..n |-> Read(paras[k], h)] \in [1..n -> Seq(X)]
  BY <1>2, ReadTyped
<1>4. [k \in 1..n |-> Read(paras[k], h)] \in Seq(Seq(X))
  BY <1>3, FunctionIsSeq
<1> QED  BY <1>1, <1>4, FlattenTyped DEF ParasRead

LEMMA ParasAppend ==
  ASSUME NEW X, NEW h, Reader(h, X), NEW paras \in Seq(Seq(AnyLine)), NEW text \in Seq(AnyLine)
  PROVE  ParasRead(Append(paras, text), h) = ParasRead(paras, h) \o Read(text, h)
<1>1. PICK n \in Nat : n = Len(paras) /\ DOMAIN paras = 1..n
  BY SeqFacts
<1>2. PICK more \in Seq(Seq(AnyLine)) :
        more = Append(paras, text) /\ DOMAIN more = 1..(n + 1)
        /\ more[n + 1] = text /\ \A k \in 1..n : more[k] = paras[k]
  <2>1. /\ Append(paras, text) \in Seq(Seq(AnyLine)) /\ Len(Append(paras, text)) = n + 1
        /\ \A k \in 1..n : Append(paras, text)[k] = paras[k]
        /\ Append(paras, text)[n + 1] = text
    BY <1>1, AppendProperties
  <2> QED  BY <2>1, SeqFacts
<1> DEFINE seqs == [k \in 1..n |-> Read(paras[k], h)]
           all == [k \in 1..(n + 1) |-> Read(more[k], h)]
<1>3. PICK r \in Seq(X) : r = Read(text, h)
  BY ReadTyped
<1>4. seqs \in Seq(Seq(X))
  BY <1>1, ParasTyped
<1>5. seqs \in [1..n -> Seq(X)]
  <2>1. \A k \in 1..n : paras[k] \in Seq(AnyLine)
    BY <1>1, SeqFacts
  <2> QED  BY <2>1, ReadTyped
<1>6. Len(seqs) = n
  BY <1>5, FunctionIsSeq
<1>7. all \in Seq(Seq(X))
  BY <1>2, ParasTyped
<1>8. Len(all) = n + 1
  <2>1. DOMAIN all = 1..(n + 1) /\ n + 1 \in Nat
    OBVIOUS
  <2> HIDE DEF all
  <2> QED  BY <1>7, <2>1, LenProperties
<1>9. /\ \A k \in 1..n : seqs[k] = all[k]
      /\ all[n + 1] = r
  <2>1. \A k \in 1..n : k \in 1..(n + 1)
    OBVIOUS
  <2>2. n + 1 \in 1..(n + 1)
    OBVIOUS
  <2> QED  BY <1>2, <1>3, <2>1, <2>2
<1> HIDE DEF seqs, all
<1>10. all = Append(seqs, r)
  <2>1. /\ Append(seqs, r) \in Seq(Seq(X)) /\ Len(Append(seqs, r)) = n + 1
        /\ \A k \in 1..n : Append(seqs, r)[k] = seqs[k]
        /\ Append(seqs, r)[n + 1] = r
    BY <1>4, <1>6, AppendProperties
  <2>2. \A k \in 1..(n + 1) : k \in 1..n \/ k = n + 1
    OBVIOUS
  <2>3. \A k \in 1..(n + 1) : all[k] = Append(seqs, r)[k]
    BY <1>9, <2>1, <2>2
  <2> QED  BY <1>7, <1>8, <2>1, <2>3, SeqEqual
<1>11. ParasRead(more, h) = FlattenSeq(all) /\ ParasRead(paras, h) = FlattenSeq(seqs)
  BY <1>1, <1>2 DEF ParasRead, all, seqs
<1>12. FlattenSeq(Append(seqs, r)) = FlattenSeq(seqs) \o r
  BY <1>4, FlattenAppend
<1> QED  BY <1>2, <1>3, <1>10, <1>11, <1>12

LEMMA ParasNone ==
  ASSUME NEW h
  PROVE  ParasRead(<<>>, h) = <<>> /\ ItemsRead(<<>>, h) = <<>>
<1>1. DOMAIN <<>> = {} /\ <<>> = [k \in {} |-> Read(<<>>[k], h)] /\ <<>> = [k \in {} |-> ParasRead(<<>>[k].paras, h)]
  OBVIOUS
<1> QED  BY <1>1, FlattenNone DEF ParasRead, ItemsRead

LEMMA ItemsTyped ==
  ASSUME NEW X, NEW h, Reader(h, X), NEW items \in Seq(ItemSet)
  PROVE  /\ [k \in DOMAIN items |-> ParasRead(items[k].paras, h)] \in Seq(Seq(X))
         /\ ItemsRead(items, h) \in Seq(X)
<1>1. PICK n \in Nat : n = Len(items) /\ DOMAIN items = 1..n
  BY SeqFacts
<1>2. \A k \in 1..n : items[k].paras \in Seq(Seq(AnyLine))
  <2>1. \A k \in 1..n : items[k] \in ItemSet
    BY <1>1, SeqFacts
  <2> QED  BY <2>1 DEF ItemSet
<1>3. [k \in 1..n |-> ParasRead(items[k].paras, h)] \in [1..n -> Seq(X)]
  BY <1>2, ParasTyped
<1>4. [k \in 1..n |-> ParasRead(items[k].paras, h)] \in Seq(Seq(X))
  BY <1>3, FunctionIsSeq
<1> QED  BY <1>1, <1>4, FlattenTyped DEF ItemsRead

LEMMA ItemsAppend ==
  ASSUME NEW X, NEW h, Reader(h, X), NEW items \in Seq(ItemSet), NEW item \in ItemSet
  PROVE  ItemsRead(Append(items, item), h) = ItemsRead(items, h) \o ParasRead(item.paras, h)
<1>1. PICK n \in Nat : n = Len(items) /\ DOMAIN items = 1..n
  BY SeqFacts
<1>2. PICK more \in Seq(ItemSet) :
        more = Append(items, item) /\ DOMAIN more = 1..(n + 1)
        /\ more[n + 1] = item /\ \A k \in 1..n : more[k] = items[k]
  <2>1. /\ Append(items, item) \in Seq(ItemSet) /\ Len(Append(items, item)) = n + 1
        /\ \A k \in 1..n : Append(items, item)[k] = items[k]
        /\ Append(items, item)[n + 1] = item
    BY <1>1, AppendProperties
  <2> QED  BY <2>1, SeqFacts
<1> DEFINE seqs == [k \in 1..n |-> ParasRead(items[k].paras, h)]
           all == [k \in 1..(n + 1) |-> ParasRead(more[k].paras, h)]
<1>3. PICK r \in Seq(X) : r = ParasRead(item.paras, h)
  BY ParasTyped DEF ItemSet
<1>4. seqs \in Seq(Seq(X))
  BY <1>1, ItemsTyped
<1>5. Len(seqs) = n
  <2>1. DOMAIN seqs = 1..n
    OBVIOUS
  <2> HIDE DEF seqs
  <2> QED  BY <1>4, <2>1, LenProperties
<1>7. all \in Seq(Seq(X))
  BY <1>2, ItemsTyped
<1>8. Len(all) = n + 1
  <2>1. DOMAIN all = 1..(n + 1) /\ n + 1 \in Nat
    OBVIOUS
  <2> HIDE DEF all
  <2> QED  BY <1>7, <2>1, LenProperties
<1>9. /\ \A k \in 1..n : seqs[k] = all[k]
      /\ all[n + 1] = r
  <2>1. \A k \in 1..n : k \in 1..(n + 1)
    OBVIOUS
  <2>2. n + 1 \in 1..(n + 1)
    OBVIOUS
  <2> QED  BY <1>2, <1>3, <2>1, <2>2
<1> HIDE DEF seqs, all
<1>10. all = Append(seqs, r)
  <2>1. /\ Append(seqs, r) \in Seq(Seq(X)) /\ Len(Append(seqs, r)) = n + 1
        /\ \A k \in 1..n : Append(seqs, r)[k] = seqs[k]
        /\ Append(seqs, r)[n + 1] = r
    BY <1>4, <1>5, AppendProperties
  <2>2. \A k \in 1..(n + 1) : k \in 1..n \/ k = n + 1
    OBVIOUS
  <2>3. \A k \in 1..(n + 1) : all[k] = Append(seqs, r)[k]
    BY <1>9, <2>1, <2>2
  <2> QED  BY <1>7, <1>8, <2>1, <2>3, SeqEqual
<1>11. ItemsRead(more, h) = FlattenSeq(all) /\ ItemsRead(items, h) = FlattenSeq(seqs)
  BY <1>1, <1>2 DEF ItemsRead, all, seqs
<1>12. FlattenSeq(Append(seqs, r)) = FlattenSeq(seqs) \o r
  BY <1>4, FlattenAppend
<1> QED  BY <1>2, <1>3, <1>10, <1>11, <1>12

\* One more paragraph in the last item.
LEMMA ItemsGrown ==
  ASSUME NEW X, NEW h, Reader(h, X), NEW items \in Seq(ItemSet), items # <<>>, NEW text \in Seq(AnyLine)
  PROVE  LET more == [items EXCEPT ![Len(items)].paras = Append(@, text)]
         IN more \in Seq(ItemSet) /\ ItemsRead(more, h) = ItemsRead(items, h) \o Read(text, h)
<1> DEFINE more == [items EXCEPT ![Len(items)].paras = Append(@, text)]
<1>1. PICK front \in Seq(ItemSet), last \in ItemSet : items = Append(front, last)
  BY SequenceEmptyOrAppend
<1>2. PICK n \in Nat : n = Len(front) /\ DOMAIN front = 1..n
  BY SeqFacts
<1>3. /\ Len(items) = n + 1 /\ items[n + 1] = last /\ DOMAIN items = 1..(n + 1)
      /\ \A k \in 1..n : items[k] = front[k]
  BY <1>1, <1>2, AppendProperties, SeqFacts
<1> DEFINE grown == [last EXCEPT !.paras = Append(@, text)]
<1>4. last.paras \in Seq(Seq(AnyLine)) /\ Append(last.paras, text) \in Seq(Seq(AnyLine))
  <2>1. last.paras \in Seq(Seq(AnyLine))
    BY DEF ItemSet
  <2> QED  BY <2>1, AppendProperties
<1>5. grown \in ItemSet /\ grown.paras = Append(last.paras, text)
  BY <1>4 DEF ItemSet
<1>6. /\ DOMAIN more = 1..(n + 1) /\ more[n + 1] = grown
      /\ \A k \in 1..n : more[k] = front[k]
  BY <1>3
<1> HIDE DEF more, grown
<1>7. /\ Append(front, grown) \in Seq(ItemSet) /\ Len(Append(front, grown)) = n + 1
      /\ \A k \in 1..n : Append(front, grown)[k] = front[k]
      /\ Append(front, grown)[n + 1] = grown
  BY <1>2, <1>5, AppendProperties
<1>8. \A k \in 1..(n + 1) : k \in 1..n \/ k = n + 1
  OBVIOUS
<1>9. more = [k \in 1..(n + 1) |-> more[k]]
  BY <1>6 DEF more
<1>10. \A k \in 1..(n + 1) : more[k] \in ItemSet
  BY <1>2, <1>5, <1>6, <1>8, SeqFacts
<1>11. more \in Seq(ItemSet) /\ Len(more) = n + 1
  <2>1. more \in [1..(n + 1) -> ItemSet] /\ n + 1 \in Nat
    BY <1>9, <1>10
  <2> QED  BY <2>1, FunctionIsSeq
<1>12. more = Append(front, grown)
  <2>1. \A k \in 1..(n + 1) : more[k] = Append(front, grown)[k]
    BY <1>6, <1>7, <1>8
  <2> QED  BY <1>7, <1>11, <2>1, SeqEqual
<1>13. ItemsRead(more, h) = ItemsRead(front, h) \o ParasRead(grown.paras, h)
  BY <1>5, <1>12, ItemsAppend
<1>14. ItemsRead(items, h) = ItemsRead(front, h) \o ParasRead(last.paras, h)
  BY <1>1, ItemsAppend
<1>15. ParasRead(grown.paras, h) = ParasRead(last.paras, h) \o Read(text, h)
  BY <1>4, <1>5, ParasAppend
<1>16. PICK a \in Seq(X), b \in Seq(X), c \in Seq(X) :
         a = ItemsRead(front, h) /\ b = ParasRead(last.paras, h) /\ c = Read(text, h)
  BY <1>4, ItemsTyped, ParasTyped, ReadTyped
<1>17. (a \o b) \o c = a \o (b \o c)
  BY ConcatAssociative, SMTT(30)
<1>18. ItemsRead(more, h) = ItemsRead(items, h) \o Read(text, h)
  BY <1>13, <1>14, <1>15, <1>16, <1>17
<1> QED  BY <1>11, <1>18 DEF more


\* Nothing may stand anywhere, and so may two things that may.
LEMMA MovesConcat ==
  ASSUME NEW X, NEW x \in Seq(X), NEW y \in Seq(X), Moves(x, X), Moves(y, X)
  PROVE  Moves(x \o y, X)
<1> SUFFICES ASSUME NEW s \in Seq(X)  PROVE (x \o y) \o s = s \o (x \o y)
  BY DEF Moves
<1>1. (x \o y) \o s = x \o (y \o s)
  BY ConcatAssociative
<1>2. (x \o s) \o y = x \o (s \o y)
  BY ConcatAssociative, SMTT(30)
<1>3. (s \o x) \o y = s \o (x \o y)
  BY ConcatAssociative
<1>4. y \o s = s \o y /\ x \o s = s \o x
  BY DEF Moves
<1> QED  BY <1>1, <1>2, <1>3, <1>4

\* Definitions of links may stand anywhere.
LEMMA LinksMove ==
  ASSUME NEW X, NEW h, Reader(h, X), NEW text \in Seq(AnyLine), AllLinks(text)
  PROVE  Moves(Read(text, h), X)
<1>1. PICK n \in Nat : n = Len(text) /\ DOMAIN text = 1..n
  BY SeqFacts
<1>2. PICK seqs \in Seq(Seq(X)) :
        seqs = Each(text, h) /\ Len(seqs) = n /\ \A k \in 1..n : seqs[k] = h[Unmarked(text[k].words)]
  BY <1>1, EachTyped
<1> DEFINE D == {x \in Seq(X) : Moves(x, X)}
<1>3. ASSUME NEW k \in 1..n  PROVE seqs[k] \in D
  <2>1. text[k].words \in Seq(Word)
    BY <1>1, SeqFacts, FieldsTyped
  <2>2. IsLink(text[k].words)
    BY <1>1 DEF AllLinks, Defines, IsLink
  <2>3. seqs[k] = h[text[k].words]
    BY <1>2, <2>1, <2>2, UnmarkedLink
  <2>4. h[text[k].words] \in Seq(X) /\ Moves(h[text[k].words], X)
    BY <2>1, <2>2 DEF Reader
  <2> QED  BY <2>3, <2>4
<1>4. PICK w : Joined(w, seqs, n, X) /\ w[0] = <<>> /\ w[n] = FlattenSeq(seqs)
  BY <1>2, FlattenJoins
<1>5. w[0] \in D
  <2>1. <<>> \in Seq(X) /\ Moves(<<>>, X)
    BY EmptySeq, ConcatEmptySeq DEF Moves
  <2> QED  BY <1>4, <2>1
<1>6. ASSUME NEW m \in (0 + 1)..n, w[m - 1] \in D  PROVE w[m] \in D
  <2>1. m \in 1..n
    OBVIOUS
  <2>2. PICK x \in Seq(X), y \in Seq(X) : x = w[m - 1] /\ y = seqs[m] /\ Moves(x, X) /\ Moves(y, X)
    BY <1>3, <1>6, <2>1
  <2>3. w[m] = x \o y
    BY <1>4, <2>1, <2>2 DEF Joined
  <2>4. x \o y \in Seq(X) /\ Moves(x \o y, X)
    BY <2>2, MovesConcat, ConcatProperties
  <2> QED  BY <2>3, <2>4
<1>7. w[n] \in D
  <2> HIDE DEF D
  <2>1. 0 \in Nat /\ 0 <= n
    OBVIOUS
  <2> QED  BY <1>5, <1>6, <2>1, Climbs
<1> QED  BY <1>2, <1>4, <1>7 DEF Read

\* What a list says so far: the links taken out of it may stand anywhere.
ListRead(s, h) == (ItemsRead(s.items, h) \o Read(s.links, h)) \o Read(s.text, h)

\* Lists that have an item if they have a text.
OpenLists == {s \in ListSet : AllLinks(s.links) /\ (s.items = <<>> => s.text = <<>>)}

\* Ending a paragraph keeps what a list says, whether it is one or links
\* (parse.go:626-644).
LEMMA FlushReads ==
  ASSUME NEW X, NEW h, Reader(h, X), NEW s \in OpenLists
  PROVE  /\ Flush(s) \in OpenLists /\ Flush(s).text = <<>>
         /\ Flush(s).items = <<>> <=> s.items = <<>>
         /\ ListRead(Flush(s), h) = ListRead(s, h)
<1>0. s \in ListSet /\ AllLinks(s.links) /\ (s.items = <<>> => s.text = <<>>)
  BY DEF OpenLists
<1>1. PICK f \in ListSet : f = Flush(s)
  BY <1>0, FlushTyped
<1>2. /\ s.items \in Seq(ItemSet) /\ s.text \in Seq(AnyLine) /\ s.links \in Seq(AnyLine)
  BY <1>0, ListFacts
<1>3. PICK a \in Seq(X), b \in Seq(X), c \in Seq(X) :
        a = ItemsRead(s.items, h) /\ b = Read(s.links, h) /\ c = Read(s.text, h)
  BY <1>2, ItemsTyped, ReadTyped
<1>4. Read(<<>>, h) = <<>>
  BY ReadNone
<1>5. CASE s.text = <<>>
  <2>1. \/ s.items = <<>> /\ f = [s EXCEPT !.text = <<>>]
        \/ s.items # <<>> /\ f = [s EXCEPT !.text = <<>>, !.links = s.links \o <<>>]
    BY <1>1, <1>5 DEF Flush
  <2>2. s.links \o <<>> = s.links
    BY <1>2, ConcatEmptySeq
  <2>3. f = s
    <3>1. f.items = s.items /\ f.text = s.text /\ f.links = s.links /\ f.between = s.between
      BY <1>0, <1>5, <2>1, <2>2 DEF ListSet
    <3> QED  BY <1>0, <3>1 DEF ListSet
  <2> QED  BY <1>1, <1>5, <2>3
<1>6. CASE s.text # <<>> /\ AllLinks(s.text)
  <2>1. PICK links : links = s.links \o s.text
    OBVIOUS
  <2>2. f = [s EXCEPT !.text = <<>>, !.links = links] /\ s.items # <<>>
    BY <1>0, <1>1, <1>6, <2>1 DEF Flush
  <2>3. f.items = s.items /\ f.links = links /\ f.text = <<>>
    BY <1>0, <2>2 DEF ListSet
  <2>4. AllLinks(links)
    <3>1. PICK m \in Nat, n \in Nat : m = Len(s.links) /\ n = Len(s.text) /\ DOMAIN s.links = 1..m /\ DOMAIN s.text = 1..n
      BY <1>2, SeqFacts
    <3>2. /\ links \in Seq(AnyLine) /\ Len(links) = m + n
          /\ \A k \in 1..(m + n) : links[k] = IF k <= m THEN s.links[k] ELSE s.text[k - m]
      BY <1>2, <2>1, <3>1, ConcatProperties, ZenonT(30)
    <3>3. DOMAIN links = 1..(m + n)
      BY <3>2, SeqFacts
    <3>4. \A k \in 1..m : Defines(s.links[k])
      BY <1>0, <3>1 DEF AllLinks
    <3>5. \A k \in 1..n : Defines(s.text[k])
      BY <1>6, <3>1 DEF AllLinks
    <3>6. ASSUME NEW k \in 1..(m + n)  PROVE Defines(links[k])
      <4>1. CASE k <= m
        <5>1. k \in 1..m
          BY <4>1
        <5> QED  BY <3>2, <3>4, <4>1, <5>1
      <4>2. CASE ~ (k <= m)
        <5>1. k - m \in 1..n
          BY <4>2
        <5> QED  BY <3>2, <3>5, <4>2, <5>1
      <4> QED  BY <4>1, <4>2
    <3> QED  BY <3>3, <3>6 DEF AllLinks
  <2>5. Read(links, h) = b \o c
    BY <1>2, <1>3, <2>1, ReadConcat
  <2>6. ListRead(f, h) = (a \o (b \o c)) \o <<>>
    BY <1>3, <1>4, <2>3, <2>5 DEF ListRead
  <2>7. (a \o (b \o c)) \o <<>> = (a \o b) \o c
    <3>1. a \o (b \o c) = (a \o b) \o c
      BY ConcatAssociative, SMTT(30)
    <3>2. (a \o b) \o c \in Seq(X)
      BY ConcatProperties
    <3> QED  BY <3>1, <3>2, ConcatEmptySeq
  <2>8. ListRead(s, h) = (a \o b) \o c
    BY <1>3 DEF ListRead
  <2> QED  BY <1>1, <2>2, <2>3, <2>4, <2>6, <2>7, <2>8 DEF OpenLists
<1>7. CASE s.text # <<>> /\ ~ AllLinks(s.text)
  <2>1. PICK items : items = [s.items EXCEPT ![Len(s.items)].paras = Append(@, s.text)]
    OBVIOUS
  <2>2. s.items # <<>>
    BY <1>0, <1>7
  <2>3. f = [s EXCEPT !.text = <<>>, !.items = items]
    <3>1. Flush(s) = [s EXCEPT !.text = <<>>, !.items[Len(s.items)].paras = Append(@, s.text)]
      BY <1>7, <2>2 DEF Flush
    <3> QED  BY <1>0, <1>1, <2>1, <3>1 DEF ListSet
  <2>4. f.items = items /\ f.links = s.links /\ f.text = <<>>
    BY <1>0, <2>3 DEF ListSet
  <2>5. ItemsRead(items, h) = a \o c
    BY <1>2, <1>3, <2>1, <2>2, ItemsGrown
  <2>6. items # <<>>
    <3>1. DOMAIN items = DOMAIN s.items
      BY <2>1
    <3>2. DOMAIN s.items # {}
      <4>1. DOMAIN s.items = 1..Len(s.items) /\ Len(s.items) \in Nat /\ Len(s.items) # 0
        BY <1>2, <2>2, SeqFacts, EmptySeq
      <4>2. 1 \in 1..Len(s.items)
        BY <4>1
      <4> QED  BY <4>1, <4>2
    <3>3. DOMAIN <<>> = {}
      OBVIOUS
    <3> QED  BY <3>1, <3>2, <3>3
  <2>7. ListRead(f, h) = ((a \o c) \o b) \o <<>>
    BY <1>3, <1>4, <2>4, <2>5 DEF ListRead
  <2>8. Moves(b, X)
    BY <1>0, <1>2, <1>3, LinksMove
  <2>9. ((a \o c) \o b) \o <<>> = (a \o b) \o c
    <3>1. (a \o c) \o b = a \o (c \o b)
      BY ConcatAssociative
    <3>4. (a \o b) \o c = a \o (b \o c)
      BY ConcatAssociative
    <3>2. b \o c = c \o b
      BY <2>8 DEF Moves
    <3>3. (a \o c) \o b \in Seq(X)
      BY ConcatProperties
    <3> QED  BY <3>1, <3>2, <3>3, <3>4, ConcatEmptySeq
  <2>10. ListRead(s, h) = (a \o b) \o c
    BY <1>3 DEF ListRead
  <2> QED  BY <1>0, <1>1, <2>2, <2>4, <2>6, <2>7, <2>9, <2>10 DEF OpenLists
<1> QED  BY <1>5, <1>6, <1>7

\* A line more is said by the list it is taken into: in an item of its own, or with
\* the text that is being read (parse.go:646-667).
LEMMA TakeReads ==
  ASSUME NEW X, NEW h, Reader(h, X), NEW s \in OpenLists, NEW line \in AnyLine, NEW first,
         s.items = <<>> => isList(line) /\ line = first
  PROVE  /\ Take(s, line, first) \in OpenLists /\ Take(s, line, first).items # <<>>
         /\ ListRead(Take(s, line, first), h) = ListRead(s, h) \o h[Unmarked(line.words)]
<1>0. \A x, y, z \in Seq(X) : (x \o y) \o z = x \o (y \o z)
  BY ConcatAssociative
<1>1. line.words \in Seq(Word)
  BY FieldsTyped
<1>2. PICK f \in OpenLists : /\ f = Flush(s) /\ f.text = <<>> /\ (f.items = <<>> <=> s.items = <<>>)
                             /\ ListRead(f, h) = ListRead(s, h)
  BY FlushReads
<1>3. <<>> \in Seq({" ", "\t"}) /\ <<>> \in Seq(Seq(AnyLine))
  BY EmptySeq
<1>4. s \in ListSet /\ f \in ListSet /\ AllLinks(s.links) /\ AllLinks(f.links)
  BY DEF OpenLists
<1>5. /\ s.items \in Seq(ItemSet) /\ s.text \in Seq(AnyLine) /\ s.links \in Seq(AnyLine)
      /\ f.items \in Seq(ItemSet) /\ f.text \in Seq(AnyLine) /\ f.links \in Seq(AnyLine)
  BY <1>4, ListFacts
<1>6. PICK r \in Seq(X) : r = h[Unmarked(line.words)]
  BY <1>1, UnmarkedFound DEF Reader
<1> DEFINE number(l) == l.words[1] \in Numbers
<1>7. CASE isList(line) /\ number(line) = number(first)
  <2>1. Len(line.words) \in Nat /\ Len(line.words) > 1 /\ line.words[1] \in Bullets \union Numbers
    BY <1>1, <1>7, SeqFacts DEF isList
  <2>2. 1 \in 1..Len(line.words) /\ line.words # <<>>
    BY <2>1, EmptySeq
  <2>3. line.words[1] \in Word /\ Tail(line.words) \in Seq(Word)
    BY <1>1, <2>2, SeqFacts, HeadTailProperties
  <2>4. PICK item \in ItemSet : item = [marker |-> line.words[1], paras |-> <<>>]
    BY <1>3, <2>3 DEF ItemSet
  <2>5. PICK new \in AnyLine : new = Line(<<>>, Tail(line.words)) /\ new.words = Tail(line.words)
    BY <1>3, <2>3, LineTyped
  <2>6. PICK items \in Seq(ItemSet) : items = Append(f.items, item) /\ items # <<>>
    BY <1>5, AppendProperties
  <2>7. <<new>> \in Seq(AnyLine)
    BY SingleTyped
  <2>8. PICK t \in ListSet : t = Take(s, line, first)
    BY <1>4, TakeTyped
  <2>9. t = [f EXCEPT !.items = items, !.text = <<new>>]
    BY <1>2, <1>7, <2>4, <2>5, <2>6, <2>8 DEF Take
  <2>10. t.items = items /\ t.text = <<new>> /\ t.links = f.links
    BY <1>4, <2>9 DEF ListSet
  <2>11. Read(<<new>>, h) = r
    <3>1. Unmarked(new.words) = Unmarked(line.words)
      BY <1>1, <2>1, <2>2, <2>5, UnmarkedTail DEF Marks
    <3> QED  BY <1>6, <3>1, ReadOne
  <2>12. PICK a \in Seq(X), b \in Seq(X) : a = ItemsRead(f.items, h) /\ b = Read(f.links, h)
    BY <1>5, ItemsTyped, ReadTyped
  <2>13. ItemsRead(items, h) = a
    <3>1. ItemsRead(items, h) = a \o ParasRead(item.paras, h)
      BY <1>5, <2>6, <2>12, ItemsAppend
    <3>2. ParasRead(item.paras, h) = <<>>
      BY <2>4, ParasNone
    <3> QED  BY <2>12, <3>1, <3>2, ConcatEmptySeq
  <2>14. ListRead(t, h) = (a \o b) \o r
    BY <2>10, <2>11, <2>12, <2>13 DEF ListRead
  <2>15. ListRead(f, h) = a \o b
    <3>1. ListRead(f, h) = (a \o b) \o <<>>
      BY <1>2, <2>12, ReadNone DEF ListRead
    <3>2. a \o b \in Seq(X)
      BY ConcatProperties
    <3> QED  BY <3>1, <3>2, ConcatEmptySeq
  <2>16. t \in OpenLists
    BY <1>4, <2>6, <2>10 DEF OpenLists
  <2>17. ListRead(t, h) = ListRead(s, h) \o h[Unmarked(line.words)]
    BY <1>2, <1>6, <2>14, <2>15
  <2> QED  BY <2>6, <2>8, <2>10, <2>16, <2>17
<1>8. CASE ~ (isList(line) /\ number(line) = number(first)) /\ line.words = <<>>
  <2>1. PICK t \in ListSet : t = Take(s, line, first)
    BY <1>4, TakeTyped
  <2>2. t = [f EXCEPT !.between = TRUE]
    BY <1>2, <1>8, <2>1 DEF Take
  <2>3. t.items = f.items /\ t.text = f.text /\ t.links = f.links
    BY <1>4, <2>2 DEF ListSet
  <2>4. s.items # <<>>
    BY <1>8
  <2>5. ListRead(t, h) = ListRead(s, h)
    BY <1>2, <2>3 DEF ListRead
  <2>6. r = <<>>
    BY <1>6, <1>8, UnmarkedNone DEF Reader
  <2>7. ListRead(s, h) \in Seq(X)
    <3>1. PICK a \in Seq(X), b \in Seq(X), c \in Seq(X) :
            a = ItemsRead(s.items, h) /\ b = Read(s.links, h) /\ c = Read(s.text, h)
      BY <1>5, ItemsTyped, ReadTyped
    <3>2. a \o b \in Seq(X)
      BY ConcatProperties
    <3>3. (a \o b) \o c \in Seq(X)
      BY <3>2, ConcatProperties
    <3> QED  BY <3>1, <3>3 DEF ListRead
  <2>8. ListRead(s, h) \o <<>> = ListRead(s, h)
    BY <2>7, ConcatEmptySeq
  <2>9. t \in OpenLists /\ t.items # <<>>
    BY <1>2, <1>4, <2>3, <2>4 DEF OpenLists
  <2> QED  BY <1>6, <2>1, <2>5, <2>6, <2>8, <2>9
<1>9. CASE ~ (isList(line) /\ number(line) = number(first)) /\ line.words # <<>>
  <2>1. PICK new \in AnyLine : new = Trimmed(line) /\ new.words = line.words
    BY <1>1, <1>3, LineTyped DEF Trimmed
  <2>2. PICK text \in Seq(AnyLine) : text = Append(s.text, new)
    BY <1>5, AppendProperties
  <2>3. PICK t \in ListSet : t = Take(s, line, first)
    BY <1>4, TakeTyped
  <2>4. t = [s EXCEPT !.text = text]
    BY <1>9, <2>1, <2>2, <2>3 DEF Take
  <2>5. t.items = s.items /\ t.text = text /\ t.links = s.links
    BY <1>4, <2>4 DEF ListSet
  <2>6. s.items # <<>>
    BY <1>9
  <2>7. PICK a \in Seq(X), b \in Seq(X), c \in Seq(X) :
          a = ItemsRead(s.items, h) /\ b = Read(s.links, h) /\ c = Read(s.text, h)
    BY <1>5, ItemsTyped, ReadTyped
  <2>8. Read(text, h) = c \o r
    <3>1. Read(Append(s.text, new), h) = Read(s.text, h) \o h[Unmarked(new.words)]
      BY <1>5, ReadAppend
    <3> QED  BY <1>6, <2>1, <2>2, <2>7, <3>1
  <2>9. ListRead(t, h) = (a \o b) \o (c \o r)
    BY <2>5, <2>7, <2>8 DEF ListRead
  <2>10. ListRead(s, h) = (a \o b) \o c
    BY <2>7 DEF ListRead
  <2>11. ((a \o b) \o c) \o r = (a \o b) \o (c \o r)
    <3>1. PICK ab \in Seq(X) : ab = a \o b
      BY ConcatProperties
    <3>2. (ab \o c) \o r = ab \o (c \o r)
      BY <1>0
    <3> QED  BY <3>1, <3>2
  <2>12. t \in OpenLists
    BY <1>4, <2>5, <2>6 DEF OpenLists
  <2>13. ListRead(t, h) = ListRead(s, h) \o h[Unmarked(line.words)]
    BY <1>6, <2>9, <2>10, <2>11
  <2> QED  BY <2>3, <2>5, <2>6, <2>12, <2>13
<1> QED  BY <1>7, <1>8, <1>9

\* The lines of a text from the first to one more.
LEMMA ReadNext ==
  ASSUME NEW X, NEW h, Reader(h, X), NEW text \in Seq(AnyLine), NEW m \in 1..Len(text)
  PROVE  /\ Read(SubSeq(text, 1, m), h) = Read(SubSeq(text, 1, m - 1), h) \o h[Unmarked(text[m].words)]
         /\ Read(SubSeq(text, 1, m - 1), h) \in Seq(X)
<1>1. PICK n \in Nat : n = Len(text)
  BY SeqFacts
<1>2. 1 \in 1..Len(text) /\ m \in 1..Len(text) /\ 1 \in Nat \ {0} /\ m - 1 \in Nat /\ m - 1 <= Len(text)
  BY <1>1
<1>3. PICK before \in Seq(AnyLine) : before = SubSeq(text, 1, m - 1)
  BY <1>2, SubSeqTyped
<1>4. text[m] \in AnyLine
  BY SeqFacts
<1>5. SubSeq(text, 1, m) = before \o <<text[m]>>
  BY <1>2, <1>3, SubSeqRecursiveSecond
<1>6. Append(before, text[m]) = before \o <<text[m]>>
  BY <1>4, AppendIsConcat
<1>7. Read(Append(before, text[m]), h) = Read(before, h) \o h[Unmarked(text[m].words)]
  BY <1>4, ReadAppend
<1> QED  BY <1>3, <1>5, <1>6, <1>7, ReadTyped

\* All lines of a list, the first of which starts an item.
LEMMA TakeAllReads ==
  ASSUME NEW X, NEW h, Reader(h, X), NEW text \in Seq(AnyLine), text # <<>>, isList(text[1])
  PROVE  TakeAll(text) \in OpenLists /\ ListRead(TakeAll(text), h) = Read(text, h)
<1>1. PICK n \in Nat : n = Len(text)
  BY SeqFacts
<1>2. PICK w \in [0..n -> ListSet] :
        /\ w[0] = EmptyList /\ w[n] = TakeAll(text)
        /\ \A m \in 1..n : w[m] = Take(w[m - 1], text[m], text[1])
  BY <1>1, TakeAllFolds
<1> DEFINE good == [m \in 0..n |-> /\ w[m] \in OpenLists /\ (m > 0 => w[m].items # <<>>)
                                   /\ ListRead(w[m], h) = Read(SubSeq(text, 1, m), h)]
           D == {TRUE}
<1>3. good[0] \in D
  <2>1. w[0].items = <<>> /\ w[0].text = <<>> /\ w[0].links = <<>> /\ w[0] \in ListSet
    BY <1>2, EmptyListTyped DEF EmptyList
  <2>2. AllLinks(<<>>)
    BY DEF AllLinks
  <2>3. ListRead(w[0], h) = <<>>
    <3>1. ListRead(w[0], h) = (<<>> \o <<>>) \o <<>>
      BY <2>1, ReadNone, ParasNone DEF ListRead
    <3> QED  BY <3>1
  <2>4. SubSeq(text, 1, 0) = <<>>
    <3>1. 1 \in Int /\ 0 \in Int /\ 0 < 1
      OBVIOUS
    <3> QED  BY <3>1, SubSeqEmpty
  <2>5. ListRead(w[0], h) = Read(SubSeq(text, 1, 0), h)
    BY <2>3, <2>4, ReadNone
  <2>6. w[0] \in OpenLists
    BY <2>1, <2>2 DEF OpenLists
  <2>7. 0 \in 0..n /\ ~ (0 > 0)
    OBVIOUS
  <2> QED  BY <2>5, <2>6, <2>7
<1>4. ASSUME NEW m \in (0 + 1)..n, good[m - 1] \in D  PROVE good[m] \in D
  <2>1. m \in 1..n /\ m - 1 \in 0..n /\ m \in 0..n /\ m \in 1..Len(text)
    BY <1>1
  <2>2. PICK s \in OpenLists : /\ s = w[m - 1] /\ (m - 1 > 0 => s.items # <<>>)
                               /\ ListRead(s, h) = Read(SubSeq(text, 1, m - 1), h)
    BY <1>4, <2>1
  <2>3. PICK line \in AnyLine : line = text[m]
    BY <2>1, SeqFacts
  <2>4. s.items = <<>> => isList(line) /\ line = text[1]
    <3>1. s.items = <<>> => m = 1
      BY <2>1, <2>2
    <3> QED  BY <2>3, <3>1
  <2>5. PICK t : t = Take(s, line, text[1])
    OBVIOUS
  <2>6. t \in OpenLists /\ t.items # <<>> /\ ListRead(t, h) = ListRead(s, h) \o h[Unmarked(line.words)]
    BY <2>4, <2>5, TakeReads
  <2>7. w[m] = t
    BY <1>2, <2>1, <2>2, <2>3, <2>5
  <2>8. ListRead(t, h) = Read(SubSeq(text, 1, m), h)
    BY <2>1, <2>2, <2>3, <2>6, ReadNext
  <2> QED  BY <2>1, <2>6, <2>7, <2>8
<1>5. good[n] \in D
  <2> HIDE DEF good, D
  <2>1. 0 \in Nat /\ 0 <= n
    OBVIOUS
  <2> QED  BY <1>3, <1>4, <2>1, Climbs
<1>6. n \in 0..n
  OBVIOUS
<1>7. SubSeq(text, 1, n) = text
  BY <1>1, SubSeqFull
<1> QED  BY <1>2, <1>5, <1>6, <1>7


------------------------------------------------------------------------------
(* What a block is read as is what its span says *)

\* The links of a block are read by themselves.
BlockRead(b, h) ==
  IF b.kind = "list" THEN ItemsRead(b.items, h) ELSE IF b.kind = "links" THEN <<>> ELSE Read(b.text, h)

\* The lines of a span, and the first of them.
LEMMA SpanText ==
  ASSUME NEW all \in Seq(AnyLine), NEW span, Within(all, span)
  PROVE  LET text == SubSeq(all, span.start, span.end)
         IN /\ text \in Seq(AnyLine) /\ text # <<>>
            /\ text[1] = all[span.start] /\ text[1] \in AnyLine
            /\ Len(text) = span.end - span.start + 1
<1> DEFINE text == SubSeq(all, span.start, span.end)
<1>1. PICK n \in Nat : n = Len(all)
  BY SeqFacts
<1>2. PICK start \in 1..n, end \in Nat : /\ start = span.start /\ end = span.end
                                         /\ start <= end /\ end <= n
  BY <1>1 DEF Within, SpanSet
<1>3. start \in Nat \ {0} /\ end <= Len(all)
  BY <1>1, <1>2
<1>4. /\ SubSeq(all, start, end) \in Seq(AnyLine)
      /\ Len(SubSeq(all, start, end)) = IF start <= end THEN end - start + 1 ELSE 0
      /\ \A k \in 1..(end - start + 1) : SubSeq(all, start, end)[k] = all[start + k - 1]
  BY <1>3, SubSeqTyped
<1>5. 1 \in 1..(end - start + 1) /\ start + 1 - 1 = start /\ Len(SubSeq(all, start, end)) = end - start + 1
  BY <1>2, <1>4
<1>6. SubSeq(all, start, end)[1] = all[start]
  BY <1>4, <1>5
<1>7. all[start] \in AnyLine
  BY <1>1, SeqFacts
<1>8. SubSeq(all, start, end) # <<>>
  <2>1. Len(SubSeq(all, start, end)) # 0
    BY <1>2, <1>5
  <2> QED  BY <1>4, <2>1, EmptySeq
<1>9. text = SubSeq(all, start, end)
  BY <1>2
<1> HIDE DEF text
<1>10. text \in Seq(AnyLine) /\ text # <<>> /\ text[1] = all[span.start] /\ text[1] \in AnyLine
       /\ Len(text) = span.end - span.start + 1
  BY <1>2, <1>4, <1>5, <1>6, <1>7, <1>8, <1>9
<1> QED  BY <1>10 DEF text

\* A list (parse.go:602-695).
LEMMA ListReads ==
  ASSUME NEW X, NEW h, Reader(h, X), NEW text \in Seq(AnyLine), text # <<>>, isList(text[1]),
         NEW before \in BOOLEAN
  PROVE  LET b == ListBlock(text, before)
         IN /\ AllLinks(b.links)
            /\ Read(text, h) = ItemsRead(b.items, h) \o Read(b.links, h)
<1>1. PICK s \in OpenLists : s = TakeAll(text) /\ ListRead(s, h) = Read(text, h)
  BY TakeAllReads
<1>2. PICK f \in OpenLists : f = Flush(s) /\ f.text = <<>> /\ ListRead(f, h) = ListRead(s, h)
  BY FlushReads
<1>3. f \in ListSet /\ AllLinks(f.links)
  BY DEF OpenLists
<1>4. PICK a \in Seq(X), b \in Seq(X) : a = ItemsRead(f.items, h) /\ b = Read(f.links, h)
  BY <1>3, ListFacts, ItemsTyped, ReadTyped
<1>5. ListRead(f, h) = a \o b
  <2>1. ListRead(f, h) = (a \o b) \o <<>>
    BY <1>2, <1>4, ReadNone DEF ListRead
  <2>2. a \o b \in Seq(X)
    BY ConcatProperties
  <2> QED  BY <2>1, <2>2, ConcatEmptySeq
<1>6. ListBlock(text, before).items = f.items /\ ListBlock(text, before).links = f.links
  BY <1>1, <1>2 DEF ListBlock
<1>7. Read(text, h) = ItemsRead(f.items, h) \o Read(f.links, h)
  BY <1>1, <1>2, <1>4, <1>5
<1> QED  BY <1>3, <1>6, <1>7

\* A span of any kind (parse.go:301-361).
LEMMA BlockReads ==
  ASSUME NEW X, NEW h, Reader(h, X), NEW all \in Seq(AnyLine), NEW span,
         Within(all, span), Kinded(all, span), NEW before \in BOOLEAN
  PROVE  LET b == BlockOf(all, span, before)
         IN /\ LinksOf(b) \in Seq(AnyLine) /\ AllLinks(LinksOf(b)) /\ BlockRead(b, h) \in Seq(X)
            /\ Read(SubSeq(all, span.start, span.end), h) = BlockRead(b, h) \o Read(LinksOf(b), h)
<1>1. PICK text \in Seq(AnyLine) :
        /\ text = SubSeq(all, span.start, span.end) /\ text # <<>> /\ text[1] = all[span.start]
        /\ text[1] \in AnyLine /\ Len(text) = span.end - span.start + 1
  BY SpanText
<1>2. PICK b \in BlockSet : b = BlockOf(all, span, before)
  BY BlockTyped
<1>3. PICK r \in Seq(X) : r = Read(text, h)
  BY ReadTyped
<1>4. /\ <<>> \in Seq(AnyLine) /\ AllLinks(<<>>) /\ Read(<<>>, h) = <<>> /\ <<>> \in Seq(X)
      /\ r \o <<>> = r /\ <<>> \o r = r
  BY EmptySeq, ConcatEmptySeq, ReadNone DEF AllLinks
<1>5. span.kind \in {"list", "code", "heading", "old heading", "para"}
  BY DEF Within, SpanSet
<1>6. text[1].words \in Seq(Word) /\ <<>> \in Seq({" ", "\t"})
  BY <1>1, FieldsTyped, EmptySeq
<1> DEFINE Goal == /\ LinksOf(b) \in Seq(AnyLine) /\ AllLinks(LinksOf(b)) /\ BlockRead(b, h) \in Seq(X)
                   /\ r = BlockRead(b, h) \o Read(LinksOf(b), h)
<1> HIDE DEF Goal
<1>7. ASSUME span.kind = "list"  PROVE Goal
  <2>1. b = ListBlock(text, before) /\ isList(text[1])
    BY <1>1, <1>2, <1>7 DEF BlockOf, Kinded
  <2>2. AllLinks(b.links) /\ r = ItemsRead(b.items, h) \o Read(b.links, h)
    BY <1>1, <1>3, <2>1, ListReads
  <2>3. b \in Lists
    BY <2>1, ListBlockTyped
  <2>4. b.kind = "list" /\ b.items \in Seq(ItemSet) /\ b.links \in Seq(AnyLine)
    BY <2>3 DEF Lists
  <2>5. LinksOf(b) = b.links /\ BlockRead(b, h) = ItemsRead(b.items, h)
    BY <2>4 DEF LinksOf, BlockRead
  <2>6. ItemsRead(b.items, h) \in Seq(X)
    BY <2>4, ItemsTyped
  <2> QED  BY <2>2, <2>4, <2>5, <2>6 DEF Goal
<1>8. ASSUME b.kind \in {"para", "heading", "code"}, Read(b.text, h) = r  PROVE Goal
  <2>1. LinksOf(b) = <<>> /\ BlockRead(b, h) = r
    BY <1>8 DEF LinksOf, BlockRead
  <2> QED  BY <1>4, <2>1 DEF Goal
<1>9. ASSUME span.kind = "code"  PROVE Goal
  <2>1. b = [kind |-> "code", text |-> unindent(text)]
    BY <1>1, <1>2, <1>9 DEF BlockOf
  <2>2. b.kind = "code" /\ b.text = unindent(text)
    BY <2>1
  <2>3. Read(b.text, h) = r
    BY <1>3, <2>2, UnindentReads
  <2> QED  BY <1>8, <2>2, <2>3
<1>10. ASSUME span.kind \in {"heading", "old heading"}
       PROVE  r = h[Unmarked(text[1].words)]
  <2>1. Len(text) = 1
    <3>1. span.end = span.start /\ span.start \in 1..Len(all)
      BY <1>10 DEF Kinded, Within
    <3>2. span.start \in Int
      BY <3>1
    <3> QED  BY <1>1, <3>1, <3>2
  <2>2. text = <<text[1]>>
    <3>1. /\ <<text[1]>> \in Seq(AnyLine) /\ Len(<<text[1]>>) = 1 /\ <<text[1]>>[1] = text[1]
      BY <1>1, SingleTyped
    <3>2. PICK one \in Seq(AnyLine) : one = <<text[1]>> /\ Len(one) = 1 /\ one[1] = text[1]
      BY <3>1
    <3>3. \A k \in 1..Len(text) : text[k] = one[k]
      BY <2>1, <3>2
    <3>4. text = one
      BY <2>1, <3>2, <3>3, SeqEqual
    <3> QED  BY <3>2, <3>4
  <2> QED  BY <1>1, <1>3, <2>2, ReadOne
<1>11. ASSUME span.kind = "old heading"  PROVE Goal
  <2>1. PICK line \in AnyLine : line = Trimmed(text[1]) /\ line.words = text[1].words
    <3>1. /\ Line(<<>>, text[1].words) \in AnyLine
          /\ Line(<<>>, text[1].words).words = text[1].words
      BY <1>6, LineTyped
    <3> QED  BY <3>1 DEF Trimmed
  <2>2. b = [kind |-> "heading", text |-> <<line>>]
    BY <1>1, <1>2, <1>11, <2>1 DEF BlockOf
  <2>3. b.kind = "heading" /\ b.text = <<line>>
    BY <2>2
  <2>4. Read(b.text, h) = r
    BY <1>10, <1>11, <2>1, <2>3, ReadOne
  <2> QED  BY <1>8, <2>3, <2>4
<1>12. ASSUME span.kind = "heading"  PROVE Goal
  <2>1. isHeading(text[1])
    BY <1>1, <1>12 DEF Within
  <2>2. text[1].words[1] = "#" /\ text[1].words # <<>>
    <3>1. Len(text[1].words) > 1
      BY <2>1 DEF isHeading
    <3>2. text[1].words # <<>>
      BY <3>1, EmptySeq
    <3> QED  BY <2>1, <3>2 DEF isHeading
  <2>3. Tail(text[1].words) \in Seq(Word) /\ Unmarked(Tail(text[1].words)) = Unmarked(text[1].words)
    <3>1. PICK words \in Seq(Word) : words = text[1].words
      BY <1>6, FieldsTyped
    <3>2. words # <<>> /\ words[1] \in Marks
      BY <2>2, <3>1 DEF Marks
    <3> QED  BY <3>1, <3>2, UnmarkedTail
  <2>4. PICK line \in AnyLine : line = Line(<<>>, Tail(text[1].words)) /\ line.words = Tail(text[1].words)
    <3>1. PICK rest \in Seq(Word) : rest = Tail(text[1].words)
      BY <2>3
    <3>2. <<>> \in Seq({" ", "\t"})
      BY EmptySeq
    <3>3. Line(<<>>, rest) \in AnyLine /\ Line(<<>>, rest).words = rest
      BY <3>2, LineTyped
    <3> QED  BY <3>1, <3>3
  <2>5. b = [kind |-> "heading", text |-> <<line>>]
    BY <1>1, <1>2, <1>12, <2>4 DEF BlockOf
  <2>6. b.kind = "heading" /\ b.text = <<line>>
    BY <2>5
  <2>7. Read(b.text, h) = r
    BY <1>10, <1>12, <2>3, <2>4, <2>6, ReadOne
  <2> QED  BY <1>8, <2>6, <2>7
<1>13. ASSUME span.kind = "para"  PROVE Goal
  <2>1. b = [kind |-> IF AllLinks(text) THEN "links" ELSE "para", text |-> text]
    BY <1>1, <1>2, <1>13 DEF BlockOf
  <2>2. CASE AllLinks(text)
    <3>1. b.kind = "links" /\ b.text = text
      BY <2>1, <2>2
    <3>2. LinksOf(b) = text /\ BlockRead(b, h) = <<>>
      BY <3>1 DEF LinksOf, BlockRead
    <3> QED  BY <1>1, <1>3, <1>4, <2>2, <3>2 DEF Goal
  <2>3. CASE ~ AllLinks(text)
    <3>1. b.kind = "para" /\ b.text = text
      BY <2>1, <2>3
    <3> QED  BY <1>3, <1>8, <3>1
  <2> QED  BY <2>2, <2>3
<1>14. Goal
  BY <1>5, <1>7, <1>9, <1>11, <1>12, <1>13
<1>15. /\ LinksOf(b) \in Seq(AnyLine) /\ AllLinks(LinksOf(b)) /\ BlockRead(b, h) \in Seq(X)
       /\ Read(SubSeq(all, span.start, span.end), h) = BlockRead(b, h) \o Read(LinksOf(b), h)
  BY <1>1, <1>3, <1>14 DEF Goal
<1> QED  BY <1>2, <1>15



------------------------------------------------------------------------------
(* The items of a list have markers *)

TakenItems == {item \in ItemSet : item.marker \in Bullets \union Numbers}
TakenLists == {s \in ListSet : \A k \in 1..Len(s.items) : s.items[k] \in TakenItems}

\* Ending a paragraph, and taking a line, make no other items.
LEMMA FlushTaken ==
  ASSUME NEW s \in TakenLists
  PROVE  Flush(s) \in TakenLists
<1>1. s \in ListSet /\ \A k \in 1..Len(s.items) : s.items[k] \in TakenItems
  BY DEF TakenLists
<1>2. s.items \in Seq(ItemSet) /\ s.text \in Seq(AnyLine)
  BY <1>1, ListFacts
<1>3. PICK f \in ListSet : f = Flush(s)
  BY <1>1, FlushTyped
<1>4. CASE s.items = <<>>
  <2>1. f = [s EXCEPT !.text = <<>>]
    BY <1>3, <1>4 DEF Flush
  <2>2. f.items = s.items
    BY <1>1, <2>1 DEF ListSet
  <2> QED  BY <1>1, <1>3, <2>2 DEF TakenLists
<1>5. CASE s.items # <<>> /\ (s.text = <<>> \/ AllLinks(s.text))
  <2>1. f = [s EXCEPT !.text = <<>>, !.links = @ \o s.text]
    BY <1>3, <1>5 DEF Flush
  <2>2. f.items = s.items
    BY <1>1, <2>1 DEF ListSet
  <2> QED  BY <1>1, <1>3, <2>2 DEF TakenLists
<1>6. CASE s.items # <<>> /\ ~ (s.text = <<>> \/ AllLinks(s.text))
  <2>1. PICK n \in Nat : n = Len(s.items) /\ DOMAIN s.items = 1..n
    BY <1>2, SeqFacts
  <2>2. n \in 1..n
    <3>1. n # 0
      BY <1>2, <1>6, <2>1, EmptySeq
    <3> QED  BY <3>1
  <2>3. f = [s EXCEPT !.text = <<>>, !.items[n].paras = Append(@, s.text)]
    BY <1>3, <1>6, <2>1 DEF Flush
  <2>4. f.items = [s.items EXCEPT ![n].paras = Append(@, s.text)]
    BY <1>1, <2>3 DEF ListSet
  <2>5. DOMAIN f.items = 1..n
    BY <2>1, <2>4
  <2>6. f.items \in Seq(ItemSet)
    BY ListFacts
  <2>7. Len(f.items) = n
    BY <2>5, <2>6, LenProperties
  <2>8. ASSUME NEW k \in 1..n  PROVE f.items[k] \in TakenItems
    <3>1. s.items[k] \in TakenItems /\ f.items[k] \in ItemSet
      BY <1>1, <2>1, <2>6, <2>7, SeqFacts
    <3>2. f.items[k].marker = s.items[k].marker
      <4>1. CASE k = n
        <5>1. f.items[k] = [s.items[k] EXCEPT !.paras = Append(@, s.text)]
          BY <2>1, <2>4, <4>1
        <5>2. s.items[k] \in ItemSet
          BY <3>1 DEF TakenItems
        <5> QED  BY <5>1, <5>2 DEF ItemSet
      <4>2. CASE k # n
        BY <2>1, <2>4, <4>2
      <4> QED  BY <4>1, <4>2
    <3> QED  BY <3>1, <3>2 DEF TakenItems
  <2> QED  BY <1>3, <2>7, <2>8 DEF TakenLists
<1> QED  BY <1>4, <1>5, <1>6

LEMMA TakeTaken ==
  ASSUME NEW s \in TakenLists, NEW line \in AnyLine, NEW first
  PROVE  Take(s, line, first) \in TakenLists
<1>1. line.words \in Seq(Word)
  BY FieldsTyped
<1>2. PICK f \in TakenLists : f = Flush(s)
  BY FlushTaken
<1>3. s \in ListSet /\ f \in ListSet /\ \A k \in 1..Len(f.items) : f.items[k] \in TakenItems
  BY DEF TakenLists
<1>4. PICK t \in ListSet : t = Take(s, line, first)
  BY <1>3, TakeTyped
<1> DEFINE number(l) == l.words[1] \in Numbers
<1>5. CASE isList(line) /\ number(line) = number(first)
  <2>1. Len(line.words) > 1 /\ line.words[1] \in Bullets \union Numbers
    BY <1>5 DEF isList
  <2>2. 1 \in 1..Len(line.words) /\ <<>> \in Seq(Seq(AnyLine))
    BY <1>1, <2>1, SeqFacts, EmptySeq
  <2>3. line.words[1] \in Word
    BY <1>1, <2>2, SeqFacts
  <2>4. PICK item \in TakenItems : item = [marker |-> line.words[1], paras |-> <<>>]
    BY <2>1, <2>2, <2>3 DEF TakenItems, ItemSet
  <2>5. t = [f EXCEPT !.items = Append(@, item), !.text = <<Line(<<>>, Tail(line.words))>>]
    BY <1>2, <1>4, <1>5, <2>4 DEF Take
  <2>6. t.items = Append(f.items, item)
    BY <1>3, <2>5 DEF ListSet
  <2>7. PICK n \in Nat : n = Len(f.items) /\ f.items \in Seq(ItemSet)
    BY <1>3, ListFacts, SeqFacts
  <2>8. item \in ItemSet
    BY DEF TakenItems
  <2>9. /\ Len(t.items) = n + 1 /\ t.items[n + 1] = item
        /\ \A k \in 1..n : t.items[k] = f.items[k]
    BY <2>6, <2>7, <2>8, AppendProperties
  <2>10. \A k \in 1..(n + 1) : k \in 1..n \/ k = n + 1
    OBVIOUS
  <2>11. \A k \in 1..Len(t.items) : t.items[k] \in TakenItems
    BY <1>3, <2>4, <2>7, <2>9, <2>10
  <2> QED  BY <1>4, <2>11 DEF TakenLists
<1>6. CASE ~ (isList(line) /\ number(line) = number(first)) /\ line.words = <<>>
  <2>1. t = [f EXCEPT !.between = TRUE]
    BY <1>2, <1>4, <1>6 DEF Take
  <2>2. t.items = f.items
    BY <1>3, <2>1 DEF ListSet
  <2> QED  BY <1>3, <1>4, <2>2 DEF TakenLists
<1>7. CASE ~ (isList(line) /\ number(line) = number(first)) /\ line.words # <<>>
  <2>1. t = [s EXCEPT !.text = Append(@, Trimmed(line))]
    BY <1>4, <1>7 DEF Take
  <2>2. t.items = s.items
    BY <1>3, <2>1 DEF ListSet
  <2> QED  BY <1>4, <2>2 DEF TakenLists
<1> QED  BY <1>5, <1>6, <1>7

LEMMA TakeAllTaken ==
  ASSUME NEW text \in Seq(AnyLine)
  PROVE  TakeAll(text) \in TakenLists
<1>1. PICK n \in Nat : n = Len(text)
  BY SeqFacts
<1>2. PICK w \in [0..n -> ListSet] :
        /\ w[0] = EmptyList /\ w[n] = TakeAll(text)
        /\ \A m \in 1..n : w[m] = Take(w[m - 1], text[m], text[1])
  BY <1>1, TakeAllFolds
<1>3. w[0] \in TakenLists
  <2>1. EmptyList.items = <<>> /\ Len(<<>>) = 0 /\ 1..0 = {}
    BY DEF EmptyList
  <2> QED  BY <1>2, <2>1, EmptyListTyped DEF TakenLists
<1>4. ASSUME NEW m \in (0 + 1)..n, w[m - 1] \in TakenLists  PROVE w[m] \in TakenLists
  <2>1. m \in 1..n /\ text[m] \in AnyLine
    BY <1>1, SeqFacts
  <2> QED  BY <1>2, <1>4, <2>1, TakeTaken
<1>5. 0 \in Nat /\ 0 <= n
  OBVIOUS
<1>6. w[n] \in TakenLists
  BY <1>3, <1>4, <1>5, Climbs
<1> QED  BY <1>2, <1>6

\* And so do those of its block.
LEMMA ListTaken ==
  ASSUME NEW text \in Seq(AnyLine), NEW before \in BOOLEAN
  PROVE  /\ ListBlock(text, before) \in Lists
         /\ \A k \in 1..Len(ListBlock(text, before).items) : ListBlock(text, before).items[k] \in TakenItems
<1>1. PICK s \in TakenLists : s = TakeAll(text)
  BY TakeAllTaken
<1>2. PICK f \in TakenLists : f = Flush(s)
  BY FlushTaken
<1>3. ListBlock(text, before).items = f.items
  BY <1>1, <1>2 DEF ListBlock
<1>4. \A k \in 1..Len(f.items) : f.items[k] \in TakenItems
  BY DEF TakenLists
<1> QED  BY <1>3, <1>4, ListBlockTyped

------------------------------------------------------------------------------
(* What is printed is read as what it is printed from *)

\* Adding one sequence after another is adding all of them.
LEMMA Accumulates ==
  ASSUME NEW X, NEW n \in Nat, NEW seqs \in Seq(Seq(X)), Len(seqs) = n, NEW w,
         \A m \in 0..n : w[m] \in Seq(X), \A m \in 1..n : w[m] = w[m - 1] \o seqs[m]
  PROVE  Adds(w, 0, n, FlattenSeq(seqs))
<1>1. PICK v : Joined(v, seqs, n, X) /\ v[0] = <<>> /\ v[n] = FlattenSeq(seqs)
  BY FlattenJoins
<1>2. Joined(w, seqs, 0 + n, X)
  <2>1. 0 + n = n
    OBVIOUS
  <2> QED  BY <2>1 DEF Joined
<1>3. Part(seqs, n, seqs, 0, X)
  <2>1. \A k \in 1..n : seqs[k] \in Seq(X) /\ 0 + k = k
    BY SeqFacts
  <2> QED  BY <2>1 DEF Part
<1>4. 0 \in Nat
  OBVIOUS
<1>5. Adds(w, 0, n, v[n])
  BY <1>1, <1>2, <1>3, <1>4, JoinedAfter
<1> QED  BY <1>1, <1>5

\* An open line has nothing but marks.
AllMarks(words) == \A k \in 1..Len(words) : words[k] \in Marks
MarkOuts == {out \in Outs : out.open => AllMarks(Last(out.text).words)}

\* Marks are read as nothing.
LEMMA MarksRead ==
  ASSUME NEW words \in Seq(Word), AllMarks(words)
  PROVE  Unmarked(words) = <<>>
<1>1. <<>> \in Seq(Word) /\ words \o <<>> = words
  BY EmptySeq, ConcatEmptySeq
<1>2. Unmarked(words \o <<>>) = Unmarked(<<>>)
  BY <1>1, UnmarkedAfter DEF AllMarks
<1> QED  BY <1>1, <1>2, UnmarkedNone

\* What is out with an open line is what was before it, and that line.
LEMMA OpenSplit ==
  ASSUME NEW text \in Seq(AnyLine), text # <<>>
  PROVE  /\ Front(text) \in Seq(AnyLine) /\ Last(text) \in AnyLine
         /\ Front(text) \o <<Last(text)>> = text
<1>1. PICK front \in Seq(AnyLine), line \in AnyLine : text = Append(front, line)
  BY SequenceEmptyOrAppend
<1>2. text = front \o <<line>>
  BY <1>1, AppendIsConcat
<1>3. Front(text) = front /\ Last(text) = line
  BY <1>2, FrontOfConcat
<1> QED  BY <1>2, <1>3

\* Text that is written is read after what is out.
LEMMA WriteReads ==
  ASSUME NEW X, NEW h, Reader(h, X), NEW out \in MarkOuts, NEW text \in Seq(AnyLine)
  PROVE  /\ Write(out, text) \in MarkOuts
         /\ Read(Write(out, text).text, h) = Read(out.text, h) \o Read(text, h)
<1>0. \A x, y, z \in Seq(X) : (x \o y) \o z = x \o (y \o z)
  BY ConcatAssociative
<1>1. /\ out \in Outs /\ out.text \in Seq(AnyLine) /\ out.open \in BOOLEAN
      /\ (out.open => out.text # <<>> /\ AllMarks(Last(out.text).words))
  BY DEF MarkOuts, Outs
<1>2. PICK r \in Seq(X) : r = Read(out.text, h)
  BY <1>1, ReadTyped
<1>3. CASE text = <<>>
  <2>1. Write(out, text) = out
    BY <1>3 DEF Write
  <2>2. Read(text, h) = <<>> /\ r \o <<>> = r
    BY <1>3, ReadNone, ConcatEmptySeq
  <2> QED  BY <1>2, <2>1, <2>2
<1>4. CASE text # <<>> /\ ~ out.open
  <2>1. PICK all \in Seq(AnyLine) : all = out.text \o text
    BY <1>1, ConcatProperties
  <2>2. PICK new \in Outs : new = Write(out, text) /\ ~ new.open
    BY <1>1, <1>4, WriteTyped
  <2>3. new = [out EXCEPT !.text = all]
    BY <1>4, <2>1, <2>2 DEF Write
  <2>4. new.text = all
    BY <1>1, <2>3 DEF Outs
  <2>5. Read(all, h) = Read(out.text, h) \o Read(text, h)
    BY <1>1, <2>1, ReadConcat
  <2>6. new \in MarkOuts
    BY <2>2 DEF MarkOuts
  <2> QED  BY <2>2, <2>4, <2>5, <2>6
<1>5. CASE text # <<>> /\ out.open
  <2>1. PICK new \in Outs : new = Write(out, text) /\ ~ new.open
    BY <1>1, <1>5, WriteTyped
  <2>2. PICK front \in Seq(AnyLine), last \in AnyLine :
          front = Front(out.text) /\ last = Last(out.text) /\ front \o <<last>> = out.text
    BY <1>1, <1>5, OpenSplit
  <2>3. last.words \in Seq(Word) /\ AllMarks(last.words)
    BY <1>1, <1>5, <2>2, FieldsTyped
  <2>4. PICK first \in AnyLine, tail \in Seq(AnyLine) :
          first = text[1] /\ tail = Tail(text) /\ text = <<first>> \o tail
    <3>1. 1 \in 1..Len(text) /\ Len(text) \in 1..Len(text)
      <4>1. Len(text) \in Nat \ {0}
        BY <1>5, EmptySeq, SeqFacts
      <4> QED  BY <4>1
    <3>2. text[1] \in AnyLine /\ Tail(text) \in Seq(AnyLine)
      BY <1>5, <3>1, SeqFacts, HeadTailProperties
    <3>3. SubSeq(text, 1, Len(text)) = <<text[1]>> \o SubSeq(text, 1 + 1, Len(text))
      BY <3>1, SubSeqRecursiveFirst
    <3>4. Tail(text) = SubSeq(text, 2, Len(text)) /\ SubSeq(text, 1, Len(text)) = text
      BY <1>5, TailIsSubSeq, SubSeqFull
    <3>5. <<text[1]>> \o Tail(text) = text
      BY <3>3, <3>4
    <3> QED  BY <3>2, <3>5
  <2>5. first.words \in Seq(Word)
    BY FieldsTyped
  <2>6. PICK words \in Seq(Word) : words = last.words \o first.words
    BY <2>3, <2>5, ConcatProperties
  <2>7. PICK joined \in AnyLine : joined = [last EXCEPT !.words = words] /\ joined.words = words
    <3>1. [last EXCEPT !.words = words] \in AnyLine /\ [last EXCEPT !.words = words].words = words
      BY DEF AnyLine
    <3> QED  BY <3>1
  <2>8. new = [text |-> front \o <<joined>> \o tail, open |-> FALSE]
    BY <1>5, <2>1, <2>2, <2>4, <2>6, <2>7 DEF Write
  <2>9. PICK one \in Seq(AnyLine) : one = <<joined>> /\ Read(one, h) = h[Unmarked(words)]
    <3>1. <<joined>> \in Seq(AnyLine)
      BY SingleTyped
    <3>2. Read(<<joined>>, h) = h[Unmarked(joined.words)]
      BY ReadOne
    <3> QED  BY <2>7, <3>1, <3>2
  <2>10. PICK most \in Seq(AnyLine) : most = front \o one /\ Read(most, h) = Read(front, h) \o Read(one, h)
    BY ConcatProperties, ReadConcat, ZenonT(30)
  <2>11. new.text = most \o tail
    BY <2>8, <2>9, <2>10
  <2>12. Read(most \o tail, h) = Read(most, h) \o Read(tail, h)
    BY ReadConcat
  <2>13. Unmarked(words) = Unmarked(first.words)
    BY <2>3, <2>5, <2>6, UnmarkedAfter DEF AllMarks
  <2>14. PICK b \in Seq(AnyLine) : b = <<first>> /\ Read(b, h) = h[Unmarked(first.words)]
    BY SingleTyped, ReadOne
  <2>15. Read(text, h) = Read(b, h) \o Read(tail, h)
    <3>1. Read(b \o tail, h) = Read(b, h) \o Read(tail, h)
      BY ReadConcat
    <3> QED  BY <2>4, <2>14, <3>1
  <2>16. PICK l \in Seq(AnyLine) : l = <<last>> /\ Read(l, h) = <<>>
    <3>1. Unmarked(last.words) = <<>>
      BY <2>3, MarksRead
    <3>2. h[<<>>] = <<>>
      BY DEF Reader
    <3>3. <<last>> \in Seq(AnyLine)
      BY SingleTyped
    <3>4. Read(<<last>>, h) = h[Unmarked(last.words)]
      BY ReadOne
    <3> QED  BY <3>1, <3>2, <3>3, <3>4
  <2>17. Read(out.text, h) = Read(front, h)
    <3>1. Read(front \o l, h) = Read(front, h) \o Read(l, h)
      BY ReadConcat
    <3>2. Read(front, h) \in Seq(X)
      BY ReadTyped
    <3> QED  BY <2>2, <2>16, <3>1, <3>2, ConcatEmptySeq
  <2>18. PICK x \in Seq(X), y \in Seq(X), z \in Seq(X) : x = Read(front, h) /\ y = Read(one, h) /\ z = Read(tail, h)
    BY ReadTyped
  <2>19. (x \o y) \o z = x \o (y \o z)
    BY <1>0
  <2>20. Read(new.text, h) = (x \o y) \o z
    BY <2>10, <2>11, <2>12, <2>18
  <2>21. Read(text, h) = y \o z
    BY <2>9, <2>13, <2>14, <2>15, <2>18
  <2>22. Read(new.text, h) = Read(out.text, h) \o Read(text, h)
    BY <2>17, <2>18, <2>19, <2>20, <2>21
  <2>23. new \in MarkOuts
    BY <2>1 DEF MarkOuts
  <2> QED  BY <2>1, <2>22, <2>23
<1> QED  BY <1>1, <1>3, <1>4, <1>5

\* An empty line is read as nothing.
LEMMA WriteBlankReads ==
  ASSUME NEW X, NEW h, Reader(h, X), NEW out \in MarkOuts
  PROVE  /\ Write(out, <<Blank>>) \in MarkOuts
         /\ Read(Write(out, <<Blank>>).text, h) = Read(out.text, h)
<1>1. PICK b \in Seq(AnyLine) : b = <<Blank>> /\ Read(b, h) = <<>>
  <2>1. h[Unmarked(Blank.words)] = <<>>
    BY BlankTyped, UnmarkedNone DEF Reader
  <2>2. <<Blank>> \in Seq(AnyLine)
    BY BlankTyped, SingleTyped
  <2>3. Read(<<Blank>>, h) = h[Unmarked(Blank.words)]
    BY BlankTyped, ReadOne
  <2> QED  BY <2>1, <2>2, <2>3
<1>2. Write(out, b) \in MarkOuts /\ Read(Write(out, b).text, h) = Read(out.text, h) \o Read(b, h)
  BY WriteReads
<1>3. Read(out.text, h) \in Seq(X)
  BY ReadTyped DEF MarkOuts, Outs
<1> QED  BY <1>1, <1>2, <1>3, ConcatEmptySeq

\* So is the marker of an item, which leaves its line open.
LEMMA MarkedReads ==
  ASSUME NEW X, NEW h, Reader(h, X), NEW out \in MarkOuts, NEW item \in TakenItems
  PROVE  /\ Marked(out, item) \in MarkOuts
         /\ Read(Marked(out, item).text, h) = Read(out.text, h)
<1>0. \A k \in 1..1 : k = 1
  OBVIOUS
<1>1. PICK marker \in AnyLine : marker = Marker(item) /\ AllMarks(marker.words)
  <2>1. item.marker \in Word /\ "-" \in Word /\ item.marker \in Bullets \union Numbers
    BY DEF TakenItems, ItemSet, Word
  <2>2. PICK m \in Word : m = (IF item.marker \in Bullets THEN "-" ELSE item.marker) /\ m \in Marks
    BY <2>1 DEF Marks, Bullets
  <2>3. <<m>> \in Seq(Word) /\ Len(<<m>>) = 1 /\ <<m>>[1] = m
    BY SingleTyped
  <2>4. Space(1) \in Seq({" ", "\t"}) /\ Space(2) \in Seq({" ", "\t"})
    <3>1. 1 \in Nat /\ 2 \in Nat
      OBVIOUS
    <3> QED  BY <3>1, SpaceTyped
  <2>5. PICK lead \in Seq({" ", "\t"}) : lead = IF item.marker \in Bullets THEN Space(2) ELSE Space(1)
    BY <2>4
  <2>6. Marker(item) = Line(lead, <<m>>)
    BY <2>2, <2>5 DEF Marker
  <2>7. Line(lead, <<m>>) \in AnyLine /\ Line(lead, <<m>>).words = <<m>>
    BY <2>3, LineTyped
  <2>8. AllMarks(<<m>>)
    <3> QED  BY <1>0, <2>2, <2>3 DEF AllMarks
  <2> QED  BY <2>6, <2>7, <2>8
<1>2. PICK one \in Seq(AnyLine) : one = <<marker>> /\ one # <<>> /\ Read(one, h) = <<>>
  <2>1. Unmarked(marker.words) = <<>>
    BY <1>1, FieldsTyped, MarksRead
  <2>2. h[<<>>] = <<>>
    BY DEF Reader
  <2>3. <<marker>> # <<>>
    BY SingleTyped, EmptySeq
  <2>4. <<marker>> \in Seq(AnyLine)
    BY SingleTyped
  <2>5. Read(<<marker>>, h) = h[Unmarked(marker.words)]
    BY ReadOne
  <2> QED  BY <2>1, <2>2, <2>3, <2>4, <2>5
<1>3. PICK new \in MarkOuts : new = Write(out, one) /\ Read(new.text, h) = Read(out.text, h) \o Read(one, h)
  BY WriteReads
<1>4. Read(new.text, h) = Read(out.text, h)
  <2>1. Read(out.text, h) \in Seq(X)
    BY ReadTyped DEF MarkOuts, Outs
  <2> QED  BY <1>2, <1>3, <2>1, ConcatEmptySeq
<1>5. new.text # <<>> /\ new.text \in Seq(AnyLine)
  <2>1. out \in Outs
    BY DEF MarkOuts
  <2> QED  BY <1>2, <1>3, <2>1, WriteTyped DEF MarkOuts, Outs
<1>6. AllMarks(Last(new.text).words)
  <2>0. /\ out.text \in Seq(AnyLine) /\ out.open \in BOOLEAN
        /\ out.open => out.text # <<>> /\ AllMarks(Last(out.text).words)
    BY DEF MarkOuts, Outs
  <2>1. CASE ~ out.open
    <3>1. new.text = out.text \o one
      <4>1. new = [out EXCEPT !.text = @ \o one]
        BY <1>2, <1>3, <2>1 DEF Write
      <4> QED  BY <4>1 DEF MarkOuts, Outs
    <3>2. Last(out.text \o <<marker>>) = marker
      BY <2>0, FrontOfConcat
    <3> QED  BY <1>1, <1>2, <3>1, <3>2
  <2>2. CASE out.open
    <3>1. PICK front \in Seq(AnyLine), last \in AnyLine :
            front = Front(out.text) /\ last = Last(out.text)
      BY <2>0, <2>2, OpenSplit
    <3>2. last.words \in Seq(Word) /\ AllMarks(last.words) /\ marker.words \in Seq(Word)
      BY <2>0, <2>2, <3>1, FieldsTyped
    <3>3. PICK words \in Seq(Word) : words = last.words \o marker.words
      BY <3>2, ConcatProperties
    <3>4. AllMarks(words)
      <4>1. PICK m \in Nat, n \in Nat : m = Len(last.words) /\ n = Len(marker.words)
        BY <3>2, SeqFacts
      <4>2. /\ Len(words) = m + n
            /\ \A k \in 1..(m + n) : words[k] = IF k <= m THEN last.words[k] ELSE marker.words[k - m]
        BY <3>2, <3>3, <4>1, ConcatProperties, ZenonT(30)
      <4>3. (\A k \in 1..m : last.words[k] \in Marks) /\ \A k \in 1..n : marker.words[k] \in Marks
        BY <1>1, <3>2, <4>1 DEF AllMarks
      <4>4. \A k \in 1..(m + n) : IF k <= m THEN k \in 1..m ELSE k - m \in 1..n
        OBVIOUS
      <4>5. \A k \in 1..(m + n) : words[k] \in Marks
        BY <4>2, <4>3, <4>4
      <4> QED  BY <4>2, <4>5 DEF AllMarks
    <3>5. PICK joined \in AnyLine : joined = [last EXCEPT !.words = words] /\ joined.words = words
      <4>1. [last EXCEPT !.words = words] \in AnyLine /\ [last EXCEPT !.words = words].words = words
        BY DEF AnyLine
      <4> QED  BY <4>1
    <3>6. one[1] = marker /\ Tail(one) = <<>>
      <4>1. one[1] = marker
        BY <1>2
      <4>2. Tail(<<marker>>) = <<>>
        OBVIOUS
      <4> QED  BY <1>2, <4>1, <4>2
    <3>7. new = [text |-> front \o <<joined>> \o <<>>, open |-> FALSE]
      BY <1>2, <1>3, <2>2, <3>1, <3>3, <3>5, <3>6 DEF Write
    <3>8. front \o <<joined>> \in Seq(AnyLine) /\ Last(front \o <<joined>>) = joined
      BY FrontOfConcat
    <3>9. new.text = front \o <<joined>>
      BY <3>7, <3>8, ConcatEmptySeq
    <3> QED  BY <3>4, <3>5, <3>8, <3>9
  <2> QED  BY <2>0, <2>1, <2>2
<1>7. Marked(out, item) = [new EXCEPT !.open = TRUE]
  BY <1>1, <1>2, <1>3 DEF Marked
<1>8. /\ [new EXCEPT !.open = TRUE].text = new.text /\ [new EXCEPT !.open = TRUE].open = TRUE
      /\ [new EXCEPT !.open = TRUE] \in Outs
  BY <1>5 DEF MarkOuts, Outs
<1> QED  BY <1>4, <1>6, <1>7, <1>8 DEF MarkOuts



\* A paragraph of an item, after an empty line or not.
LEMMA ParaReads ==
  ASSUME NEW X, NEW h, Reader(h, X), NEW out \in MarkOuts,
         NEW paras \in Seq(Seq(AnyLine)), NEW k \in 1..Len(paras)
  PROVE  /\ Para(out, paras, k) \in MarkOuts
         /\ Read(Para(out, paras, k).text, h) = Read(out.text, h) \o Read(paras[k], h)
<1>1. PICK text \in Seq(AnyLine) : text = paras[k]
  BY SeqFacts
<1>2. PICK hung \in Seq(AnyLine) : hung = Hang(text) /\ Read(hung, h) = Read(text, h)
  <2>1. /\ Hang(text) \in Seq(AnyLine) /\ Len(Hang(text)) = Len(text)
        /\ \A m \in 1..Len(text) : Hang(text)[m].words = text[m].words
    BY HangQuiet
  <2>2. \A m \in 1..Len(text) : Unmarked(text[m].words) = Unmarked(Hang(text)[m].words)
    BY <2>1
  <2>3. Read(text, h) = Read(Hang(text), h)
    BY <2>1, <2>2, ReadSame
  <2> QED  BY <2>1, <2>3
<1>3. PICK o \in MarkOuts : /\ o = IF k = 1 THEN out ELSE Write(out, <<Blank>>)
                            /\ Read(o.text, h) = Read(out.text, h)
  BY WriteBlankReads
<1>4. Write(o, hung) \in MarkOuts /\ Read(Write(o, hung).text, h) = Read(o.text, h) \o Read(hung, h)
  BY WriteReads
<1>5. Para(out, paras, k) = Write(o, hung)
  BY <1>1, <1>2, <1>3 DEF Para
<1> QED  BY <1>1, <1>2, <1>3, <1>4, <1>5

LEMMA OutRead ==
  ASSUME NEW X, NEW h, Reader(h, X), NEW out \in MarkOuts
  PROVE  Read(out.text, h) \in Seq(X)
  BY ReadTyped DEF MarkOuts, Outs

\* An item is read as its paragraphs.
LEMMA ItemReads ==
  ASSUME NEW X, NEW h, Reader(h, X), NEW out \in MarkOuts, NEW item \in TakenItems
  PROVE  /\ ItemLines(out, item) \in MarkOuts
         /\ Read(ItemLines(out, item).text, h) = Read(out.text, h) \o ParasRead(item.paras, h)
<1>1. out \in Outs /\ item \in ItemSet
  BY DEF MarkOuts, TakenItems
<1>2. PICK paras \in Seq(Seq(AnyLine)) : paras = item.paras
  BY <1>1 DEF ItemSet
<1>3. PICK n \in Nat : n = Len(paras) /\ DOMAIN paras = 1..n
  BY SeqFacts
<1>4. PICK w \in [0..n -> Outs] :
        /\ w[0] = Marked(out, item) /\ w[n] = ItemLines(out, item)
        /\ \A m \in 1..n : w[m] = Para(w[m - 1], paras, m)
  BY <1>1, <1>2, <1>3, ItemLinesFolds
<1>5. w[0] \in MarkOuts /\ Read(w[0].text, h) = Read(out.text, h)
  BY <1>4, MarkedReads
<1>6. ASSUME NEW m \in 1..n, w[m - 1] \in MarkOuts
      PROVE  w[m] \in MarkOuts /\ Read(w[m].text, h) = Read(w[m - 1].text, h) \o Read(paras[m], h)
  <2>1. PICK o \in MarkOuts : o = w[m - 1]
    BY <1>6
  <2>2. m \in 1..Len(paras)
    BY <1>3
  <2>3. Para(o, paras, m) \in MarkOuts
        /\ Read(Para(o, paras, m).text, h) = Read(o.text, h) \o Read(paras[m], h)
    BY <2>2, ParaReads
  <2>4. w[m] = Para(o, paras, m)
    BY <1>4, <2>1
  <2> QED  BY <2>1, <2>3, <2>4
<1>7. ASSUME NEW x \in 0..n  PROVE w[x] \in MarkOuts
  <2>1. ASSUME NEW m \in (0 + 1)..x, w[m - 1] \in MarkOuts  PROVE w[m] \in MarkOuts
    <3>1. m \in 1..n
      OBVIOUS
    <3> QED  BY <1>6, <2>1, <3>1
  <2>2. 0 \in Nat /\ x \in Nat /\ 0 <= x
    OBVIOUS
  <2> QED  BY <1>5, <2>1, <2>2, Climbs
<1> DEFINE v == [m \in 0..n |-> Read(w[m].text, h)]
           seqs == [k \in DOMAIN paras |-> Read(paras[k], h)]
<1>8. seqs \in Seq(Seq(X)) /\ ParasRead(paras, h) = FlattenSeq(seqs) /\ ParasRead(paras, h) \in Seq(X)
  BY ParasTyped DEF ParasRead
<1>9. Len(seqs) = n
  <2>1. DOMAIN seqs = 1..n
    BY <1>3
  <2> HIDE DEF seqs
  <2> QED  BY <1>8, <2>1, LenProperties
<1>10. \A m \in 0..n : v[m] \in Seq(X)
  BY <1>7, OutRead
<1>11. \A m \in 1..n : v[m] = v[m - 1] \o seqs[m]
  <2> SUFFICES ASSUME NEW m \in 1..n  PROVE v[m] = v[m - 1] \o seqs[m]
    OBVIOUS
  <2>1. m - 1 \in 0..n /\ m \in 0..n
    OBVIOUS
  <2>2. Read(w[m].text, h) = Read(w[m - 1].text, h) \o Read(paras[m], h)
    BY <1>6, <1>7, <2>1
  <2>3. seqs[m] = Read(paras[m], h) /\ v[m] = Read(w[m].text, h) /\ v[m - 1] = Read(w[m - 1].text, h)
    BY <1>3, <2>1
  <2> HIDE DEF seqs, v
  <2> QED  BY <2>2, <2>3
<1>12. v[0] = Read(out.text, h) /\ v[n] = Read(ItemLines(out, item).text, h)
  <2>1. 0 \in 0..n /\ n \in 0..n
    OBVIOUS
  <2> QED  BY <1>4, <1>5, <2>1
<1> HIDE DEF seqs, v
<1>13. Adds(v, 0, n, FlattenSeq(seqs))
  BY <1>8, <1>9, <1>10, <1>11, Accumulates
<1>14. v[n] = v[0] \o FlattenSeq(seqs)
  <2>1. 0 + n = n
    OBVIOUS
  <2> QED  BY <1>13, <2>1 DEF Adds
<1>15. w[n] \in MarkOuts
  BY <1>7
<1> QED  BY <1>2, <1>4, <1>8, <1>12, <1>14, <1>15

\* A list is read as its items.
LEMMA ListPrinted ==
  ASSUME NEW X, NEW h, Reader(h, X), NEW out \in MarkOuts, NEW b \in Lists,
         \A k \in 1..Len(b.items) : b.items[k] \in TakenItems
  PROVE  /\ BlockLines(out, b) \in MarkOuts
         /\ Read(BlockLines(out, b).text, h) = Read(out.text, h) \o ItemsRead(b.items, h)
<1>1. out \in Outs
  BY DEF MarkOuts
<1>2. PICK items \in Seq(ItemSet) : items = b.items
  BY DEF Lists
<1>3. PICK n \in Nat : n = Len(items) /\ DOMAIN items = 1..n
  BY SeqFacts
<1>4. PICK w \in [0..n -> Outs] :
        /\ w[0] = out /\ w[n] = BlockLines(out, b)
        /\ \A m \in 1..n : w[m] = Item(w[m - 1], b, m)
  BY <1>1, <1>2, <1>3, ListLinesFolds
<1>5. w[0] \in MarkOuts /\ Read(w[0].text, h) = Read(out.text, h)
  BY <1>4
<1>6. ASSUME NEW m \in 1..n, w[m - 1] \in MarkOuts
      PROVE  w[m] \in MarkOuts /\ Read(w[m].text, h) = Read(w[m - 1].text, h) \o ParasRead(items[m].paras, h)
  <2>1. PICK item \in TakenItems : item = items[m]
    BY <1>2, <1>3
  <2>2. PICK o \in MarkOuts : /\ o = IF m > 1 /\ b.loose THEN Write(w[m - 1], <<Blank>>) ELSE w[m - 1]
                              /\ Read(o.text, h) = Read(w[m - 1].text, h)
    BY <1>6, WriteBlankReads
  <2>3. w[m] = ItemLines(o, item)
    BY <1>2, <1>4, <2>1, <2>2 DEF Item
  <2>4. ItemLines(o, item) \in MarkOuts
        /\ Read(ItemLines(o, item).text, h) = Read(o.text, h) \o ParasRead(item.paras, h)
    BY ItemReads
  <2> QED  BY <2>1, <2>2, <2>3, <2>4
<1>7. ASSUME NEW x \in 0..n  PROVE w[x] \in MarkOuts
  <2>1. ASSUME NEW m \in (0 + 1)..x, w[m - 1] \in MarkOuts  PROVE w[m] \in MarkOuts
    <3>1. m \in 1..n
      OBVIOUS
    <3> QED  BY <1>6, <2>1, <3>1
  <2>2. 0 \in Nat /\ x \in Nat /\ 0 <= x
    OBVIOUS
  <2> QED  BY <1>5, <2>1, <2>2, Climbs
<1> DEFINE v == [m \in 0..n |-> Read(w[m].text, h)]
           seqs == [k \in DOMAIN items |-> ParasRead(items[k].paras, h)]
<1>8. seqs \in Seq(Seq(X)) /\ ItemsRead(items, h) = FlattenSeq(seqs)
  BY ItemsTyped DEF ItemsRead
<1>9. Len(seqs) = n
  <2>1. DOMAIN seqs = 1..n
    BY <1>3
  <2> HIDE DEF seqs
  <2> QED  BY <1>8, <2>1, LenProperties
<1>10. \A m \in 0..n : v[m] \in Seq(X)
  BY <1>7, OutRead
<1>11. \A m \in 1..n : v[m] = v[m - 1] \o seqs[m]
  <2> SUFFICES ASSUME NEW m \in 1..n  PROVE v[m] = v[m - 1] \o seqs[m]
    OBVIOUS
  <2>1. m - 1 \in 0..n /\ m \in 0..n
    OBVIOUS
  <2>2. Read(w[m].text, h) = Read(w[m - 1].text, h) \o ParasRead(items[m].paras, h)
    BY <1>6, <1>7, <2>1
  <2>3. seqs[m] = ParasRead(items[m].paras, h) /\ v[m] = Read(w[m].text, h) /\ v[m - 1] = Read(w[m - 1].text, h)
    BY <1>3, <2>1
  <2> HIDE DEF seqs, v
  <2> QED  BY <2>2, <2>3
<1>12. v[0] = Read(out.text, h) /\ v[n] = Read(BlockLines(out, b).text, h)
  <2>1. 0 \in 0..n /\ n \in 0..n
    OBVIOUS
  <2> QED  BY <1>4, <2>1
<1> HIDE DEF seqs, v
<1>13. Adds(v, 0, n, FlattenSeq(seqs))
  BY <1>8, <1>9, <1>10, <1>11, Accumulates
<1>14. v[n] = v[0] \o FlattenSeq(seqs)
  <2>1. 0 + n = n
    OBVIOUS
  <2> QED  BY <1>13, <2>1 DEF Adds
<1>15. w[n] \in MarkOuts
  BY <1>7
<1> QED  BY <1>2, <1>4, <1>8, <1>12, <1>14, <1>15


\* Blocks as they are made of spans.
ToldBlocks == {b \in BlockSet :
  /\ LinksOf(b) \in Seq(AnyLine) /\ AllLinks(LinksOf(b))
  /\ b.kind = "list" => \A k \in 1..Len(b.items) : b.items[k] \in TakenItems
  /\ b.kind = "heading" => Len(b.text) = 1}

\* What is read of a block, and of its links, are sequences.
LEMMA ToldRead ==
  ASSUME NEW X, NEW h, Reader(h, X), NEW b \in ToldBlocks
  PROVE  BlockRead(b, h) \in Seq(X) /\ Read(LinksOf(b), h) \in Seq(X)
<1>1. b \in BlockSet /\ LinksOf(b) \in Seq(AnyLine)
  BY DEF ToldBlocks
<1>2. <<>> \in Seq(X)
  BY EmptySeq
<1>3. CASE b \in Lists
  <2>1. b.kind = "list" /\ b.items \in Seq(ItemSet)
    BY <1>3 DEF Lists
  <2>2. ItemsRead(b.items, h) \in Seq(X)
    BY <2>1, ItemsTyped
  <2> QED  BY <1>1, <2>1, <2>2, ReadTyped DEF BlockRead
<1>4. CASE b \in Titles \union Texts
  <2>1. b.kind # "list" /\ b.text \in Seq(AnyLine)
    BY <1>4 DEF Titles, Texts
  <2>2. Read(b.text, h) \in Seq(X)
    BY <2>1, ReadTyped
  <2>3. BlockRead(b, h) \in Seq(X)
    BY <1>2, <2>1, <2>2 DEF BlockRead
  <2> QED  BY <1>1, <2>3, ReadTyped
<1> QED  BY <1>1, <1>3, <1>4 DEF BlockSet

\* A block of any kind but links is printed as what it is read as.
LEMMA BlockPrinted ==
  ASSUME NEW X, NEW h, Reader(h, X), NEW out \in MarkOuts, NEW b \in ToldBlocks, b.kind # "links"
  PROVE  /\ BlockLines(out, b) \in MarkOuts
         /\ Read(BlockLines(out, b).text, h) = Read(out.text, h) \o BlockRead(b, h)
<1>1. /\ b \in BlockSet
      /\ b.kind = "list" => \A k \in 1..Len(b.items) : b.items[k] \in TakenItems
      /\ b.kind = "heading" => Len(b.text) = 1
  BY DEF ToldBlocks
<1>2. CASE b \in Lists
  <2>1. b.kind = "list"
    BY <1>2 DEF Lists
  <2>2. BlockRead(b, h) = ItemsRead(b.items, h)
    BY <2>1 DEF BlockRead
  <2> QED  BY <1>1, <1>2, <2>1, <2>2, ListPrinted
<1>3. CASE b \in Titles
  <2>1. b.kind = "heading" /\ b.text \in Seq(AnyLine) /\ Len(b.text) = 1
    BY <1>1, <1>3 DEF Titles
  <2>2. PICK line \in AnyLine : line = b.text[1]
    BY <2>1, SeqFacts
  <2>3. line.words \in Seq(Word) /\ "#" \in Word /\ "#" \in Marks
    BY FieldsTyped DEF Word, Marks
  <2>4. PICK words \in Seq(Word) : words = <<"#">> \o line.words /\ Unmarked(words) = Unmarked(line.words)
    BY <2>3, ConsTyped, UnmarkedOne
  <2>5. PICK new \in AnyLine : new = Line(<<>>, words) /\ new.words = words
    <3>1. <<>> \in Seq({" ", "\t"})
      BY EmptySeq
    <3> QED  BY <3>1, LineTyped
  <2>6. PICK one \in Seq(AnyLine) : one = <<new>> /\ Len(one) = 1 /\ one[1] = new
    BY SingleTyped
  <2>7. Read(one, h) = Read(b.text, h)
    <3>1. Len(one) = Len(b.text) /\ \A k \in 1..Len(one) : Unmarked(one[k].words) = Unmarked(b.text[k].words)
      <4>1. Len(one) = Len(b.text) /\ \A k \in 1..Len(one) : k = 1
        BY <2>1, <2>6
      <4>2. Unmarked(one[1].words) = Unmarked(b.text[1].words)
        BY <2>2, <2>4, <2>5, <2>6
      <4> QED  BY <4>1, <4>2
    <3> QED  BY <2>1, <3>1, ReadSame
  <2>8. BlockLines(out, b) = Write(out, one)
    BY <2>1, <2>2, <2>4, <2>5, <2>6 DEF BlockLines
  <2>9. BlockRead(b, h) = Read(b.text, h)
    BY <2>1 DEF BlockRead
  <2>10. Write(out, one) \in MarkOuts /\ Read(Write(out, one).text, h) = Read(out.text, h) \o Read(one, h)
    BY WriteReads
  <2> QED  BY <2>7, <2>8, <2>9, <2>10
<1>4. CASE b \in Texts
  <2>1. b.kind \in {"para", "code"} /\ b.text \in Seq(AnyLine)
    BY <1>4 DEF Texts
  <2>2. BlockRead(b, h) = Read(b.text, h)
    BY <2>1 DEF BlockRead
  <2>3. CASE b.kind = "para"
    <3>1. BlockLines(out, b) = Write(out, b.text)
      BY <2>3 DEF BlockLines
    <3>2. PICK text \in Seq(AnyLine) : text = b.text
      BY <2>1
    <3>3. Write(out, text) \in MarkOuts /\ Read(Write(out, text).text, h) = Read(out.text, h) \o Read(text, h)
      BY WriteReads
    <3> QED  BY <2>2, <3>1, <3>2, <3>3
  <2>4. CASE b.kind = "code"
    <3>1. PICK n \in Nat : n = Len(b.text)
      BY <2>1, SeqFacts
    <3>2. DOMAIN b.text = 1..n /\ \A k \in 1..n : b.text[k] \in AnyLine
      BY <2>1, <3>1, SeqFacts
    <3> DEFINE Tabbed(line) == IF line = Blank THEN Blank ELSE [line EXCEPT !.lead = <<"\t">> \o @]
               all == [k \in DOMAIN b.text |-> Tabbed(b.text[k])]
    <3>3. ASSUME NEW line \in AnyLine  PROVE Tabbed(line) \in AnyLine /\ Tabbed(line).words = line.words
      <4>1. PICK lead \in Seq({" ", "\t"}) : lead = <<"\t">> \o line.lead
        <5>1. "\t" \in {" ", "\t"} /\ line.lead \in Seq({" ", "\t"})
          BY FieldsTyped
        <5> QED  BY <5>1, ConsTyped
      <4>2. [line EXCEPT !.lead = lead] \in AnyLine /\ [line EXCEPT !.lead = lead].words = line.words
        BY <4>1 DEF AnyLine
      <4> QED  BY <4>1, <4>2, BlankTyped
    <3>4. BlockLines(out, b) = Write(out, all)
      BY <2>4 DEF BlockLines
    <3> HIDE DEF Tabbed
    <3>5. all \in [1..n -> AnyLine] /\ \A k \in 1..n : all[k].words = b.text[k].words
      BY <3>2, <3>3
    <3> HIDE DEF all
    <3>6. all \in Seq(AnyLine) /\ Len(all) = n
      BY <3>1, <3>5, FunctionIsSeq
    <3>7. Read(all, h) = Read(b.text, h)
      <4>1. Len(all) = Len(b.text) /\ \A k \in 1..Len(all) : Unmarked(all[k].words) = Unmarked(b.text[k].words)
        BY <3>1, <3>5, <3>6
      <4> QED  BY <2>1, <3>6, <4>1, ReadSame
    <3>8. Write(out, all) \in MarkOuts /\ Read(Write(out, all).text, h) = Read(out.text, h) \o Read(all, h)
      BY <3>6, WriteReads
    <3> QED  BY <2>2, <3>4, <3>7, <3>8
  <2> QED  BY <2>1, <2>3, <2>4
<1> QED  BY <1>1, <1>2, <1>3, <1>4 DEF BlockSet

\* The blocks of a comment but those of links, one after the other.
LEMMA BodyPrinted ==
  ASSUME NEW X, NEW h, Reader(h, X), NEW content \in Seq(ToldBlocks),
         \A k \in 1..Len(content) : content[k].kind # "links"
  PROVE  LET body == FoldLeftDomain(LAMBDA o, k : Add(o, content, k), [text |-> <<>>, open |-> FALSE], content)
         IN /\ body \in MarkOuts
            /\ Read(body.text, h) = FlattenSeq([k \in DOMAIN content |-> BlockRead(content[k], h)])
<1>1. PICK n \in Nat : n = Len(content) /\ DOMAIN content = 1..n
  BY SeqFacts
<1>2. \A k \in 1..n : content[k] \in ToldBlocks /\ content[k] \in BlockSet
  BY <1>1, SeqFacts DEF ToldBlocks
<1>3. content \in Seq(BlockSet)
  <2>1. content \in [1..n -> BlockSet]
    <3>1. content = [k \in 1..n |-> content[k]]
      BY <1>1, SeqDef
    <3> QED  BY <1>2, <3>1
  <2> QED  BY <2>1, FunctionIsSeq
<1> DEFINE body == FoldLeftDomain(LAMBDA o, k : Add(o, content, k), [text |-> <<>>, open |-> FALSE], content)
<1>4. PICK w \in [0..n -> Outs] :
        /\ w[0] = [text |-> <<>>, open |-> FALSE] /\ w[n] = body
        /\ \A m \in 1..n : w[m] = Add(w[m - 1], content, m)
  BY <1>1, <1>3, BodyFolds
<1> HIDE DEF body
<1>5. w[0] \in MarkOuts /\ Read(w[0].text, h) = <<>>
  BY <1>4, NothingTyped, ReadNone DEF MarkOuts
<1>6. ASSUME NEW m \in 1..n, w[m - 1] \in MarkOuts
      PROVE  w[m] \in MarkOuts /\ Read(w[m].text, h) = Read(w[m - 1].text, h) \o BlockRead(content[m], h)
  <2>1. PICK b \in ToldBlocks : b = content[m] /\ b.kind # "links"
    BY <1>1, <1>2
  <2>2. PICK o \in MarkOuts : /\ o = IF m > 1 /\ blankBefore(content[m]) THEN Write(w[m - 1], <<Blank>>) ELSE w[m - 1]
                              /\ Read(o.text, h) = Read(w[m - 1].text, h)
    BY <1>6, WriteBlankReads
  <2>3. w[m] = BlockLines(o, b)
    BY <1>4, <2>1, <2>2 DEF Add
  <2>4. BlockLines(o, b) \in MarkOuts
        /\ Read(BlockLines(o, b).text, h) = Read(o.text, h) \o BlockRead(b, h)
    BY <2>1, BlockPrinted
  <2> QED  BY <2>1, <2>2, <2>3, <2>4
<1>7. ASSUME NEW x \in 0..n  PROVE w[x] \in MarkOuts
  <2>1. ASSUME NEW m \in (0 + 1)..x, w[m - 1] \in MarkOuts  PROVE w[m] \in MarkOuts
    <3>1. m \in 1..n
      OBVIOUS
    <3> QED  BY <1>6, <2>1, <3>1
  <2>2. 0 \in Nat /\ x \in Nat /\ 0 <= x
    OBVIOUS
  <2> QED  BY <1>5, <2>1, <2>2, Climbs
<1> DEFINE v == [m \in 0..n |-> Read(w[m].text, h)]
           seqs == [k \in DOMAIN content |-> BlockRead(content[k], h)]
<1>8. seqs \in Seq(Seq(X)) /\ Len(seqs) = n
  <2>1. seqs \in [1..n -> Seq(X)]
    BY <1>1, <1>2, ToldRead
  <2> HIDE DEF seqs
  <2> QED  BY <2>1, FunctionIsSeq
<1>10. \A m \in 0..n : v[m] \in Seq(X)
  BY <1>7, OutRead
<1>11. \A m \in 1..n : v[m] = v[m - 1] \o seqs[m]
  <2> SUFFICES ASSUME NEW m \in 1..n  PROVE v[m] = v[m - 1] \o seqs[m]
    OBVIOUS
  <2>1. m - 1 \in 0..n /\ m \in 0..n
    OBVIOUS
  <2>2. Read(w[m].text, h) = Read(w[m - 1].text, h) \o BlockRead(content[m], h)
    BY <1>6, <1>7, <2>1
  <2>3. seqs[m] = BlockRead(content[m], h) /\ v[m] = Read(w[m].text, h) /\ v[m - 1] = Read(w[m - 1].text, h)
    BY <1>1, <2>1
  <2> HIDE DEF seqs, v
  <2> QED  BY <2>2, <2>3
<1>12. v[0] = <<>> /\ v[n] = Read(body.text, h)
  <2>1. 0 \in 0..n /\ n \in 0..n
    OBVIOUS
  <2> QED  BY <1>4, <1>5, <2>1
<1> HIDE DEF v
<1>13. FlattenSeq(seqs) \in Seq(X)
  BY <1>8, FlattenTyped
<1>14. v[n] = FlattenSeq(seqs)
  <2> HIDE DEF seqs
  <2>1. Adds(v, 0, n, FlattenSeq(seqs))
    BY <1>8, <1>10, <1>11, Accumulates
  <2>2. 0 + n = n
    OBVIOUS
  <2>3. v[n] = <<>> \o FlattenSeq(seqs)
    BY <1>12, <2>1, <2>2 DEF Adds
  <2> QED  BY <1>13, <2>3, ConcatEmptySeq
<1>15. w[n] \in MarkOuts
  BY <1>7
<1>16. body \in MarkOuts /\ Read(body.text, h) = FlattenSeq([k \in DOMAIN content |-> BlockRead(content[k], h)])
  BY <1>4, <1>12, <1>14, <1>15
<1> QED  BY <1>16 DEF body


\* Texts one after another are read one after another.
LEMMA FlattenReads ==
  ASSUME NEW X, NEW h, Reader(h, X), NEW texts \in Seq(Seq(AnyLine))
  PROVE  ParasRead(texts, h) = Read(FlattenSeq(texts), h)
<1>1. PICK n \in Nat : n = Len(texts) /\ DOMAIN texts = 1..n
  BY SeqFacts
<1>2. PICK w : Joined(w, texts, n, AnyLine) /\ w[0] = <<>> /\ w[n] = FlattenSeq(texts)
  BY <1>1, FlattenJoins
<1>3. \A m \in 0..n : w[m] \in Seq(AnyLine)
  BY <1>2 DEF Joined
<1> DEFINE v == [m \in 0..n |-> Read(w[m], h)]
           seqs == [k \in DOMAIN texts |-> Read(texts[k], h)]
<1>4. seqs \in Seq(Seq(X)) /\ ParasRead(texts, h) = FlattenSeq(seqs) /\ ParasRead(texts, h) \in Seq(X)
  BY ParasTyped DEF ParasRead
<1>5. Len(seqs) = n
  <2>1. DOMAIN seqs = 1..n
    BY <1>1
  <2> HIDE DEF seqs
  <2> QED  BY <1>4, <2>1, LenProperties
<1>6. \A m \in 0..n : v[m] \in Seq(X)
  BY <1>3, ReadTyped
<1>7. \A m \in 1..n : v[m] = v[m - 1] \o seqs[m]
  <2> SUFFICES ASSUME NEW m \in 1..n  PROVE v[m] = v[m - 1] \o seqs[m]
    OBVIOUS
  <2>1. m - 1 \in 0..n /\ m \in 0..n
    OBVIOUS
  <2>2. PICK a \in Seq(AnyLine), b \in Seq(AnyLine) : a = w[m - 1] /\ b = texts[m]
    BY <1>1, <1>3, <2>1, SeqFacts
  <2>3. w[m] = a \o b
    BY <1>2, <2>2 DEF Joined
  <2>4. Read(a \o b, h) = Read(a, h) \o Read(b, h)
    BY ReadConcat
  <2>5. seqs[m] = Read(texts[m], h) /\ v[m] = Read(w[m], h) /\ v[m - 1] = Read(w[m - 1], h)
    BY <1>1, <2>1
  <2> HIDE DEF seqs, v
  <2> QED  BY <2>2, <2>3, <2>4, <2>5
<1>8. v[0] = <<>> /\ v[n] = Read(FlattenSeq(texts), h)
  <2>1. 0 \in 0..n /\ n \in 0..n
    OBVIOUS
  <2> QED  BY <1>2, <2>1, ReadNone
<1> HIDE DEF v, seqs
<1>9. Adds(v, 0, n, FlattenSeq(seqs))
  BY <1>4, <1>5, <1>6, <1>7, Accumulates
<1>10. v[n] = <<>> \o FlattenSeq(seqs)
  <2>1. 0 + n = n
    OBVIOUS
  <2> QED  BY <1>8, <1>9, <2>1 DEF Adds
<1> QED  BY <1>4, <1>8, <1>10, ConcatEmptySeq

\* Three sequences one after another.
Regroups(x, y, z) == (x \o y) \o z = x \o (y \o z)

\* Brackets do not matter.
LEMMA Regrouped ==
  ASSUME NEW X, NEW x \in Seq(X), NEW y \in Seq(X), NEW z \in Seq(X)
  PROVE  Regroups(x, y, z)
  BY ConcatAssociative DEF Regroups

\* What may stand anywhere may stand after the next.
Swaps(a, b, c, d) == (a \o b) \o (c \o d) = (a \o c) \o (b \o d)

LEMMA MovesSwap ==
  ASSUME NEW X, NEW a \in Seq(X), NEW b \in Seq(X), NEW c \in Seq(X), NEW d \in Seq(X), Moves(b, X)
  PROVE  Swaps(a, b, c, d)
<1>1. PICK cd \in Seq(X), bc \in Seq(X), bd \in Seq(X) : cd = c \o d /\ bc = b \o c /\ bd = b \o d
  BY ConcatProperties
<1>2. bc = c \o b
  BY <1>1 DEF Moves
<1>3. Regroups(a, b, cd) /\ Regroups(b, c, d) /\ Regroups(c, b, d) /\ Regroups(a, c, bd)
  BY Regrouped
<1>4. (a \o b) \o cd = a \o (b \o cd)
  BY <1>3 DEF Regroups
<1>5. (b \o c) \o d = b \o (c \o d) /\ (c \o b) \o d = c \o (b \o d)
  BY <1>3 DEF Regroups
<1>6. (a \o c) \o bd = a \o (c \o bd)
  BY <1>3 DEF Regroups
<1> QED  BY <1>1, <1>2, <1>4, <1>5, <1>6 DEF Swaps

\* Sequences each of which is two, the second of which may stand anywhere: all the
\* first ones, then all the second ones.
LEMMA FlattenParts ==
  ASSUME NEW X, NEW n \in Nat, NEW both \in Seq(Seq(X)), NEW front \in Seq(Seq(X)), NEW back \in Seq(Seq(X)),
         Len(both) = n, Len(front) = n, Len(back) = n,
         \A k \in 1..n : both[k] = front[k] \o back[k] /\ Moves(back[k], X)
  PROVE  FlattenSeq(both) = FlattenSeq(front) \o FlattenSeq(back)
<1>1. PICK w : Joined(w, both, n, X) /\ w[0] = <<>> /\ w[n] = FlattenSeq(both)
  BY FlattenJoins
<1>2. PICK u : Joined(u, front, n, X) /\ u[0] = <<>> /\ u[n] = FlattenSeq(front)
  BY FlattenJoins
<1>3. PICK v : Joined(v, back, n, X) /\ v[0] = <<>> /\ v[n] = FlattenSeq(back)
  BY FlattenJoins
<1>4. <<>> \in Seq(X) /\ Moves(<<>>, X) /\ <<>> \o <<>> = <<>>
  BY EmptySeq, ConcatEmptySeq DEF Moves
<1> DEFINE good == [m \in 0..n |-> Moves(v[m], X) /\ w[m] = u[m] \o v[m]]
           D == {TRUE}
<1>5. good[0] \in D
  <2>1. 0 \in 0..n
    OBVIOUS
  <2> QED  BY <1>1, <1>2, <1>3, <1>4, <2>1
<1>6. ASSUME NEW m \in (0 + 1)..n, good[m - 1] \in D  PROVE good[m] \in D
  <2>1. m \in 1..n /\ m - 1 \in 0..n /\ m \in 0..n
    OBVIOUS
  <2>2. Moves(v[m - 1], X) /\ w[m - 1] = u[m - 1] \o v[m - 1]
    BY <1>6, <2>1
  <2> HIDE DEF good
  <2>3. PICK a \in Seq(X), b \in Seq(X), c \in Seq(X), d \in Seq(X) :
          a = u[m - 1] /\ b = v[m - 1] /\ c = front[m] /\ d = back[m]
    BY <1>2, <1>3, <2>1, SeqFacts DEF Joined
  <2>4. w[m] = (a \o b) \o (c \o d) /\ u[m] = a \o c /\ v[m] = b \o d
    BY <1>1, <1>2, <1>3, <2>1, <2>2, <2>3 DEF Joined
  <2>5. Moves(b, X) /\ Moves(d, X)
    BY <2>1, <2>2, <2>3
  <2>6. Swaps(a, b, c, d)
    BY <2>5, MovesSwap
  <2>12. w[m] = u[m] \o v[m]
    BY <2>4, <2>6 DEF Swaps
  <2>13. Moves(v[m], X)
    BY <2>4, <2>5, MovesConcat
  <2> QED  BY <2>1, <2>12, <2>13 DEF good
<1>7. good[n] \in D
  <2> HIDE DEF good, D
  <2>1. 0 \in Nat /\ 0 <= n
    OBVIOUS
  <2> QED  BY <1>5, <1>6, <2>1, Climbs
<1>8. n \in 0..n
  OBVIOUS
<1> QED  BY <1>1, <1>2, <1>3, <1>7, <1>8

\* Text that gets an empty line before it, if there is any.
LEMMA SectionReads ==
  ASSUME NEW X, NEW h, Reader(h, X), NEW out \in MarkOuts, NEW text \in Seq(AnyLine)
  PROVE  LET new == IF text = <<>> THEN out ELSE Write(Write(out, <<Blank>>), text)
         IN new \in MarkOuts /\ Read(new.text, h) = Read(out.text, h) \o Read(text, h)
<1>1. CASE text = <<>>
  <2>1. Read(out.text, h) \in Seq(X) /\ Read(text, h) = <<>>
    BY <1>1, OutRead, ReadNone
  <2> QED  BY <1>1, <2>1, ConcatEmptySeq
<1>2. CASE text # <<>>
  <2>1. PICK o \in MarkOuts : o = Write(out, <<Blank>>) /\ Read(o.text, h) = Read(out.text, h)
    BY WriteBlankReads
  <2>2. Write(o, text) \in MarkOuts /\ Read(Write(o, text).text, h) = Read(o.text, h) \o Read(text, h)
    BY WriteReads
  <2> QED  BY <1>2, <2>1, <2>2
<1> QED  BY <1>1, <1>2


\* A comment is read as its blocks and the links among them (print.go:19-66).
LEMMA CommentReads ==
  ASSUME NEW X, NEW h, Reader(h, X), NEW blocks \in Seq(ToldBlocks)
  PROVE  Read(Comment(blocks), h) =
           FlattenSeq([k \in DOMAIN blocks |-> BlockRead(blocks[k], h) \o Read(LinksOf(blocks[k]), h)])
<1> DEFINE said == {k \in DOMAIN blocks : blocks[k].kind # "links"}
           content == Select(blocks, said)
           texts == [k \in DOMAIN blocks |-> LinksOf(blocks[k])]
           links == FlattenSeq(texts)
           used == \E k \in DOMAIN content : Used(UsedIn(content[k]))
           uses == IF used /\ links # <<>> THEN 1 ELSE 0
           Section(out, text) == IF text = <<>> THEN out ELSE Write(Write(out, <<Blank>>), text)
           body == FoldLeftDomain(LAMBDA o, k : Add(o, content, k), [text |-> <<>>, open |-> FALSE], content)
           first == SubSeq(links, 1, uses)
           rest == SubSeq(links, uses + 1, Len(links))
           front == [k \in DOMAIN blocks |-> BlockRead(blocks[k], h)]
           back == [k \in DOMAIN blocks |-> Read(LinksOf(blocks[k]), h)]
           both == [k \in DOMAIN blocks |-> BlockRead(blocks[k], h) \o Read(LinksOf(blocks[k]), h)]
<1>1. Comment(blocks) = Section(Section(body, first), rest).text
  BY DEF Comment
<1>2. PICK n \in Nat : n = Len(blocks) /\ DOMAIN blocks = 1..n
  BY SeqFacts
<1>3. \A k \in 1..n : blocks[k] \in ToldBlocks
  BY <1>2, SeqFacts
<1>4. \A k \in 1..n : /\ BlockRead(blocks[k], h) \in Seq(X) /\ Read(LinksOf(blocks[k]), h) \in Seq(X)
                      /\ LinksOf(blocks[k]) \in Seq(AnyLine) /\ AllLinks(LinksOf(blocks[k]))
  BY <1>3, ToldRead DEF ToldBlocks
<1>5. texts \in Seq(Seq(AnyLine)) /\ DOMAIN texts = 1..n /\ \A k \in 1..n : texts[k] = LinksOf(blocks[k])
  <2>1. texts \in [1..n -> Seq(AnyLine)]
    BY <1>2, <1>4
  <2>2. DOMAIN texts = 1..n /\ \A k \in 1..n : texts[k] = LinksOf(blocks[k])
    BY <1>2
  <2> HIDE DEF texts
  <2> QED  BY <2>1, <2>2, FunctionIsSeq
<1>6. front \in Seq(Seq(X)) /\ Len(front) = n /\ \A k \in 1..n : front[k] = BlockRead(blocks[k], h)
  <2>1. front \in [1..n -> Seq(X)] /\ \A k \in 1..n : front[k] = BlockRead(blocks[k], h)
    BY <1>2, <1>4
  <2> HIDE DEF front
  <2> QED  BY <2>1, FunctionIsSeq
<1>7. back \in Seq(Seq(X)) /\ Len(back) = n /\ \A k \in 1..n : back[k] = Read(LinksOf(blocks[k]), h)
  <2>1. back \in [1..n -> Seq(X)] /\ \A k \in 1..n : back[k] = Read(LinksOf(blocks[k]), h)
    BY <1>2, <1>4
  <2> HIDE DEF back
  <2> QED  BY <2>1, FunctionIsSeq
<1>8. both \in Seq(Seq(X)) /\ Len(both) = n /\ \A k \in 1..n : both[k] = front[k] \o back[k]
  <2>1. ASSUME NEW k \in 1..n
        PROVE  /\ BlockRead(blocks[k], h) \o Read(LinksOf(blocks[k]), h) \in Seq(X)
               /\ both[k] = front[k] \o back[k]
    <3>1. PICK x \in Seq(X), y \in Seq(X) : x = BlockRead(blocks[k], h) /\ y = Read(LinksOf(blocks[k]), h)
      BY <1>4
    <3>2. x \o y \in Seq(X)
      BY ConcatProperties
    <3>3. both[k] = BlockRead(blocks[k], h) \o Read(LinksOf(blocks[k]), h)
      BY <1>2
    <3> HIDE DEF both, front, back
    <3> QED  BY <1>6, <1>7, <3>1, <3>2, <3>3
  <2>2. both \in [1..n -> Seq(X)]
    BY <1>2, <2>1
  <2> HIDE DEF both
  <2> QED  BY <2>1, <2>2, FunctionIsSeq
<1>9. said \subseteq DOMAIN blocks /\ \A k \in said : blocks[k].kind # "links"
  OBVIOUS
<1>10. \A k \in DOMAIN front : k \in said \/ front[k] = <<>>
  BY DEF BlockRead
<1>11. DOMAIN front = 1..n
  BY <1>2
<1> HIDE DEF said, texts, front, back, both
<1>12. /\ content \in Seq(ToldBlocks) /\ Len(content) = Cardinality(said)
       /\ \A k \in 1..Cardinality(said) : \E m \in said : content[k] = blocks[m]
  BY <1>9, SelectTyped
<1>13. \A k \in 1..Len(content) : content[k].kind # "links"
  BY <1>9, <1>12
<1>14. [k \in DOMAIN content |-> BlockRead(content[k], h)] = Select(front, said)
  <2>1. Cardinality(said) \in Nat /\ DOMAIN content = 1..Cardinality(said)
    BY <1>12, SeqFacts
  <2>2. ASSUME NEW k \in 1..Cardinality(said)  PROVE BlockRead(content[k], h) = front[Nth(said, k)]
    <3>1. Nth(said, k) \in said
      BY <1>2, <1>9, NthIn
    <3>2. PICK m \in 1..n : m = Nth(said, k)
      BY <1>2, <1>9, <3>1
    <3>3. content[k] = blocks[Nth(said, k)]
      BY DEF Select
    <3> HIDE DEF content
    <3> QED  BY <1>6, <3>2, <3>3
  <2>3. [k \in DOMAIN content |-> BlockRead(content[k], h)] = [k \in 1..Cardinality(said) |-> BlockRead(content[k], h)]
    BY <2>1
  <2> HIDE DEF content
  <2>4. [k \in 1..Cardinality(said) |-> BlockRead(content[k], h)] = [k \in 1..Cardinality(said) |-> front[Nth(said, k)]]
    BY <2>2
  <2> QED  BY <2>3, <2>4 DEF Select
<1> HIDE DEF content
<1>15. FlattenSeq(Select(front, said)) = FlattenSeq(front)
  <2>1. said \subseteq DOMAIN front
    BY <1>2, <1>9, <1>11
  <2> QED  BY <1>6, <1>10, <2>1, FlattenSelect
<1>16. body \in MarkOuts /\ Read(body.text, h) = FlattenSeq(front)
  <2>1. body \in MarkOuts /\ Read(body.text, h) = FlattenSeq([k \in DOMAIN content |-> BlockRead(content[k], h)])
    BY <1>12, <1>13, BodyPrinted
  <2> HIDE DEF body
  <2> QED  BY <1>14, <1>15, <2>1
<1> HIDE DEF body
<1>17. links \in Seq(AnyLine) /\ Read(links, h) = FlattenSeq(back)
  <2>1. ParasRead(texts, h) = Read(FlattenSeq(texts), h)
    BY <1>5, FlattenReads
  <2>2. ParasRead(texts, h) = FlattenSeq([k \in 1..n |-> Read(texts[k], h)])
    BY <1>5 DEF ParasRead
  <2>3. [k \in 1..n |-> Read(texts[k], h)] = [k \in 1..n |-> Read(LinksOf(blocks[k]), h)]
    BY <1>5
  <2>4. back = [k \in 1..n |-> Read(LinksOf(blocks[k]), h)]
    BY <1>2 DEF back
  <2>5. links \in Seq(AnyLine)
    BY <1>5, FlattenTyped
  <2> QED  BY <2>1, <2>2, <2>3, <2>4, <2>5
<1> HIDE DEF links, used
<1>18. PICK l \in Nat : l = Len(links)
  BY <1>17, SeqFacts
<1>19. uses \in 0..l
  <2>1. links # <<>> => l # 0
    BY <1>17, <1>18, EmptySeq
  <2> QED  BY <1>18, <2>1
<1> HIDE DEF uses
<1>20. /\ first \in Seq(AnyLine) /\ rest \in Seq(AnyLine)
       /\ Read(links, h) = Read(first, h) \o Read(rest, h)
  <2>1. 1 \in 1..(Len(links) + 1) /\ uses \in (1 - 1)..Len(links) /\ Len(links) \in uses..Len(links)
    BY <1>18, <1>19
  <2>2. Read(SubSeq(links, 1, Len(links)), h) = Read(first, h) \o Read(rest, h)
    BY <1>17, <2>1, ReadSplit
  <2>3. SubSeq(links, 1, Len(links)) = links
    BY <1>17, SubSeqFull
  <2>4. 1 \in Nat \ {0} /\ uses \in Nat /\ uses + 1 \in Nat \ {0} /\ l \in Nat /\ uses <= l
    BY <1>18, <1>19
  <2>5. first \in Seq(AnyLine) /\ rest \in Seq(AnyLine)
    BY <1>17, <1>18, <2>4, SubSeqTyped
  <2> QED  BY <2>2, <2>3, <2>5
<1> HIDE DEF first, rest
<1>21. PICK s \in MarkOuts : s = Section(body, first) /\ Read(s.text, h) = Read(body.text, h) \o Read(first, h)
  BY <1>16, <1>20, SectionReads
<1>22. PICK t \in MarkOuts : t = Section(s, rest) /\ Read(t.text, h) = Read(s.text, h) \o Read(rest, h)
  BY <1>20, SectionReads
<1>23. Comment(blocks) = t.text
  BY <1>1, <1>21, <1>22
<1> HIDE DEF Section
<1>24. PICK x \in Seq(X), y \in Seq(X), z \in Seq(X) : x = Read(body.text, h) /\ y = Read(first, h) /\ z = Read(rest, h)
  BY <1>16, <1>20, OutRead, ReadTyped
<1>25. Regroups(x, y, z)
  BY Regrouped
<1>26. Read(t.text, h) = x \o (y \o z)
  BY <1>21, <1>22, <1>24, <1>25 DEF Regroups
<1>27. Read(t.text, h) = FlattenSeq(front) \o FlattenSeq(back)
  BY <1>16, <1>17, <1>20, <1>24, <1>26
<1>28. \A k \in 1..n : Moves(back[k], X)
  BY <1>4, <1>7, LinksMove
<1>29. FlattenSeq(both) = FlattenSeq(front) \o FlattenSeq(back)
  BY <1>6, <1>7, <1>8, <1>28, FlattenParts, ZenonT(30)
<1>30. Read(Comment(blocks), h) = FlattenSeq(both)
  BY <1>23, <1>27, <1>29
<1> QED  BY <1>30 DEF both


------------------------------------------------------------------------------
(* The spans are read as the lines they cover *)

\* Spans in their order, all lines that say something in one of them.
Spanned(all, list) ==
  /\ list \in Seq(SpanSet)
  /\ \A k \in 1..Len(list) : list[k].start \in 1..Len(all) /\ list[k].start <= list[k].end /\ list[k].end <= Len(all)
  /\ \A k \in 2..Len(list) : list[k - 1].end < list[k].start
  /\ \A k \in 1..Len(all) : all[k] = Blank \/ \E s \in 1..Len(list) : k \in list[s].start..list[s].end

\* Earlier spans end earlier.
LEMMA SpansOrdered ==
  ASSUME NEW all \in Seq(AnyLine), NEW list, Spanned(all, list),
         NEW s \in 1..Len(list), NEW t \in 1..Len(list), s < t
  PROVE  list[s].end < list[t].start
<1>1. PICK n \in Nat, l \in Nat : n = Len(list) /\ l = Len(all) /\ list \in Seq(SpanSet)
  BY SeqFacts DEF Spanned
<1>2. \A k \in 1..n : list[k].start \in 1..l /\ list[k].end \in Nat /\ list[k].start <= list[k].end
  BY <1>1, SpanFacts DEF Spanned
<1>3. \A k \in 2..n : list[k - 1].end < list[k].start
  BY <1>1 DEF Spanned
<1> DEFINE w == [k \in (s + 1)..n |-> list[s].end < list[k].start]
           D == {TRUE}
<1>4. w[s + 1] \in D
  <2>1. s + 1 \in (s + 1)..n /\ s + 1 \in 2..n /\ (s + 1) - 1 = s
    BY <1>1
  <2> QED  BY <1>3, <2>1
<1>5. ASSUME NEW m \in ((s + 1) + 1)..t, w[m - 1] \in D  PROVE w[m] \in D
  <2>1. m \in (s + 1)..n /\ m - 1 \in (s + 1)..n /\ m \in 2..n /\ m - 1 \in 1..n /\ m \in 1..n /\ s \in 1..n
    BY <1>1
  <2>2. list[s].end < list[m - 1].start
    BY <1>5, <2>1
  <2>3. list[m - 1].end < list[m].start
    BY <1>3, <2>1
  <2>4. list[m - 1].start <= list[m - 1].end
    BY <1>2, <2>1
  <2>5. /\ list[s].end \in Int /\ list[m - 1].start \in Int /\ list[m - 1].end \in Int
        /\ list[m].start \in Int
    BY <1>2, <2>1
  <2>6. list[s].end < list[m].start
    BY <2>2, <2>3, <2>4, <2>5
  <2> QED  BY <2>1, <2>6
<1>6. w[t] \in D
  <2> HIDE DEF w, D
  <2>1. s + 1 \in Nat /\ t \in Nat /\ s + 1 <= t
    BY <1>1
  <2> QED  BY <1>4, <1>5, <2>1, Climbs
<1>7. t \in (s + 1)..n
  BY <1>1
<1> QED  BY <1>6, <1>7

\* A text is read as its spans: the lines between them say nothing.
LEMMA SpansRead ==
  ASSUME NEW X, NEW h, Reader(h, X), NEW all \in Seq(AnyLine), NEW list, Spanned(all, list)
  PROVE  Read(all, h) = FlattenSeq([k \in DOMAIN list |-> Read(SubSeq(all, list[k].start, list[k].end), h)])
<1>1. PICK n \in Nat, l \in Nat : n = Len(list) /\ l = Len(all) /\ list \in Seq(SpanSet) /\ DOMAIN list = 1..n
  BY SeqFacts DEF Spanned
<1>2. \A k \in 1..n : list[k].start \in 1..l /\ list[k].end \in 1..l /\ list[k].start <= list[k].end
  <2>1. \A k \in 1..n : list[k].start \in 1..l /\ list[k].end \in Nat /\ list[k].start <= list[k].end /\ list[k].end <= l
    BY <1>1, SpanFacts DEF Spanned
  <2> QED  BY <2>1
<1>3. \A k \in 1..l : all[k] = Blank \/ \E s \in 1..n : k \in list[s].start..list[s].end
  BY <1>1 DEF Spanned
<1> DEFINE before(m) == IF m = 0 THEN 0 ELSE list[m].end
           w == [m \in 0..n |-> Read(SubSeq(all, 1, before(m)), h)]
           seqs == [k \in DOMAIN list |-> Read(SubSeq(all, list[k].start, list[k].end), h)]
<1>4. \A m \in 0..n : before(m) \in 0..l
  BY <1>2
<1>5. \A m \in 1..n : before(m) = list[m].end
  OBVIOUS
<1>6. \A m \in 1..n : before(m - 1) < list[m].start
  <2> SUFFICES ASSUME NEW m \in 1..n  PROVE before(m - 1) < list[m].start
    OBVIOUS
  <2>1. CASE m = 1
    BY <1>2, <2>1
  <2>2. CASE m # 1
    <3>1. m - 1 \in 1..Len(list) /\ m \in 1..Len(list) /\ m - 1 < m /\ m - 1 # 0
      BY <1>1, <2>2
    <3>2. list[m - 1].end < list[m].start
      BY <3>1, SpansOrdered
    <3> QED  BY <3>1, <3>2
  <2> QED  BY <2>1, <2>2
<1>7. before(0) = 0
  OBVIOUS
<1>8. \A m \in 1..n : \A k \in (before(m - 1) + 1)..(list[m].start - 1) : all[k].words = <<>>
  <2> SUFFICES ASSUME NEW m \in 1..n, NEW k \in (before(m - 1) + 1)..(list[m].start - 1)
               PROVE  all[k].words = <<>>
    OBVIOUS
  <2>1. k \in 1..l /\ k < list[m].start /\ before(m - 1) < k
    BY <1>2, <1>4
  <2>2. ~ \E s \in 1..n : k \in list[s].start..list[s].end
    <3> SUFFICES ASSUME NEW s \in 1..n, k \in list[s].start..list[s].end  PROVE FALSE
      OBVIOUS
    <3>1. CASE s < m
      <4>1. m - 1 \in 1..n /\ s <= m - 1 /\ before(m - 1) = list[m - 1].end
        BY <3>1
      <4>2. list[s].end <= list[m - 1].end
        <5>1. CASE s = m - 1
          BY <1>2, <5>1
        <5>2. CASE s < m - 1
          <6>1. list[s].end < list[m - 1].start
            BY <1>1, <4>1, <5>2, SpansOrdered
          <6> QED  BY <1>2, <4>1, <6>1
        <5> QED  BY <4>1, <5>1, <5>2
      <4> QED  BY <1>2, <2>1, <4>1, <4>2
    <3>2. CASE s = m
      BY <1>2, <2>1, <3>2
    <3>3. CASE m < s
      <4>1. list[m].end < list[s].start
        BY <1>1, <3>3, SpansOrdered
      <4> QED  BY <1>2, <2>1, <4>1
    <3> QED  BY <3>1, <3>2, <3>3
  <2>3. all[k] = Blank
    BY <1>3, <2>1, <2>2
  <2> QED  BY <2>3, BlankTyped
<1> HIDE DEF before
<1>9. ASSUME NEW m \in 1..n
      PROVE  /\ Read(SubSeq(all, 1, before(m)), h) =
                  Read(SubSeq(all, 1, before(m - 1)), h) \o Read(SubSeq(all, list[m].start, list[m].end), h)
             /\ Read(SubSeq(all, list[m].start, list[m].end), h) \in Seq(X)
  <2>1. PICK a \in 0..l, b \in 1..l, c \in 1..l : /\ a = before(m - 1) /\ b = list[m].start /\ c = list[m].end
                                                  /\ a < b /\ b <= c /\ before(m) = c
    <3>1. m - 1 \in 0..n
      OBVIOUS
    <3> QED  BY <1>2, <1>4, <1>5, <1>6, <3>1
  <2>2. 1 \in 1..(Len(all) + 1) /\ a \in (1 - 1)..Len(all) /\ c \in a..Len(all)
    BY <1>1, <2>1
  <2>3. a + 1 \in 1..(Len(all) + 1) /\ b - 1 \in ((a + 1) - 1)..Len(all) /\ c \in (b - 1)..Len(all)
    <3>1. a + 1 \in 1..(l + 1) /\ (a + 1) - 1 = a
      OBVIOUS
    <3>2. b - 1 \in a..l /\ c \in (b - 1)..l
      BY <2>1, SMTT(30)
    <3> QED  BY <1>1, <3>1, <3>2
  <2>4. Read(SubSeq(all, 1, c), h) = Read(SubSeq(all, 1, a), h) \o Read(SubSeq(all, a + 1, c), h)
    BY <2>2, ReadSplit
  <2>5. Read(SubSeq(all, a + 1, c), h) = Read(SubSeq(all, a + 1, b - 1), h) \o Read(SubSeq(all, (b - 1) + 1, c), h)
    BY <2>3, ReadSplit
  <2>6. Read(SubSeq(all, a + 1, b - 1), h) = <<>>
    <3>1. a + 1 \in Nat \ {0} /\ b - 1 \in Nat /\ b - 1 <= Len(all)
      BY <1>1, <2>1
    <3>2. \A k \in (a + 1)..(b - 1) : all[k].words = <<>>
      BY <1>8, <2>1
    <3> QED  BY <3>1, <3>2, ReadGap
  <2>7. (b - 1) + 1 = b
    OBVIOUS
  <2>8. Read(SubSeq(all, b, c), h) \in Seq(X)
    <3>1. b \in Nat \ {0} /\ c \in Nat /\ c <= Len(all)
      BY <1>1, <2>1
    <3>2. SubSeq(all, b, c) \in Seq(AnyLine)
      BY <3>1, SubSeqTyped
    <3> QED  BY <3>2, ReadTyped
  <2>9. <<>> \o Read(SubSeq(all, b, c), h) = Read(SubSeq(all, b, c), h)
    BY <2>8, ConcatEmptySeq
  <2>10. Read(SubSeq(all, a + 1, c), h) = Read(SubSeq(all, b, c), h)
    BY <2>5, <2>6, <2>7, <2>9
  <2> QED  BY <2>1, <2>4, <2>8, <2>10
<1>10. \A m \in 0..n : w[m] \in Seq(X)
  <2> SUFFICES ASSUME NEW m \in 0..n  PROVE Read(SubSeq(all, 1, before(m)), h) \in Seq(X)
    OBVIOUS
  <2>1. PICK b \in Nat : b = before(m) /\ b <= Len(all)
    BY <1>1, <1>4
  <2>2. 1 \in Nat \ {0}
    OBVIOUS
  <2>3. SubSeq(all, 1, b) \in Seq(AnyLine)
    BY <2>1, <2>2, SubSeqTyped
  <2> QED  BY <2>1, <2>3, ReadTyped
<1>11. seqs \in Seq(Seq(X)) /\ Len(seqs) = n /\ \A k \in 1..n : seqs[k] = Read(SubSeq(all, list[k].start, list[k].end), h)
  <2>1. seqs \in [1..n -> Seq(X)] /\ \A k \in 1..n : seqs[k] = Read(SubSeq(all, list[k].start, list[k].end), h)
    BY <1>1, <1>9
  <2> HIDE DEF seqs
  <2> QED  BY <2>1, FunctionIsSeq
<1>12. \A m \in 0..n : w[m] = Read(SubSeq(all, 1, before(m)), h)
  OBVIOUS
<1> HIDE DEF w, seqs
<1>13. \A m \in 1..n : w[m] = w[m - 1] \o seqs[m]
  <2> SUFFICES ASSUME NEW m \in 1..n  PROVE w[m] = w[m - 1] \o seqs[m]
    OBVIOUS
  <2>1. m \in 0..n /\ m - 1 \in 0..n
    OBVIOUS
  <2>2. w[m] = Read(SubSeq(all, 1, before(m)), h) /\ w[m - 1] = Read(SubSeq(all, 1, before(m - 1)), h)
    BY <1>12, <2>1
  <2> QED  BY <1>9, <1>11, <2>2
<1>14. Adds(w, 0, n, FlattenSeq(seqs))
  BY <1>10, <1>11, <1>13, Accumulates
<1>15. w[0] = <<>>
  <2>1. SubSeq(all, 1, 0) = <<>>
    <3>1. 1 \in Int /\ 0 \in Int /\ 0 < 1
      OBVIOUS
    <3> QED  BY <3>1, SubSeqEmpty
  <2>2. 0 \in 0..n
    OBVIOUS
  <2> QED  BY <1>7, <1>12, <2>1, <2>2, ReadNone
<1>16. w[n] = FlattenSeq(seqs)
  <2>1. 0 + n = n
    OBVIOUS
  <2>2. w[n] = <<>> \o FlattenSeq(seqs)
    BY <1>14, <1>15, <2>1 DEF Adds
  <2>3. FlattenSeq(seqs) \in Seq(X)
    BY <1>11, FlattenTyped
  <2> QED  BY <2>2, <2>3, ConcatEmptySeq
<1>17. Read(all, h) = w[n]
  <2>1. PICK b \in 0..l : b = before(n)
    <3>1. n \in 0..n
      OBVIOUS
    <3> QED  BY <1>4, <3>1
  <2>2. \A k \in (b + 1)..l : all[k].words = <<>>
    <3> SUFFICES ASSUME NEW k \in (b + 1)..l  PROVE all[k].words = <<>>
      OBVIOUS
    <3>1. k \in 1..l /\ b < k
      BY <2>1
    <3>2. ~ \E s \in 1..n : k \in list[s].start..list[s].end
      <4> SUFFICES ASSUME NEW s \in 1..n, k \in list[s].start..list[s].end  PROVE FALSE
        OBVIOUS
      <4>1. n \in 1..n /\ s <= n /\ b = list[n].end
        BY <1>5, <2>1
      <4>2. list[s].end <= list[n].end
        <5>1. CASE s = n
          BY <1>2, <5>1
        <5>2. CASE s < n
          <6>1. list[s].end < list[n].start
            BY <1>1, <4>1, <5>2, SpansOrdered
          <6> QED  BY <1>2, <4>1, <6>1
        <5> QED  BY <4>1, <5>1, <5>2
      <4> QED  BY <1>2, <3>1, <4>1, <4>2
    <3>3. all[k] = Blank
      BY <1>3, <3>1, <3>2
    <3> QED  BY <3>3, BlankTyped
  <2>3. 1 \in 1..(Len(all) + 1) /\ b \in (1 - 1)..Len(all) /\ Len(all) \in b..Len(all)
    BY <1>1, <2>1
  <2>4. Read(SubSeq(all, 1, Len(all)), h) = Read(SubSeq(all, 1, b), h) \o Read(SubSeq(all, b + 1, Len(all)), h)
    BY <2>3, ReadSplit
  <2>5. Read(SubSeq(all, b + 1, l), h) = <<>>
    <3>1. b + 1 \in Nat \ {0} /\ l <= Len(all)
      BY <1>1, <2>1
    <3> QED  BY <2>2, <3>1, ReadGap
  <2>6. w[n] = Read(SubSeq(all, 1, b), h) /\ w[n] \in Seq(X)
    <3>1. n \in 0..n
      OBVIOUS
    <3> QED  BY <1>10, <1>12, <2>1, <3>1
  <2>7. SubSeq(all, 1, Len(all)) = all
    BY SubSeqFull
  <2> QED  BY <1>1, <2>4, <2>5, <2>6, <2>7, ConcatEmptySeq
<1> QED  BY <1>16, <1>17 DEF seqs


\* A block of a span is one of those.
LEMMA SpanTold ==
  ASSUME NEW all \in Seq(AnyLine), NEW span, Within(all, span), Kinded(all, span), NEW before \in BOOLEAN
  PROVE  BlockOf(all, span, before) \in ToldBlocks
<1>1. PICK text \in Seq(AnyLine) :
        /\ text = SubSeq(all, span.start, span.end) /\ text # <<>> /\ text[1] = all[span.start]
        /\ text[1] \in AnyLine /\ Len(text) = span.end - span.start + 1
  BY SpanText
<1>2. PICK b \in BlockSet : b = BlockOf(all, span, before)
  BY BlockTyped
<1>3. LinksOf(b) \in Seq(AnyLine) /\ AllLinks(LinksOf(b))
  <2> DEFINE h == [words \in Seq(Word) |-> <<>>]
  <2>1. Reader(h, {})
    <3>1. <<>> \in Seq({}) /\ <<>> \in Seq(Word) /\ \A s \in Seq({}) : <<>> \o s = s /\ s \o <<>> = s
      BY EmptySeq, ConcatEmptySeq
    <3>2. h \in [Seq(Word) -> Seq({})] /\ h[<<>>] = <<>> /\ \A words \in Seq(Word) : h[words] = <<>>
      BY <3>1
    <3> HIDE DEF h
    <3>3. Moves(<<>>, {})
      BY <3>1 DEF Moves
    <3> QED  BY <3>2, <3>3 DEF Reader
  <2> HIDE DEF h
  <2> QED  BY <1>2, <2>1, BlockReads
<1>4. span.kind \in {"list", "code", "heading", "old heading", "para"}
  BY DEF Within, SpanSet
<1>5. CASE span.kind = "list"
  <2>1. b = ListBlock(text, before)
    BY <1>1, <1>2, <1>5 DEF BlockOf
  <2>2. b.kind = "list" /\ \A k \in 1..Len(b.items) : b.items[k] \in TakenItems
    BY <2>1, ListTaken DEF Lists
  <2> QED  BY <1>2, <1>3, <2>2 DEF ToldBlocks
<1>6. CASE span.kind = "code"
  <2>1. b.kind = "code"
    BY <1>1, <1>2, <1>6 DEF BlockOf
  <2> QED  BY <1>2, <1>3, <2>1 DEF ToldBlocks
<1>7. CASE span.kind = "old heading"
  <2>1. b = [kind |-> "heading", text |-> <<Trimmed(text[1])>>]
    BY <1>1, <1>2, <1>7 DEF BlockOf
  <2>2. b.kind = "heading" /\ Len(b.text) = 1
    BY <2>1
  <2> QED  BY <1>2, <1>3, <2>2 DEF ToldBlocks
<1>8. CASE span.kind = "heading"
  <2>1. b = [kind |-> "heading", text |-> <<Line(<<>>, Tail(text[1].words))>>]
    BY <1>1, <1>2, <1>8 DEF BlockOf
  <2>2. b.kind = "heading" /\ Len(b.text) = 1
    BY <2>1
  <2> QED  BY <1>2, <1>3, <2>2 DEF ToldBlocks
<1>9. CASE span.kind = "para"
  <2>1. b = [kind |-> IF AllLinks(text) THEN "links" ELSE "para", text |-> text]
    BY <1>1, <1>2, <1>9 DEF BlockOf
  <2>2. b.kind \in {"links", "para"}
    BY <2>1
  <2> QED  BY <1>2, <1>3, <2>2 DEF ToldBlocks
<1> QED  BY <1>4, <1>5, <1>6, <1>7, <1>8, <1>9

\* The comment printed from the blocks of lines is read as the lines.
LEMMA ParseReads ==
  ASSUME NEW X, NEW h, Reader(h, X), NEW all \in Seq(AnyLine), NEW list, Spanned(all, list),
         \A k \in DOMAIN list : Within(all, list[k]) /\ Kinded(all, list[k])
  PROVE  Read(Comment(Blocks(all, list)), h) = Read(all, h)
<1>1. PICK n \in Nat : n = Len(list) /\ list \in Seq(SpanSet) /\ DOMAIN list = 1..n
  BY SeqFacts DEF Spanned
<1> DEFINE before(k) == k > 1 /\ list[k - 1].end + 1 < list[k].start
<1>2. \A k \in 1..n : before(k) \in BOOLEAN
  OBVIOUS
<1> DEFINE blocks == Blocks(all, list)
<1>3. DOMAIN blocks = 1..n /\ blocks = [k \in 1..n |-> blocks[k]]
  BY <1>1 DEF Blocks
<1>4. \A k \in 1..n : blocks[k] = BlockOf(all, list[k], before(k))
  BY <1>1 DEF Blocks
<1> HIDE DEF before, blocks
<1>5. ASSUME NEW k \in 1..n
      PROVE  /\ blocks[k] \in ToldBlocks
             /\ Read(SubSeq(all, list[k].start, list[k].end), h) =
                  BlockRead(blocks[k], h) \o Read(LinksOf(blocks[k]), h)
  <2>1. PICK span : span = list[k] /\ Within(all, span) /\ Kinded(all, span)
    BY <1>1
  <2>2. PICK p \in BOOLEAN : p = before(k)
    BY <1>2
  <2>3. BlockOf(all, span, p) \in ToldBlocks
    BY <2>1, SpanTold
  <2>4. Read(SubSeq(all, span.start, span.end), h) =
          BlockRead(BlockOf(all, span, p), h) \o Read(LinksOf(BlockOf(all, span, p)), h)
    BY <2>1, BlockReads
  <2> QED  BY <1>4, <2>1, <2>2, <2>3, <2>4
<1>6. blocks \in Seq(ToldBlocks)
  <2>1. blocks \in [1..n -> ToldBlocks]
    BY <1>3, <1>5
  <2> QED  BY <2>1, FunctionIsSeq
<1>7. Read(Comment(blocks), h) =
        FlattenSeq([k \in 1..n |-> BlockRead(blocks[k], h) \o Read(LinksOf(blocks[k]), h)])
  BY <1>3, <1>6, CommentReads
<1>8. Read(all, h) = FlattenSeq([k \in 1..n |-> Read(SubSeq(all, list[k].start, list[k].end), h)])
  BY <1>1, SpansRead
<1>9. [k \in 1..n |-> BlockRead(blocks[k], h) \o Read(LinksOf(blocks[k]), h)]
      = [k \in 1..n |-> Read(SubSeq(all, list[k].start, list[k].end), h)]
  BY <1>5
<1>10. Read(Comment(blocks), h) = Read(all, h)
  BY <1>7, <1>8, <1>9
<1> QED  BY <1>10 DEF blocks

------------------------------------------------------------------------------
(* What a comment says is what is read of its text *)

\* The two ways to read a line: its words if it defines no link, and one number
\* for each link.
SaidBy == [words \in Seq(Word) |-> IF IsLink(words) THEN <<>> ELSE words]
LinkBy == [words \in Seq(Word) |-> IF IsLink(words) THEN << 0 >> ELSE <<>>]

\* Both are readers: a link says nothing, or one number that may stand anywhere.
LEMMA SaidReader == Reader(SaidBy, Word)
<1>1. SaidBy \in [Seq(Word) -> Seq(Word)]
  BY EmptySeq DEF SaidBy
<1>2. SaidBy[<<>>] = <<>>
  BY EmptySeq DEF SaidBy
<1>3. ASSUME NEW words \in Seq(Word), IsLink(words)  PROVE Moves(SaidBy[words], Word)
  <2>1. SaidBy[words] = <<>>
    BY <1>3 DEF SaidBy
  <2>2. \A s \in Seq(Word) : <<>> \o s = s /\ s \o <<>> = s
    BY ConcatEmptySeq
  <2> QED  BY <2>1, <2>2 DEF Moves
<1> QED  BY <1>1, <1>2, <1>3 DEF Reader

\* Sequences of one number alone are equal if they are as long.
LEMMA SameNumbers ==
  ASSUME NEW a \in Seq({0}), NEW b \in Seq({0}), Len(a) = Len(b)
  PROVE  a = b
<1>1. PICK n \in Nat : n = Len(a)
  BY SeqFacts
<1>2. /\ DOMAIN a = 1..n /\ DOMAIN b = 1..n
      /\ \A k \in 1..n : a[k] \in {0} /\ b[k] \in {0}
  BY <1>1, SeqFacts
<1>3. \A k \in 1..n : a[k] = b[k]
  BY <1>2
<1> QED  BY <1>1, <1>3, SeqEqual

LEMMA LinkReader == Reader(LinkBy, {0})
<1>0. << 0 >> \in Seq({0}) /\ Len(<< 0 >>) = 1
  <2>1. 0 \in {0}
    OBVIOUS
  <2> QED  BY <2>1, SingleTyped
<1>1. LinkBy \in [Seq(Word) -> Seq({0})]
  BY <1>0, EmptySeq DEF LinkBy
<1>2. LinkBy[<<>>] = <<>>
  <2>1. Len(<<>>) = 0 /\ <<>> \in Seq(Word)
    BY EmptySeq
  <2>2. Len(<<"[a]:", "url">>) = 2
    OBVIOUS
  <2>3. ~ IsLink(<<>>)
    BY <2>1, <2>2 DEF IsLink
  <2> QED  BY <2>1, <2>3 DEF LinkBy
<1>3. ASSUME NEW words \in Seq(Word), IsLink(words)  PROVE Moves(LinkBy[words], {0})
  <2>1. LinkBy[words] = << 0 >>
    BY <1>3 DEF LinkBy
  <2>2. ASSUME NEW s \in Seq({0})  PROVE << 0 >> \o s = s \o << 0 >>
    <3>1. PICK one \in Seq({0}) : one = << 0 >>
      BY <1>0
    <3>2. PICK n \in Nat, m \in Nat : n = Len(s) /\ m = Len(one)
      BY SeqFacts
    <3>3. one \o s \in Seq({0}) /\ Len(one \o s) = m + n
      BY <3>2, ConcatProperties
    <3>4. s \o one \in Seq({0}) /\ Len(s \o one) = n + m
      BY <3>2, ConcatProperties
    <3>5. m + n = n + m
      OBVIOUS
    <3> QED  BY <3>1, <3>3, <3>4, <3>5, SameNumbers
  <2> QED  BY <2>1, <2>2 DEF Moves
<1> QED  BY <1>1, <1>2, <1>3 DEF Reader

\* A comment read line by line, without the directives that are taken out of it.
EachLine(c, h) ==
  [k \in DOMAIN c.lines |->
     IF c.style = "//" /\ isDirective(c.lines[k]) THEN <<>> ELSE h[Unmarked(c.lines[k].words)]]

\* It is read as its text.
LEMMA TextRead ==
  ASSUME NEW X, NEW h, Reader(h, X), NEW c \in AnyComment
  PROVE  EachLine(c, h) \in Seq(Seq(X)) /\ FlattenSeq(EachLine(c, h)) = Read(TextOf(c), h)
<1>1. c.lines \in Seq(AnyLine) /\ c.style \in {"//", "/*"}
  BY CommentFacts
<1>2. PICK n \in Nat : n = Len(c.lines) /\ DOMAIN c.lines = 1..n /\ \A k \in 1..n : c.lines[k] \in AnyLine
  BY <1>1, SeqFacts
<1>3. ASSUME NEW line \in AnyLine  PROVE h[Unmarked(line.words)] \in Seq(X)
  <2>1. Unmarked(line.words) \in Seq(Word)
    BY FieldsTyped, UnmarkedFound
  <2> QED  BY <2>1 DEF Reader
<1>4. EachLine(c, h) \in [1..n -> Seq(X)]
  <2>1. EachLine(c, h) = [k \in 1..n |->
           IF c.style = "//" /\ isDirective(c.lines[k]) THEN <<>> ELSE h[Unmarked(c.lines[k].words)]]
    BY <1>2 DEF EachLine
  <2>2. \A k \in 1..n : h[Unmarked(c.lines[k].words)] \in Seq(X)
    BY <1>2, <1>3
  <2> QED  BY <2>1, <2>2, EmptySeq
<1>5. EachLine(c, h) \in Seq(Seq(X)) /\ Len(EachLine(c, h)) = n /\ DOMAIN EachLine(c, h) = 1..n
  BY <1>4, FunctionIsSeq
<1>6. CASE c.style = "/*"
  <2>1. TextOf(c) = c.lines
    BY <1>6 DEF TextOf
  <2>2. EachLine(c, h) = Each(c.lines, h)
    BY <1>6 DEF EachLine, Each
  <2> QED  BY <1>5, <2>1, <2>2 DEF Read
<1>7. CASE c.style = "//"
  <2> DEFINE T == DOMAIN c.lines \ Directives(c)
  <2>1. T \subseteq 1..n /\ T \subseteq DOMAIN c.lines
    BY <1>2
  <2>2. \A k \in 1..n : k \in T \/ isDirective(c.lines[k])
    BY <1>2 DEF Directives
  <2>3. \A k \in T : ~ isDirective(c.lines[k])
    BY DEF Directives
  <2>4. \A k \in 1..n : k \in T \/ EachLine(c, h)[k] = <<>>
    BY <1>2, <1>7, <2>2 DEF EachLine
  <2>5. \A k \in T : EachLine(c, h)[k] = h[Unmarked(c.lines[k].words)]
    BY <1>2, <2>1, <2>3 DEF EachLine
  <2>6. PICK text : text = Select(c.lines, T)
    OBVIOUS
  <2>7. TextOf(c) = [k \in DOMAIN text |-> AfterSlashes(text[k])]
    BY <1>7, <2>6 DEF TextOf
  <2> HIDE DEF T
  <2>8. text = [k \in 1..Cardinality(T) |-> c.lines[Nth(T, k)]]
    BY <2>6 DEF Select
  <2>9. PICK m \in Nat : m = Cardinality(T)
    BY <2>1, BoundedFinite
  <2>10. \A k \in 1..m : Nth(T, k) \in T /\ Nth(T, k) \in 1..n
    BY <2>1, <2>9, NthIn
  <2>11. TextOf(c) = [k \in 1..m |-> AfterSlashes(c.lines[Nth(T, k)])]
    BY <2>7, <2>8, <2>9
  <2>12. \A line \in AnyLine : AfterSlashes(line).words = line.words
    BY DEF AfterSlashes, AnyLine
  <2>13. Each(TextOf(c), h) = [k \in 1..m |-> h[Unmarked(c.lines[Nth(T, k)].words)]]
    <3>1. DOMAIN TextOf(c) = 1..m
      BY <2>11
    <3>2. \A k \in 1..m : TextOf(c)[k].words = c.lines[Nth(T, k)].words
      BY <1>2, <2>10, <2>11, <2>12
    <3> QED  BY <3>1, <3>2 DEF Each
  <2>14. Select(EachLine(c, h), T) = [k \in 1..m |-> h[Unmarked(c.lines[Nth(T, k)].words)]]
    <3>1. \A k \in 1..m : EachLine(c, h)[Nth(T, k)] = h[Unmarked(c.lines[Nth(T, k)].words)]
      BY <2>5, <2>10
    <3>2. Select(EachLine(c, h), T) = [k \in 1..m |-> EachLine(c, h)[Nth(T, k)]]
      BY <2>9 DEF Select
    <3> QED  BY <3>1, <3>2
  <2>15. FlattenSeq(Select(EachLine(c, h), T)) = FlattenSeq(EachLine(c, h))
    <3>1. T \subseteq DOMAIN EachLine(c, h) /\ \A k \in DOMAIN EachLine(c, h) : k \in T \/ EachLine(c, h)[k] = <<>>
      BY <1>5, <2>1, <2>4
    <3> QED  BY <1>5, <3>1, FlattenSelect
  <2> QED  BY <1>5, <2>13, <2>14, <2>15 DEF Read
<1> QED  BY <1>1, <1>6, <1>7

\* Said and LinksIn are what the two readers read of the text of a comment.
LEMMA SaidRead ==
  ASSUME NEW c \in AnyComment
  PROVE  Said(c) = Read(TextOf(c), SaidBy)
<1>1. c.lines \in Seq(AnyLine)
  BY CommentFacts
<1>2. ASSUME NEW k \in DOMAIN c.lines  PROVE Unmarked(c.lines[k].words) \in Seq(Word)
  <2>1. c.lines[k] \in AnyLine
    BY <1>1, SeqFacts
  <2> QED  BY <2>1, FieldsTyped, UnmarkedFound
<1>3. \A words \in Seq(Word) : SaidBy[words] = IF IsLink(words) THEN <<>> ELSE words
  BY DEF SaidBy
<1>4. ASSUME NEW k \in DOMAIN c.lines
      PROVE  (IF IsLink(Unmarked(c.lines[k].words)) \/ (c.style = "//" /\ isDirective(c.lines[k]))
              THEN <<>> ELSE Unmarked(c.lines[k].words))
             = (IF c.style = "//" /\ isDirective(c.lines[k]) THEN <<>> ELSE SaidBy[Unmarked(c.lines[k].words)])
  BY <1>2, <1>3
<1>5. [k \in DOMAIN c.lines |->
        IF IsLink(Unmarked(c.lines[k].words)) \/ (c.style = "//" /\ isDirective(c.lines[k]))
        THEN <<>> ELSE Unmarked(c.lines[k].words)] = EachLine(c, SaidBy)
  BY <1>4 DEF EachLine
<1>6. Said(c) = FlattenSeq(EachLine(c, SaidBy))
  BY <1>5 DEF Said
<1> QED  BY <1>6, SaidReader, TextRead

\* As many numbers are joined as there are sequences of one.
LEMMA JoinedCount ==
  ASSUME NEW n \in Nat, NEW seqs \in Seq(Seq({0})), Len(seqs) = n, NEW T, T \subseteq 1..n,
         \A k \in 1..n : seqs[k] = IF k \in T THEN << 0 >> ELSE <<>>
  PROVE  Len(FlattenSeq(seqs)) = Cardinality(T)
<1>1. PICK w : Joined(w, seqs, n, {0}) /\ w[0] = <<>> /\ w[n] = FlattenSeq(seqs)
  BY FlattenJoins
<1> DEFINE same == [m \in 0..n |-> Len(w[m]) = Cardinality(UpTo(T, m))]
           D == {TRUE}
<1>0. /\ Cardinality(UpTo(T, 0)) = 0 /\ Cardinality(UpTo(T, n)) = Cardinality(T)
      /\ \A x \in 1..n : Cardinality(UpTo(T, x)) =
           IF x \in T THEN Cardinality(UpTo(T, x - 1)) + 1 ELSE Cardinality(UpTo(T, x - 1))
  BY UpToCounts
<1>2. same[0] \in D
  <2>1. Len(w[0]) = 0 /\ 0 \in 0..n
    BY <1>1, EmptySeq
  <2>2. Len(w[0]) = Cardinality(UpTo(T, 0))
    BY <1>0, <2>1
  <2> QED  BY <2>1, <2>2
<1>3. ASSUME NEW m \in (0 + 1)..n, same[m - 1] \in D  PROVE same[m] \in D
  <2>1. m \in 1..n /\ m \in 0..n /\ m - 1 \in 0..n
    OBVIOUS
  <2>2. Len(w[m - 1]) = Cardinality(UpTo(T, m - 1))
    BY <1>3, <2>1
  <2>3. w[m] = w[m - 1] \o seqs[m] /\ w[m - 1] \in Seq({0})
    BY <1>1, <2>1 DEF Joined
  <2>4. seqs[m] \in Seq({0}) /\ Len(seqs[m]) = IF m \in T THEN 1 ELSE 0
    <3>1. Len(<< 0 >>) = 1 /\ Len(<<>>) = 0
      BY EmptySeq
    <3>2. seqs[m] \in Seq({0})
      BY <2>1, SeqFacts
    <3> QED  BY <2>1, <3>1, <3>2
  <2>5. PICK x \in Seq({0}), y \in Seq({0}) : x = w[m - 1] /\ y = seqs[m]
    BY <2>3, <2>4
  <2>6. Len(x \o y) = Len(x) + Len(y) /\ Len(x) \in Nat
    BY ConcatProperties, SeqFacts
  <2>7. Cardinality(UpTo(T, m)) =
          IF m \in T THEN Cardinality(UpTo(T, m - 1)) + 1 ELSE Cardinality(UpTo(T, m - 1))
    BY <1>0, <2>1
  <2>8. Len(w[m]) = Cardinality(UpTo(T, m))
    BY <2>2, <2>3, <2>4, <2>5, <2>6, <2>7
  <2> QED  BY <2>1, <2>8
<1>4. 0 \in Nat /\ 0 <= n /\ n \in 0..n
  OBVIOUS
<1>5. same[n] \in D
  <2> HIDE DEF same, D
  <2> QED  BY <1>2, <1>3, <1>4, Climbs
<1>6. Len(w[n]) = Cardinality(UpTo(T, n))
  BY <1>4, <1>5
<1> QED  BY <1>0, <1>1, <1>6

\* A directive is no link.
LEMMA DirectiveSays ==
  ASSUME NEW line \in AnyLine, isDirective(line)
  PROVE  ~ IsLink(Unmarked(line.words))
<1>1. PICK words \in Seq(Word) : words = line.words
  BY FieldsTyped
<1>2. words # <<>> /\ words[1] = "go:x"
  BY <1>1 DEF isDirective
<1>3. Len(words) \in Nat /\ Len(words) > 0 /\ DOMAIN words = 1..Len(words)
  BY <1>2, SeqFacts, EmptySeq
<1>4. 1 \in Unlike(words)
  BY <1>2, <1>3 DEF Unlike, Marks, Bullets, Numbers
<1>5. Min(Unlike(words)) = 1
  <2>1. Unlike(words) \subseteq 1..Len(words)
    BY <1>3 DEF Unlike
  <2>2. Unlike(words) # {}
    BY <1>4
  <2>3. PICK x \in 1..Len(words) : x = Min(Unlike(words)) /\ x <= 1
    BY <1>4, <2>1, <2>2, UnmarkedFound
  <2> QED  BY <2>3
<1>6. Unmarked(words) = SubSeq(words, 1, Len(words))
  BY <1>4, <1>5, UnmarkedFound
<1>7. SubSeq(words, 1, Len(words))[1] = words[1]
  BY <1>3
<1>8. SUFFICES ASSUME IsLink(Unmarked(words))  PROVE FALSE
  BY <1>1
<1>9. Unmarked(words)[1] = "[a]:"
  BY <1>8 DEF IsLink
<1> QED  BY <1>2, <1>6, <1>7, <1>9

LEMMA LinksRead ==
  ASSUME NEW c \in AnyComment
  PROVE  LinksIn(c) = Len(Read(TextOf(c), LinkBy))
<1>1. c.lines \in Seq(AnyLine)
  BY CommentFacts
<1>2. PICK n \in Nat : n = Len(c.lines) /\ DOMAIN c.lines = 1..n /\ \A k \in 1..n : c.lines[k] \in AnyLine
  BY <1>1, SeqFacts
<1> DEFINE T == {k \in DOMAIN c.lines : IsLink(Unmarked(c.lines[k].words))}
<1>3. T \subseteq 1..n
  BY <1>2
<1>4. EachLine(c, LinkBy) \in Seq(Seq({0})) /\ FlattenSeq(EachLine(c, LinkBy)) = Read(TextOf(c), LinkBy)
  BY LinkReader, TextRead
<1>5. Len(EachLine(c, LinkBy)) = n
  <2>1. DOMAIN EachLine(c, LinkBy) = 1..n
    BY <1>2 DEF EachLine
  <2>2. PICK m \in Nat : m = Len(EachLine(c, LinkBy)) /\ DOMAIN EachLine(c, LinkBy) = 1..m
    BY <1>4, SeqFacts
  <2>3. 1..n = 1..m => n = m
    <3>1. n > m => n \in 1..n /\ n \notin 1..m
      OBVIOUS
    <3>2. m > n => m \in 1..m /\ m \notin 1..n
      OBVIOUS
    <3> QED  BY <3>1, <3>2
  <2> QED  BY <2>1, <2>2, <2>3
<1>6. ASSUME NEW k \in 1..n
      PROVE  EachLine(c, LinkBy)[k] = IF k \in T THEN << 0 >> ELSE <<>>
  <2>1. Unmarked(c.lines[k].words) \in Seq(Word)
    BY <1>2, FieldsTyped, UnmarkedFound
  <2>2. LinkBy[Unmarked(c.lines[k].words)] = IF k \in T THEN << 0 >> ELSE <<>>
    BY <1>2, <2>1 DEF LinkBy
  <2>3. isDirective(c.lines[k]) => k \notin T
    BY <1>2, DirectiveSays
  <2>4. EachLine(c, LinkBy)[k] =
          IF c.style = "//" /\ isDirective(c.lines[k]) THEN <<>> ELSE LinkBy[Unmarked(c.lines[k].words)]
    BY <1>2 DEF EachLine
  <2> QED  BY <2>2, <2>3, <2>4
<1>7. LinksIn(c) = Cardinality(T)
  BY DEF LinksIn
<1> HIDE DEF T
<1>8. Len(FlattenSeq(EachLine(c, LinkBy))) = Cardinality(T)
  BY <1>3, <1>4, <1>5, <1>6, JoinedCount
<1> QED  BY <1>4, <1>7, <1>8

\* What gofumpt writes of a text is read as the text.
LEMMA PrintedReads ==
  ASSUME NEW X, NEW h, Reader(h, X), NEW c \in AnyComment, NEW text \in Seq(AnyLine),
         NEW ds \in Seq(AnyLine), \A k \in 1..Len(ds) : isDirective(ds[k])
  PROVE  Read(TextOf([c EXCEPT !.lines = Compose(c.style, text, ds)]), h) = Read(text, h)
<1>1. PICK all : all = Compose(c.style, text, ds)
  OBVIOUS
<1>2. PICK new : new = [c EXCEPT !.lines = all]
  OBVIOUS
<1>3. new.style = c.style /\ new.lines = all
  BY <1>2 DEF AnyComment
<1>4. c.style \in {"//", "/*"}
  BY CommentFacts
<1>5. CASE c.style = "/*"
  <2>1. PICK one \in Seq(AnyLine) : one = <<Blank>> /\ Len(one) = 1 /\ one[1] = Blank
    BY BlankTyped, SingleTyped
  <2>2. Read(one, h) = <<>>
    <3>1. \A k \in 1..Len(one) : k = 1
      BY <2>1
    <3>2. \A k \in 1..Len(one) : one[k].words = <<>>
      BY <2>1, <3>1, BlankTyped
    <3> QED  BY <3>2, ReadBlanks
  <2>3. PICK above \in Seq(AnyLine) : above = one \o text
    BY <2>1, ConcatProperties
  <2>4. TextOf(new) = above \o one
    BY <1>1, <1>3, <1>5, <2>1, <2>3 DEF TextOf, Compose
  <2>5. PICK r \in Seq(X) : r = Read(text, h)
    BY ReadTyped
  <2>6. <<>> \o r = r /\ r \o <<>> = r
    BY ConcatEmptySeq
  <2>7. Read(above, h) = r
    <3>1. Read(one \o text, h) = Read(one, h) \o Read(text, h)
      BY ReadConcat
    <3> QED  BY <2>2, <2>3, <2>5, <2>6, <3>1
  <2>8. Read(above \o one, h) = r
    <3>1. Read(above \o one, h) = Read(above, h) \o Read(one, h)
      BY ReadConcat
    <3> QED  BY <2>2, <2>6, <2>7, <3>1
  <2> QED  BY <1>1, <1>2, <2>4, <2>5, <2>8
<1>6. CASE c.style = "//"
  <2>1. PICK a \in Nat : LastAre(all, a, ds) /\ Slashed(all, text, a)
    BY <1>1, <1>6, ComposeSplit
  <2>2. PICK b \in Nat : b = Len(ds)
    BY SeqFacts
  <2>3. /\ all \in Seq(AnyLine) /\ Len(all) = a + b
        /\ \A k \in 1..a : ~ isDirective(all[k])
        /\ \A k \in 1..b : isDirective(all[a + k])
    BY <2>1, <2>2 DEF LastAre
  <2>4. DOMAIN all = 1..(a + b) /\ \A k \in 1..(a + b) : all[k] \in AnyLine
    BY <2>3, SeqFacts
  <2>5. DOMAIN all \ Directives(new) = 1..a
    <3>1. ASSUME NEW k \in 1..(a + b)  PROVE isDirective(all[k]) <=> ~ (k \in 1..a)
      <4>1. CASE k \in 1..a
        BY <2>3, <4>1
      <4>2. CASE ~ (k \in 1..a)
        <5>1. k - a \in 1..b /\ a + (k - a) = k
          BY <4>2
        <5> QED  BY <2>3, <4>2, <5>1
      <4> QED  BY <4>1, <4>2
    <3>2. 1..a \subseteq 1..(a + b)
      OBVIOUS
    <3> QED  BY <1>3, <2>4, <3>1, <3>2 DEF Directives
  <2>6. PICK above \in Seq(AnyLine) : above = [k \in 1..a |-> all[k]] /\ Len(above) = a
    <3> DEFINE f == [k \in 1..a |-> all[k]]
    <3>1. f \in [1..a -> AnyLine]
      BY <2>4
    <3> HIDE DEF f
    <3>2. f \in Seq(AnyLine) /\ Len(f) = a
      BY <3>1, FunctionIsSeq
    <3> QED  BY <3>2 DEF f
  <2>7. Select(all, 1..a) = above
    <3>1. /\ a \in Nat /\ all \in Seq(AnyLine) /\ above \in Seq(AnyLine) /\ Len(above) = a
          /\ \A k \in 1..a : all[k] = above[k]
      BY <2>3, <2>6
    <3> QED  BY ONLY <3>1, SelectFirst
  <2>8. TextOf(new) = [k \in 1..a |-> AfterSlashes(all[k])]
    <3>1. DOMAIN above = 1..a
      BY <2>6
    <3>2. Select(new.lines, DOMAIN new.lines \ Directives(new)) = above
      BY <1>3, <2>5, <2>7
    <3>3. TextOf(new) = [k \in 1..a |-> AfterSlashes(above[k])]
      BY <1>3, <1>6, <3>1, <3>2 DEF TextOf
    <3> QED  BY <2>6, <3>3
  <2>9. TextOf(new) \in [1..a -> AnyLine]
    <3>1. \A k \in 1..a : k \in 1..(a + b)
      OBVIOUS
    <3>2. \A k \in 1..a : AfterSlashes(all[k]) \in AnyLine
      BY <2>4, <3>1, SlashesTyped
    <3> QED  BY <2>8, <3>2
  <2>10. PICK out \in Seq(AnyLine) : out = TextOf(new) /\ Len(out) = a
    BY <2>9, FunctionIsSeq
  <2>11. PICK n \in Nat : n = Len(text)
    BY SeqFacts
  <2>12. /\ a = n \/ (a = n + 1 /\ all[a] = Blank)
         /\ \A k \in 1..n : all[k] = WithSlashes(text[k])
    BY <2>1, <2>11 DEF Slashed
  <2>13. ASSUME NEW k \in 1..n  PROVE out[k] = text[k]
    <3>1. text[k] \in AnyLine /\ k \in 1..a
      BY <2>11, <2>12, SeqFacts
    <3>2. AfterSlashes(WithSlashes(text[k])) = text[k]
      BY <3>1, SlashesUndone
    <3> QED  BY <2>8, <2>10, <2>12, <3>1, <3>2
  <2>14. \A k \in 1..Len(out) : k \in (0 + 1)..n \/ out[k].words = <<>>
    <3> SUFFICES ASSUME NEW k \in 1..a, ~ (k \in 1..n)  PROVE out[k].words = <<>>
      BY <2>10
    <3>1. k = a /\ all[a] = Blank
      BY <2>12
    <3>2. AfterSlashes(Blank) = Blank
      BY BlankTyped DEF AfterSlashes
    <3> QED  BY <2>8, <2>10, <3>1, <3>2, BlankTyped
  <2>15. Read(SubSeq(out, 0 + 1, n), h) = Read(out, h)
    <3>1. 0 \in Nat /\ 0 <= n /\ n <= Len(out)
      BY <2>10, <2>12
    <3> QED  BY <2>14, <3>1, ReadMiddle
  <2>16. SubSeq(out, 0 + 1, n) = text
    <3>1. 0 + 1 \in Nat \ {0} /\ n <= Len(out) /\ 0 + 1 = 1
      BY <2>10, <2>12
    <3>2. /\ SubSeq(out, 0 + 1, n) \in Seq(AnyLine)
          /\ Len(SubSeq(out, 0 + 1, n)) = IF 0 + 1 <= n THEN n - (0 + 1) + 1 ELSE 0
          /\ \A k \in 1..(n - (0 + 1) + 1) : SubSeq(out, 0 + 1, n)[k] = out[0 + 1 + k - 1]
      BY <3>1, SubSeqTyped
    <3>3. PICK part \in Seq(AnyLine) : part = SubSeq(out, 0 + 1, n) /\ Len(part) = n
      <4>1. (IF 0 + 1 <= n THEN n - (0 + 1) + 1 ELSE 0) = n
        OBVIOUS
      <4>2. Len(SubSeq(out, 0 + 1, n)) = n
        BY <3>2, <4>1
      <4> QED  BY <3>2, <4>2
    <3>4. ASSUME NEW k \in 1..n  PROVE part[k] = text[k]
      <4>1. k \in 1..(n - (0 + 1) + 1) /\ 0 + 1 + k - 1 = k
        OBVIOUS
      <4> QED  BY <2>13, <3>2, <3>3, <4>1
    <3> QED  BY <2>11, <3>3, <3>4, SeqEqual
  <2> QED  BY <1>1, <1>2, <2>10, <2>15, <2>16
<1> QED  BY <1>4, <1>5, <1>6

------------------------------------------------------------------------------
(* What a comment says is kept *)

\* When all is in spans no line that says something is in none.
LEMMA SpansAll ==
  ASSUME IInv, Finish
  PROVE  Spanned(lines, spans)
<1>1. PICK n \in Nat : n = Len(lines) /\ DOMAIN lines = 1..n
  BY SeqFacts DEF IInv, Typed, LinesTyped
<1>2. /\ spans \in Seq(SpanSet) /\ Upto(i) /\ i \in 0..n
      /\ \A k \in 2..Len(spans) : spans[k - 1].end < spans[k].start
  BY <1>1 DEF IInv, Covering, Progress
<1>3. DOMAIN spans = 1..Len(spans)
  BY <1>2, SeqFacts
<1>4. \A k \in 1..Len(spans) : spans[k].start \in 1..Len(lines) /\ spans[k].start <= spans[k].end /\ spans[k].end <= Len(lines)
  BY <1>3, SpansWithin DEF Within
<1>5. ASSUME NEW k \in (i + 1)..n  PROVE lines[k] = Blank
  <2> DEFINE said == {m \in (i + 1)..Len(lines) : lines[m] # Blank}
  <2>1. said \subseteq (i + 1)..n /\ i + 1 \in Int /\ n \in Int
    BY <1>1, <1>2
  <2>2. k \notin said => lines[k] = Blank
    BY <1>1, <1>5
  <2>3. Start = IF said = {} THEN Len(lines) + 1 ELSE Min(said)
    BY DEF Start
  <2>4. Start > Len(lines)
    BY DEF Finish
  <2> HIDE DEF said
  <2>5. said # {} => Min(said) \in (i + 1)..n
    BY <2>1, MinIn
  <2>6. said = {}
    BY <1>1, <2>3, <2>4, <2>5
  <2> QED  BY <2>2, <2>6
<1>6. ASSUME NEW k \in 1..Len(lines)
      PROVE  lines[k] = Blank \/ \E s \in 1..Len(spans) : k \in spans[s].start..spans[s].end
  <2>1. k \in (i + 1)..n \/ k <= i
    BY <1>1, <1>2
  <2> QED  BY <1>1, <1>2, <1>3, <1>5, <2>1 DEF Upto
<1> QED  BY <1>2, <1>4, <1>6 DEF Spanned

\* While it is parsed the lines are those of the text, and nothing said is lost.
TextInv ==
  /\ Said(comment) = Said(source)
  /\ LinksIn(comment) = LinksIn(source)
  /\ step = "parse" => lines = unindent(TextOf(comment))

\* What Finish makes of a comment is read as the comment.
LEMMA FinishReads ==
  ASSUME IInv, TextInv, Finish, NEW X, NEW h, Reader(h, X)
  PROVE  Read(TextOf(comment'), h) = Read(TextOf(comment), h)
<1>1. /\ lines \in Seq(AnyLine) /\ spans \in Seq(SpanSet) /\ comment \in AnyComment
      /\ directives \in Seq(AnyLine)
      /\ \A k \in 1..Len(directives) : isDirective(directives[k])
  BY DEF IInv, Typed, LinesTyped, Covering, Kept
<1>2. step = "parse" /\ lines = unindent(TextOf(comment))
  BY DEF Finish, TextInv
<1>3. \A k \in DOMAIN spans : Within(lines, spans[k])
  BY SpansWithin
<1>4. \A k \in DOMAIN spans : Kinded(lines, spans[k])
  BY DEF IInv, Headings
<1>5. PICK blocks \in Seq(BlockSet) : blocks = Blocks(lines, spans)
  BY <1>1, <1>3, BlocksTyped
<1>6. PICK text \in Seq(AnyLine) : text = Comment(blocks)
  BY <1>5, CommentTyped
<1>7. Read(text, h) = Read(lines, h)
  BY <1>1, <1>3, <1>4, <1>5, <1>6, SpansAll, ParseReads
<1>8. TextOf(comment) \in Seq(AnyLine)
  BY <1>1, TextTyped
<1>9. Read(lines, h) = Read(TextOf(comment), h)
  BY <1>2, <1>8, UnindentReads
<1>10. comment' = [comment EXCEPT !.lines = Compose(comment.style, text, directives)]
  BY <1>5, <1>6 DEF Finish
<1>11. Read(TextOf([comment EXCEPT !.lines = Compose(comment.style, text, directives)]), h) = Read(text, h)
  BY <1>1, PrintedReads
<1> QED  BY <1>7, <1>9, <1>10, <1>11

\* Each step keeps what the comment says.
LEMMA TextNext ==
  ASSUME IInv, TextInv, [Next]_vars
  PROVE  TextInv'
<1>1. CASE Extract
  BY <1>1 DEF Extract, TextInv
<1>2. CASE IndentedSpan
  BY <1>2 DEF IndentedSpan, TextInv
<1>3. CASE UnindentedSpan
  BY <1>3 DEF UnindentedSpan, TextInv
<1>4. CASE Finish
  <2>1. /\ comment \in AnyComment /\ comment' \in AnyComment
        /\ source' = source /\ step' = "done"
    BY <1>4, Finished DEF IInv, Typed, Finish
  <2>2. Said(comment') = Said(comment)
    <3>1. Read(TextOf(comment'), SaidBy) = Read(TextOf(comment), SaidBy)
      BY <1>4, SaidReader, FinishReads
    <3> QED  BY <2>1, <3>1, SaidRead
  <2>3. LinksIn(comment') = LinksIn(comment)
    <3>1. Read(TextOf(comment'), LinkBy) = Read(TextOf(comment), LinkBy)
      BY <1>4, LinkReader, FinishReads
    <3> QED  BY <2>1, <3>1, LinksRead
  <2> QED  BY <2>1, <2>2, <2>3 DEF TextInv
<1>5. CASE Again
  BY <1>5 DEF Again, TextInv
<1>6. CASE UNCHANGED vars
  BY <1>6 DEF vars, TextInv
<1> QED  BY <1>1, <1>2, <1>3, <1>4, <1>5, <1>6 DEF Next

\* Whatever comment gofumpt is given, what it makes of it says the same in the same
\* order, the marks of items and headings aside, and defines as many links, and so
\* does what it makes of that: whatever parseSpans and its heuristics take to be a
\* span, no line is lost, said twice or moved (parse.go:294-320, print.go:153-250,
\* comment.go:60-112).
THEOREM TextStays == Spec => []TextKept
<1>1. Init => TextInv
  BY DEF Init, TextInv
<1>2. IInv /\ TextInv /\ [Next]_vars => TextInv'
  BY TextNext
<1>3. TextInv => TextKept
  BY DEF TextInv, TextKept
<1> QED  BY <1>1, <1>2, <1>3, IInvHolds, PTL DEF Spec

===============================================================================
