------------------------------ MODULE CommentText ------------------------------
(***************************************************************************)
(* The text of a comment: how the lines of a /*-style comment are moved to *)
(* the column they are printed in (go/printer/printer.go, stripCommonPrefix *)
(* and what it uses).  A line is a sequence of characters: " ", "\t", "*", *)
(* "/", and letters, for any other.                                        *)
(***************************************************************************)
EXTENDS Integers, Sequences, SequencesExt

\* FoldLeft, by halves and with what is folded so far evaluated first: TLC would
\* recurse along the whole sequence, and evaluates an argument where it is used.
Fold(op(_, _), base, seq) ==
  LET RECURSIVE Part(_, _, _)
      Part(acc, lo, hi) ==
        IF lo > hi THEN acc
        ELSE IF lo = hi THEN op(acc, seq[lo])
        ELSE LET mid == (lo + hi) \div 2
             IN CHOOSE all \in {Part(half, mid + 1, hi) : half \in {Part(acc, lo, mid)}} : TRUE
  IN CHOOSE all \in {Part(start, 1, Len(seq)) : start \in {base}} : TRUE

White == {" ", "\t"}

isBlank(s) == \A i \in DOMAIN s : s[i] \in White

\* The length of the longest start of s made of characters in chars.
Span(s, chars) ==
  CHOOSE n \in 0..Len(s) :
    /\ \A i \in 1..n : s[i] \in chars
    /\ n < Len(s) => s[n + 1] \notin chars

Drop(s, n) == SubSeq(s, n + 1, Len(s))

commonPrefix(a, b) ==
  LET both == LongestCommonPrefix({a, b})
  IN SubSeq(both, 1, Span(both, White \union {"*"}))

TrimSuffix(s, suffix) ==
  IF IsSuffix(suffix, s) THEN SubSeq(s, 1, Len(s) - Len(suffix)) ELSE s

trimRight(s) == SubSeq(s, 1, Len(s) - Span(Reverse(s), White))

Closing == <<"*", "/">>

Closes(line) == IsSuffix(Closing, line)

\* The white prefix of all but the first, last and blank lines, or of the last
\* if there is none.
LinesPrefix(lines) ==
  LET n == Len(lines)
      inner == SelectSeq(SubSeq(lines, 2, n - 1), LAMBDA line : ~isBlank(line))
  IN IF inner = <<>>
     THEN commonPrefix(lines[n], lines[n])
     ELSE Fold(commonPrefix, commonPrefix(inner[1], inner[1]), inner)

\* What to take from a prefix without stars, for what follows the /* of the
\* first line: the text there is as far right as that of the other lines.
AsFirstLine(prefix, first) ==
  LET rest == Drop(first, 2)
      space == SubSeq(rest, 1, Span(rest, White))
      blanks == Span(Reverse(prefix), {" "})
  IN IF ~isBlank(rest)
     THEN TrimSuffix(prefix, IF space # <<>> /\ space[1] = "\t"
                             THEN space ELSE <<" ", " ">> \o space)
     ELSE IF blanks > 0
          THEN SubSeq(prefix, 1, Len(prefix) - (IF blanks > 3 THEN 3 ELSE blanks))
          ELSE TrimSuffix(prefix, <<"\t">>)

\* The lines without what the prefix and a closing */ of its own make common.
Stripped(lines, prefix, stars) ==
  LET n == Len(lines)
      alone == isBlank(SubSeq(lines[n], 1, Len(lines[n]) - 2))
      end == IF alone THEN prefix \o (IF stars THEN <<" ">> ELSE <<>>) \o Closing ELSE lines[n]
      cut == Len(IF alone THEN prefix ELSE commonPrefix(prefix, lines[n]))
  IN [i \in 1..n |->
        IF i = 1 THEN lines[1]
        ELSE IF i < n /\ isBlank(lines[i]) THEN <<>>
        ELSE Drop(IF i = n THEN end ELSE lines[i], cut)]

StripOf(lines, common, stars) ==
  Stripped(lines,
           IF stars THEN TrimSuffix(SubSeq(common, 1, Span(common, White)), <<" ">>)
           ELSE AsFirstLine(common, lines[1]),
           stars)

\* stripCommonPrefix takes the white space the lines have in common from all
\* but the first, and aligns a closing */ that is on its own.
stripCommonPrefix(lines) ==
  IF Len(lines) <= 1 THEN lines
  ELSE LET common == LinesPrefix(lines) IN StripOf(lines, common, Contains(common, "*"))

================================================================================
