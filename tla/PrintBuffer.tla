------------------------------ MODULE PrintBuffer ------------------------------
(***************************************************************************)
(* The printer of go/printer/printer.go as a value p, and what each of its *)
(* methods makes of it: the white space that is held back in wsbuf until   *)
(* the next token, the comments that go between the two, and the position  *)
(* in the source the printer believes it is at.                            *)
(*                                                                         *)
(* A byte of the output is a tuple: <<" ">>, <<"\t">>, ..., <<"tok", t>>   *)
(* for a token, and the characters of a line of a comment, all of them one *)
(* byte here.  What gofumpt does not use is left out: //line directives    *)
(* (SourcePos), comments set by the nodes, files of several names.         *)
(***************************************************************************)
EXTENDS CommentText, FiniteSets

CONSTANTS
  BaseIndent,  \* Config.Indent
  WsCap        \* the capacity of wsbuf

maxNewlines == 2
infinity == 1000000

\* whiteSpace, and the pmode flags
ignore   == ""
blank    == " "
vtab     == "vtab"
newline  == "\n"
formfeed == "\f"
indent   == ">"
unindent == "<"
Breaks   == {newline, formfeed}

Escape == <<"E">>
ILLEGAL == ""     \* token.ILLEGAL, as lastTok and prevOpen

NoPos == [off |-> 0, line |-> 0, col |-> 0]
NoComment == [lines |-> <<>>, pos |-> NoPos, end |-> NoPos, after |-> NoPos]

IsValid(pos) == pos.line > 0
At(off, line, col) == [off |-> off, line |-> line, col |-> col]

LineStyle(c) == c.lines[1][2] = "/"

nlimit(n) == IF n > maxNewlines THEN maxNewlines ELSE n

\* The number of bytes of a token: a raw string "raw" is two lines of one.
Width(t) == IF t = "raw" THEN 3 ELSE 1

ImpliesSemi(t) ==
  t \in {"x", "y", "raw", "break", "continue", "fallthrough", "return", "++", "--",
         ")", "]", "}"}

mayCombine(prev, next) ==
  \/ prev = "+" /\ next \in {"+", "++"}
  \/ prev = "-" /\ next \in {"-", "--"}
  \/ prev = "/" /\ next = "*"
  \/ prev = "<" /\ next \in {"-", "<"}
  \/ prev = "&" /\ next \in {"&", "^"}

------------------------------------------------------------------------------
(* The comments *)

commentsHaveNewline(list) ==
  \/ \E i \in DOMAIN list : list[i].pos.line # list[1].pos.line
  \/ \E i \in DOMAIN list : LineStyle(list[i]) \/ Len(list[i].lines) > 1

\* nextComment: the next group, its offset and whether it has newlines.
nextComment(p) ==
  IF p.cindex < Len(p.comments)
  THEN LET list == p.comments[p.cindex + 1]
       IN [p EXCEPT !.cindex = @ + 1, !.comment = list,
                    !.commentOffset = list[1].pos.off,
                    !.commentNewline = commentsHaveNewline(list)]
  ELSE [p EXCEPT !.commentOffset = infinity]

\* A bug: a comment with newlines goes where a newline is a semicolon.
commentBeforeAny(p, next) == p.commentOffset < next.off

commentBefore(p, next) ==
  p.commentOffset < next.off /\ (~p.impliedSemi \/ ~p.commentNewline)

\* newPrinter, and printNode for an *ast.File with these comments.
newPrinter(comments) ==
  nextComment(
    [output |-> <<>>, indent |-> 0, level |-> 0, mode |-> {}, endAlignment |-> FALSE,
     impliedSemi |-> FALSE, lastTok |-> ILLEGAL, prevOpen |-> ILLEGAL, wsbuf |-> <<>>,
     pos |-> At(0, 1, 1), out |-> At(0, 1, 1), last |-> NoPos,
     linePtr |-> 0, starts |-> <<>>, comments |-> comments,
     cindex |-> 0, comment |-> <<>>, commentOffset |-> infinity, commentNewline |-> FALSE])

------------------------------------------------------------------------------
(* Writing bytes *)

writeIndent(p) ==
  LET n == BaseIndent + p.indent
  IN [p EXCEPT !.output = @ \o [i \in 1..n |-> <<"\t">>],
               !.pos.off = @ + n, !.pos.col = @ + n, !.out.col = @ + n]

writeByte(p, ch, n) ==
  LET byte == IF ~p.endAlignment THEN ch
              ELSE IF ch \in Breaks THEN formfeed ELSE blank
      q == IF p.endAlignment /\ ch \in Breaks THEN [p EXCEPT !.endAlignment = FALSE] ELSE p
      r == IF q.out.col = 1 THEN writeIndent(q) ELSE q
      s == [r EXCEPT !.output = @ \o [i \in 1..n |-> <<byte>>], !.pos.off = @ + n]
  IN IF byte \in Breaks
     THEN [s EXCEPT !.pos.line = @ + n, !.out.line = @ + n, !.pos.col = 1, !.out.col = 1]
     ELSE [s EXCEPT !.pos.col = @ + n, !.out.col = @ + n]

\* writeString, of a text of so many bytes, and lines after the first.
writeString(p, pos, byte, width, nlines, isLit) ==
  LET q == IF p.out.col = 1 THEN writeIndent(p) ELSE p
      r == IF IsValid(pos) THEN [q EXCEPT !.pos = pos] ELSE q
      escape == IF isLit THEN <<Escape>> ELSE <<>>
      col(c) == IF nlines > 0 THEN 2 ELSE c + width
      s == [r EXCEPT !.output = @ \o escape \o <<byte>> \o escape,
                     !.endAlignment = @ \/ nlines > 0,
                     !.pos = At(@.off + width, @.line + nlines, col(@.col)),
                     !.out = At(0, @.line + nlines, col(@.col))]
  IN [s EXCEPT !.last = s.pos]

\* writeWhitespace of the entries ws.  A line break is swapped with the
\* "correcting" unindents that follow it.
RECURSIVE WriteEntries(_, _)
WriteEntries(p, ws) ==
  IF ws = <<>> THEN p
  ELSE LET ch == ws[1]
           rest == Tail(ws)
       IN IF ch = ignore THEN WriteEntries(p, rest)
          ELSE IF ch = indent THEN WriteEntries([p EXCEPT !.indent = @ + 1], rest)
          ELSE IF ch = unindent
               THEN WriteEntries([p EXCEPT !.indent = IF @ > 0 THEN @ - 1 ELSE 0], rest)
          ELSE IF ch \in Breaks /\ rest # <<>> /\ rest[1] = unindent
               THEN WriteEntries(p, <<unindent, formfeed>> \o Tail(rest))
          ELSE WriteEntries(writeByte(p, ch, 1), rest)

writeWhitespace(p, n) ==
  LET q == WriteEntries([p EXCEPT !.wsbuf = <<>>], SubSeq(p.wsbuf, 1, n))
  IN [q EXCEPT !.wsbuf = Drop(p.wsbuf, n)]

containsLinebreak(p) == \E i \in DOMAIN p.wsbuf : p.wsbuf[i] \in Breaks

------------------------------------------------------------------------------
(* Writing comments *)

\* A bug: the pending indentation is forgotten with the rest.
IgnoringAll(wsbuf, dropped, stop) ==
  [i \in DOMAIN wsbuf |-> IF i < stop THEN ignore ELSE wsbuf[i]]

\* The entries of wsbuf before place stop with those in dropped ignored.
Ignoring(wsbuf, dropped, stop) ==
  [i \in DOMAIN wsbuf |-> IF i < stop /\ wsbuf[i] \in dropped THEN ignore ELSE wsbuf[i]]

\* The first entry that Passes is not true of: the loops over wsbuf stop there.
StopAt(p, passes) ==
  CHOOSE i \in 1..(Len(p.wsbuf) + 1) :
    /\ \A k \in 1..(i - 1) : passes[k]
    /\ i <= Len(p.wsbuf) => ~passes[i]

\* Both loops leave j = 0 when they pass all of wsbuf.
Before(p, stop) == IF stop > Len(p.wsbuf) THEN 0 ELSE stop - 1

\* The comment is on the line of the last item: at least one separator.
PrefixSameLine(p, pos, next, first) ==
  LET stop == IF first
              THEN StopAt(p, [i \in DOMAIN p.wsbuf |-> p.wsbuf[i] \in {blank, vtab, indent}])
              ELSE 1
      hasSep == first /\ \E i \in 1..(stop - 1) : p.wsbuf[i] = vtab
      q == IF first
           THEN writeWhitespace([p EXCEPT !.wsbuf = Ignoring(@, {blank}, stop)], Before(p, stop))
           ELSE p
  IN IF hasSep THEN q ELSE writeByte(q, IF pos.line = next.line THEN blank ELSE "\t", 1)

\* The line breaks before a comment on another line: one more for the first of
\* the top level, after a line break that was pending.
BreaksBefore(p, pos, first, breaks, afterLine) ==
  LET apart == IF ~IsValid(p.last) \/ pos.line < p.last.line THEN 0
               ELSE pos.line - p.last.line
      docApart == IF p.indent = 0 /\ breaks /\ first THEN apart + 1 ELSE apart
      n == IF docApart = 0 /\ afterLine THEN 1 ELSE docApart
  IN IF n > 0 THEN writeByte(p, formfeed, nlimit(n)) ELSE p

\* The comment is on another line: pending indentation first, but an unindent
\* only if it is likely not part of the end of a block.
PrefixOtherLine(p, pos, next, prev, tok) ==
  LET passes == [i \in DOMAIN p.wsbuf |->
                   \/ p.wsbuf[i] \in {blank, vtab, indent}
                   \/ /\ p.wsbuf[i] = unindent
                      /\ \/ i < Len(p.wsbuf) /\ p.wsbuf[i + 1] = unindent
                         \/ tok # "}" /\ pos.col = next.col]
      stop == StopAt(p, passes)
      breaks == stop <= Len(p.wsbuf) /\ p.wsbuf[stop] \in Breaks
      ws == Ignoring(p.wsbuf, {blank, vtab}, stop)
      kept == IF breaks THEN SubSeq(ws, 1, stop - 1) \o <<ignore>> \o Drop(ws, stop) ELSE ws
  IN BreaksBefore(writeWhitespace([p EXCEPT !.wsbuf = kept], Before(p, stop)),
                  pos, prev = NoComment, breaks, prev # NoComment /\ LineStyle(prev))

writeCommentPrefix(p, pos, next, prev, tok) ==
  IF p.output = <<>> THEN p
  ELSE IF pos.line = p.last.line /\ (prev = NoComment \/ ~LineStyle(prev))
       THEN PrefixSameLine(p, pos, next, prev = NoComment)
       ELSE PrefixOtherLine(p, pos, next, prev, tok)

\* Line i of a comment, whose text is in lines.
WriteLine(p, c, lines, i) ==
  LET q == IF i = 1 THEN p ELSE writeByte(p, formfeed, 1)
  IN IF lines[i] = <<>> THEN q
     ELSE LET shown == trimRight(lines[i])
          IN writeString(q, IF i = 1 THEN c.pos ELSE q.pos, shown, Len(shown), 0, TRUE)

WriteLines(p, c, lines) ==
  Fold(LAMBDA q, i : WriteLine(q, c, lines, i), p, [i \in DOMAIN lines |-> i])

\* writeComment: line by line.  A comment of the first column that will be
\* indented gets three blanks, as if it had been before.
writeComment(p, c) ==
  WriteLines(p, c,
             stripCommonPrefix([i \in DOMAIN c.lines |->
                                  IF i > 1 /\ c.pos.col = 1 /\ p.indent > 0
                                  THEN <<" ", " ", " ">> \o c.lines[i] ELSE c.lines[i]]))

\* writeCommentSuffix keeps the indentation and at most one line break of
\* wsbuf, and makes sure of one if it is needed.
writeCommentSuffix(p, needsLinebreak) ==
  LET breaks == {i \in DOMAIN p.wsbuf : p.wsbuf[i] \in Breaks}
      keeps == {i \in breaks : needsLinebreak /\ \A k \in breaks : i <= k}
      kept == [i \in DOMAIN p.wsbuf |->
                 IF p.wsbuf[i] \in {indent, unindent} \/ i \in keeps THEN p.wsbuf[i] ELSE ignore]
      q == writeWhitespace([p EXCEPT !.wsbuf = kept], Len(kept))
      missing == needsLinebreak /\ breaks = {}
  IN [p |-> IF missing THEN writeByte(q, newline, 1) ELSE q,
      wroteNewline |-> needsLinebreak,
      droppedFF |-> \E i \in breaks \ keeps : p.wsbuf[i] = formfeed]

\* A bug: a blank is put where there is one.
SpacedAlways(line) == IF Len(line) > 2 THEN <<"/", "/", " ">> \o Drop(line, 2) ELSE line

\* formatDocComment, for a group that is one paragraph: a blank after //, the
\* ends of a /*-style comment on lines of their own unless all lines have stars.
\* Nothing of an empty comment is left.
Spaced(line) ==
  IF Len(line) > 2 /\ line[3] \notin White THEN <<"/", "/", " ">> \o Drop(line, 2) ELSE line

allStars(lines) ==
  \A i \in 2..Len(lines) :
    LET n == Span(lines[i], White) IN n < Len(lines[i]) /\ lines[i][n + 1] = "*"

Interior(lines) ==
  [i \in DOMAIN lines |->
     Drop(IF i < Len(lines) THEN lines[i] ELSE TrimSuffix(lines[i], Closing), IF i = 1 THEN 2 ELSE 0)]

formatDocComment(list) ==
  LET c == list[1]
      text == SelectSeq(Interior(c.lines), LAMBDA line : ~isBlank(line))
  IN IF LineStyle(c)
     THEN IF \E i \in DOMAIN list : ~LineStyle(list[i]) THEN list
          ELSE SelectSeq([i \in DOMAIN list |-> [list[i] EXCEPT !.lines = <<Spaced(@[1])>>]],
                         LAMBDA x : Len(x.lines[1]) > 2)
     ELSE IF Len(list) > 1 \/ Len(c.lines) = 1 \/ allStars(Interior(c.lines)) THEN list
     ELSE <<[c EXCEPT !.lines = <<<<"/", "*">>>> \o text \o <<Closing>>]>>

\* The comments of a group, each after its white space.
WriteGroup(p, list, next, last, tok) ==
  Fold(LAMBDA acc, c :
             [p |-> writeComment(writeCommentPrefix(acc.p, c.pos, next, acc.last, tok), c),
              last |-> c],
           [p |-> p, last |-> last], list)

\* What is between the last comment and the token tok.
AfterComments(p, next, last, tok) ==
  LET separate == /\ "noExtraBlank" \notin p.mode
                  /\ ~LineStyle(last)
                  /\ last.pos.line = next.line
                  /\ tok # ","
                  /\ tok = ")" => p.prevOpen = "("
                  /\ tok = "]" => p.prevOpen = "["
      breaks == containsLinebreak(p) /\ "noExtraLinebreak" \notin p.mode /\ p.level = 0
      q == IF separate /\ ~breaks THEN writeByte(p, blank, 1) ELSE p
      needsLinebreak == \/ separate /\ breaks
                        \/ LineStyle(last)
                        \/ tok = "EOF"
                        \/ tok = "}" /\ "noExtraLinebreak" \notin p.mode
  IN writeCommentSuffix(q, needsLinebreak)

\* After the group source: where it was in the source, if it was reformatted.
AfterGroup(w, source, doc) ==
  LET end == Last(source).end
  IN [p |-> nextComment(IF doc THEN [w.p EXCEPT !.pos = end, !.last = end] ELSE w.p),
      last |-> IF doc THEN Last(source) ELSE w.last]

\* Nothing of the group is left.
NoGroup(p, source, next, last, tok) ==
  LET q == writeCommentPrefix(p, source[1].pos, next, last, tok)
  IN writeCommentSuffix(nextComment([q EXCEPT !.pos = next, !.last = next]), FALSE)

RECURSIVE Intersperse(_, _, _, _)
Continue(g, next, tok) == Intersperse(g.p, next, g.last, tok)

\* The group source, that is printed as list.
IntersperseGroup(p, source, list, doc, next, last, tok) ==
  IF list = <<>> THEN NoGroup(p, source, next, last, tok)
  ELSE Continue(AfterGroup(WriteGroup(p, list, next, last, tok), source, doc), next, tok)

\* intersperseComments: all comments before the next token, one group at a time.
Intersperse(p, next, last, tok) ==
  IF ~commentBefore(p, next) THEN AfterComments(p, next, last, tok)
  ELSE LET source == p.comment
           doc == /\ p.lastTok # "import"
                  /\ source[1].pos.col = 1
                  /\ Last(source).after = next
       IN IntersperseGroup(p, source, IF doc THEN formatDocComment(source) ELSE source,
                           doc, next, last, tok)

\* A bug: at the end of the file only white space is left.
flushUnlessEOF(p, next, tok) ==
  IF tok # "EOF" /\ commentBefore(p, next) THEN Intersperse(p, next, NoComment, tok)
  ELSE [p |-> writeWhitespace(p, Len(p.wsbuf)), wroteNewline |-> FALSE, droppedFF |-> FALSE]

flush(p, next, tok) ==
  IF commentBefore(p, next) THEN Intersperse(p, next, NoComment, tok)
  ELSE [p |-> writeWhitespace(p, Len(p.wsbuf)), wroteNewline |-> FALSE, droppedFF |-> FALSE]

------------------------------------------------------------------------------
(* print, for each kind of argument *)

\* Record the previous opening token, whatever the argument is.
Opened(p) ==
  IF p.lastTok = ILLEGAL THEN p
  ELSE [p EXCEPT !.prevOpen = IF p.lastTok \in {"(", "["} THEN p.lastTok ELSE ILLEGAL]

PrintMode(p, m) == [Opened(p) EXCEPT !.mode = (@ \ m) \union (m \ @)]

PrintWhite(p, x) ==
  LET q == Opened(p)
      room == IF Len(q.wsbuf) = WsCap THEN writeWhitespace(q, WsCap) ELSE q
  IN IF x = ignore THEN q
     ELSE [room EXCEPT !.wsbuf = Append(@, x),
                       !.impliedSemi = @ /\ x \notin Breaks,
                       !.lastTok = ILLEGAL]

\* The token itself, after n line breaks.
WriteToken(p, next, t, n) ==
  LET s == IF p.linePtr = 0 THEN p
           ELSE [p EXCEPT !.starts[p.linePtr] = p.out.line, !.linePtr = 0]
  IN [writeString(s, next, <<"tok", t>>, Width(t), IF t = "raw" THEN 1 ELSE 0, t = "raw")
        EXCEPT !.impliedSemi = ImpliesSemi(t) /\ n <= 0]

\* The line breaks of the source that flush f left to write before a token.
BreakLines(f, next, t) ==
  LET lines == nlimit(next.line - f.p.pos.line)
      n == IF f.p.impliedSemi THEN 0
           ELSE IF f.wroteNewline /\ lines = maxNewlines THEN maxNewlines - 1
           ELSE lines
  IN WriteToken(IF n > 0 THEN writeByte(f.p, IF f.droppedFF THEN formfeed ELSE newline, n) ELSE f.p,
                next, t, n)

PrintToken(p, t) ==
  LET o == Opened(p)
      q == [o EXCEPT !.lastTok = t,
                     !.wsbuf = IF mayCombine(o.lastTok, t) THEN <<blank>> ELSE @]
  IN BreakLines(flush(q, q.pos, t), q.pos, t)

setPos(p, pos) == IF IsValid(pos) THEN [p EXCEPT !.pos = pos] ELSE p

================================================================================
