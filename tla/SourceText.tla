------------------------------- MODULE SourceText -------------------------------
(***************************************************************************)
(* A Go file as go/scanner and go/parser see it, for the printer: which    *)
(* position a token has, which comments are a group, and where a newline   *)
(* is a semicolon.  A text is a sequence of bytes as in PrintBuffer, with  *)
(* neither escapes nor alignment.                                          *)
(***************************************************************************)
EXTENDS PrintBuffer

Space == {<<" ">>, <<"\t">>, <<"\n">>}
IsTok(byte) == byte[1] = "tok"

\* One byte of the text: a token, white space, or (a line of) a comment.
ScanByte(s, byte) ==
  LET nl == byte = <<"\n">>
      width == IF IsTok(byte) THEN Width(byte[2]) ELSE Len(byte)
      raw == byte = <<"tok", "raw">>
      here == At(s.off, s.line, s.col)
      next == IF nl THEN At(s.off + 1, s.line + 1, 1)
              ELSE IF raw THEN At(s.off + width, s.line + 1, 2)
              ELSE At(s.off + width, s.line, s.col + width)
      moved == [s EXCEPT !.off = next.off, !.line = next.line, !.col = next.col,
                         !.broken = @ \/ nl, !.spaced = byte \in Space]
      n == Len(s.groups)
      after == At(next.off + 1, next.line, next.col + 1)
      new == [lines |-> <<byte>>, pos |-> here, end |-> next, after |-> after]
      sameLine == s.toks # <<>> /\ Last(s.toks).pos.line = s.line
      joins == /\ n > 0 /\ s.groups[n].at = Len(s.toks)
               /\ s.line <= Last(s.groups[n].list).end.line + (IF s.groups[n].same THEN 0 ELSE 1)
      isOpen == s.open /\ ~nl /\ ~Closes(byte)
  IN IF s.open
     THEN LET c == Last(s.groups[n].list)
              k == Len(c.lines)
              lines == IF nl THEN Append(c.lines, <<>>) ELSE [c.lines EXCEPT ![k] = @ \o byte]
              list == Append(Front(s.groups[n].list),
                             [c EXCEPT !.lines = lines, !.end = next, !.after = after])
          IN [moved EXCEPT !.groups[n].list = list, !.open = ~Closes(byte)]
     ELSE IF IsTok(byte)
     THEN [moved EXCEPT !.toks = Append(@, [t |-> byte[2], pos |-> here, broken |-> s.broken,
                                            glued |-> ~s.spaced]),
                        !.broken = FALSE]
     ELSE IF byte \in Space
     THEN IF nl /\ n > 0 /\ Last(s.groups[n].list).end = here
          THEN LET list == s.groups[n].list
                   c == [Last(list) EXCEPT !.after = next]
               IN [moved EXCEPT !.groups[n].list = Append(Front(list), c)]
          ELSE moved
     ELSE LET open == byte[2] = "*" /\ ~Closes(byte)
          IN [moved EXCEPT !.open = open, !.broken = @ \/ open \/ byte[2] = "/",
                           !.groups = IF joins
                                      THEN [@ EXCEPT ![n].list = Append(@, new)]
                                      ELSE Append(@, [list |-> <<new>>, at |-> Len(s.toks),
                                                      same |-> sameLine])]

ScanAll(text) ==
  Fold(ScanByte,
           [toks |-> <<>>, groups |-> <<>>, off |-> 0, line |-> 1, col |-> 1,
            open |-> FALSE, broken |-> FALSE, spaced |-> TRUE], text)

\* Tokens the printer has no position for.
Separators == {",", ";", ".", "=", "else", "range"}

\* What the syntax tree has positions of: all tokens but commas and semicolons;
\* and the comments, with the number of those tokens before each group.
Scan(text) ==
  LET all == ScanAll(text)
      places == SelectSeq([i \in DOMAIN all.toks |-> i],
                          LAMBDA i : all.toks[i].t \notin Separators)
      before(k) == Len(SelectSeq(SubSeq(all.toks, 1, k), LAMBDA x : x.t \notin Separators))
  IN [toks |-> [i \in DOMAIN places |-> all.toks[places[i]]],
      groups |-> [g \in DOMAIN all.groups |->
                    [all.groups[g] EXCEPT !.at = before(@)]],
      line |-> all.line]

\* The tokens with the semicolons of the grammar, but for what it makes
\* optional: a semicolon before the } of a block, a comma before another one.
Code(text, blockEnds) ==
  LET toks == ScanAll(text).toks \o <<[t |-> "EOF", pos |-> NoPos, broken |-> TRUE, glued |-> FALSE]>>
      Add(s, i) ==
        LET tok == toks[i]
            prev == IF i = 1 THEN "" ELSE toks[i - 1].t
            semi == tok.broken /\ ImpliesSemi(prev)
            n == s.n + 1
            ends == tok.t = "}" /\ n \in blockEnds
            drop == \/ prev = ";" /\ ends
                    \/ prev = "," /\ ~semi /\ tok.t \in {")", "}"} /\ ~ends
            kept == IF drop THEN Front(s.code) ELSE s.code
            glued == IF i > 1 /\ tok.glued /\ mayCombine(prev, tok.t) THEN <<"glue">> ELSE <<>>
        IN [n |-> IF tok.t \in Separators THEN s.n ELSE n,
            code |-> kept \o (IF semi /\ ~ends THEN <<";">> ELSE <<>>) \o glued \o <<tok.t>>]
  IN Fold(Add, [n |-> 0, code |-> <<>>], [i \in DOMAIN toks |-> i]).code

\* The comments: what they say, and the number of tokens before each.
Comments(text) ==
  LET groups == Scan(text).groups
      Says(c) == SelectSeq(FlattenSeq(c.lines), LAMBDA x : x \notin White)
  IN FlattenSeq([g \in DOMAIN groups |->
       [c \in DOMAIN groups[g].list |->
          [at |-> groups[g].at, text |-> Says(groups[g].list[c])]]])

\* The comment group that is the documentation of what starts with token i, and
\* the one at the end of the line of token i, as go/parser finds them.
HasDoc(S, i) ==
  \E g \in DOMAIN S.groups :
    /\ S.groups[g].at = i - 1
    /\ ~S.groups[g].same
    /\ Last(S.groups[g].list).end.line + 1 = S.toks[i].pos.line

HasLineComment(S, i) ==
  \E g \in DOMAIN S.groups :
    /\ S.groups[g].at = i
    /\ S.groups[g].same
    /\ i < Len(S.toks) => S.toks[i + 1].pos.line # Last(S.groups[g].list).end.line

================================================================================
