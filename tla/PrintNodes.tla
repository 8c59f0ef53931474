------------------------------- MODULE PrintNodes -------------------------------
(***************************************************************************)
(* The part of go/printer/nodes.go that hands a file to the printer: files, *)
(* declarations, statements and expressions as what they do to a printer p. *)
(* S is the scanned source.  A node names the tokens it is made of by their *)
(* number in S.toks: at is its first one and to its last.  Sizes in columns *)
(* are left out: all that is modelled is small enough for one line.        *)
(***************************************************************************)
EXTENDS SourceText

Pos(S, i)     == IF i = 0 THEN NoPos ELSE S.toks[i].pos
LineOf(S, i)  == Pos(S, i).line
EndLine(S, i) == S.toks[i].pos.line + (IF S.toks[i].t = "raw" THEN 1 ELSE 0)

RECURSIVE print(_, _)

Toggle(p, m) == print(p, [arg |-> "mode", x |-> m])
White1(p, x) == print(p, [arg |-> "white", x |-> x])
Whites(p, xs) == Fold(White1, p, xs)

\* TLC evaluates an argument where it is used, however deep that is: an element
\* of a set it evaluates first.
Token(printer, t) ==
  CHOOSE q \in {print(p, [arg |-> "token", x |-> t]) : p \in {printer}} : TRUE

expr1(p, S, e, prec, depth) ==
  print(p, [arg |-> "expr", source |-> S, x |-> e, prec |-> prec, depth |-> depth])
exprList(p, S, prev, list, depth, mode, next) ==
  print(p, [arg |-> "exprs", source |-> S, prev |-> prev, x |-> list, depth |-> depth,
            mode |-> mode, next |-> next])
stmt(p, S, s, nextIsRBrace) ==
  print(p, [arg |-> "stmt", source |-> S, x |-> s, last |-> nextIsRBrace])

\* p.setPos of a token, and p.print of it.
Put(p, S, i) == Token(setPos(p, Pos(S, i)), S.toks[i].t)

\* How many line breaks linebreak prints.
Wanted(p, line, min) ==
  LET n == nlimit(line - p.pos.line) IN IF n > min THEN n ELSE min

linebreak(p, line, min, ws, newSection) ==
  LET n == Wanted(p, line, min)
  IN IF n <= 0 THEN p
     ELSE Whites(p, <<ws, IF newSection THEN formfeed ELSE newline>>
                    \o [k \in 1..(n - 1) |-> newline])

\* recordLine for a variable of its own, the last of starts, and the printer
\* without it once the line is known; n is the number of variables before it.
recordLine(p) == [p EXCEPT !.starts = Append(@, 0), !.linePtr = Len(p.starts) + 1]
Recorded(p, n) == [p |-> [p EXCEPT !.starts = SubSeq(@, 1, n)], line |-> p.starts[n + 1]]

------------------------------------------------------------------------------
(* Expressions *)

Precedence(t) ==
  CASE t \in {"*", "/", "%", "<<", "&", "&^"} -> 5
    [] t \in {"+", "-", "|", "^"} -> 4
    [] t \in {"==", "<"} -> 3
    [] t = "&&" -> 2
    [] t = "||" -> 1

Op(S, e) == S.toks[e.op].t
Prec(S, e) == Precedence(Op(S, e))
IsBinary(e) == e.kind = "binary"

\* walkBinary: whether e has operators of precedence 4 and of 5, and the worst
\* clash of an operator with the unary one on its right.
RECURSIVE walkBinary(_, _)
walkBinary(S, e) ==
  LET prec == Prec(S, e)
      none == [has4 |-> FALSE, has5 |-> FALSE, problem |-> 0]
      l == IF IsBinary(e.x) /\ Prec(S, e.x) >= prec THEN walkBinary(S, e.x) ELSE none
      r == IF IsBinary(e.y) /\ Prec(S, e.y) > prec THEN walkBinary(S, e.y) ELSE none
      clash == IF e.y.kind # "unary" THEN 0
               ELSE CASE <<Op(S, e), Op(S, e.y)>> \in
                           {<<"/", "*">>, <<"&", "&">>, <<"&", "^">>} -> 5
                      [] <<Op(S, e), Op(S, e.y)>> \in {<<"+", "+">>, <<"-", "-">>} -> 4
                      [] OTHER -> 0
  IN [has4 |-> prec = 4 \/ l.has4 \/ r.has4,
      has5 |-> prec = 5 \/ l.has5 \/ r.has5,
      problem |-> Max({l.problem, r.problem, clash})]

cutoff(S, e, depth) ==
  LET w == walkBinary(S, e)
  IN IF w.problem > 0 THEN w.problem + 1
     ELSE IF w.has4 /\ w.has5 THEN (IF depth = 1 THEN 5 ELSE 4)
     ELSE IF depth = 1 THEN 6 ELSE 4

diffPrec(S, e, prec) == IF IsBinary(e) /\ Prec(S, e) = prec THEN 0 ELSE 1

reduceDepth(depth) == IF depth > 1 THEN depth - 1 ELSE 1

\* Whether nodeSize finds that e is printed on one line.
OneLine(S, e) ==
  /\ LineOf(S, e.at) = EndLine(S, e.to)
  /\ \A i \in e.at..e.to : S.toks[i].t # "raw"

SimpleBlock(S, b) ==
  /\ LineOf(S, b.open) = LineOf(S, b.to)
  /\ Len(b.list) <= 5
  /\ \A i \in DOMAIN b.list : b.list[i].kind \in {"expr", "return", "assign", "incdec"}

expr0(p, S, e, depth) == expr1(p, S, e, 0, depth)
expr(p, S, e) == expr1(p, S, e, 0, 1)

\* The operator goes on the line of its left side; a line break after it is
\* kept, and indents the right side.
binaryExpr(p, S, e, limit, depth) ==
  LET prec == Prec(S, e)
      Blank(q) == IF prec < limit THEN White1(q, blank) ELSE q
      left == Blank(expr1(p, S, e.x, prec, depth + diffPrec(S, e.x, prec)))
      operator == Put(left, S, e.op)
      yline == LineOf(S, e.y.at)
      broken == left.pos.line # yline
      right == expr1(IF broken THEN linebreak(operator, yline, 1, indent, TRUE)
                     ELSE Blank(operator),
                     S, e.y, prec + 1, depth + 1)
  IN IF broken THEN White1(right, unindent) ELSE right

\* The period has no position of its own.  A method keeps its indentation for
\* the arguments of its call.
SelectorBreaks(S, e, p) == p.pos.line < LineOf(S, e.to)
selectorExpr(p, S, e, depth, isMethod) ==
  LET period == Token(expr1(p, S, e.x, 7, depth), ".")
      breaks == SelectorBreaks(S, e, period)
      sel == Put(IF breaks THEN Whites(period, <<indent, newline>>) ELSE period, S, e.to)
  IN [p |-> IF breaks /\ ~isMethod THEN White1(sel, unindent) ELSE sel, indented |-> breaks]

possibleSelectorExpr(p, S, e, depth) ==
  IF e.kind = "selector" THEN selectorExpr(p, S, e, depth, TRUE)
  ELSE [p |-> expr1(p, S, e, 7, depth), indented |-> FALSE]

callExpr(p, S, e, depth) ==
  LET d == IF Len(e.args) > 1 THEN depth + 1 ELSE depth
      fun == possibleSelectorExpr(p, S, e.fun, d)
      args == exprList(Put(fun.p, S, e.open), S, Pos(S, e.open), e.args, d, {"commaTerm"}, Pos(S, e.to))
      call == Put(args, S, e.to)
  IN IF fun.indented THEN White1(call, unindent) ELSE call

compositeLit(p, S, e, depth) ==
  LET type == expr1(p, S, e.fun, 7, depth)
      open == Put([type EXCEPT !.level = @ + 1], S, e.open)
      elts == exprList(open, S, Pos(S, e.open), e.args, 1, {"commaTerm"}, Pos(S, e.to))
      mode == {"noExtraLinebreak"} \union (IF e.args = <<>> THEN {} ELSE {"noExtraBlank"})
      close == Put(Toggle(Whites(elts, <<indent, unindent>>), mode), S, e.to)
  IN [Toggle(close, mode) EXCEPT !.level = @ - 1]

keyValueExpr(p, S, e, sep) ==
  expr(White1(Put(expr(p, S, e.key), S, e.colon), sep), S, e.value)

\* The line break or blank before a parameter, after its comma.
BeforeParameter(p, S, f, first, acc) ==
  LET line == LineOf(S, f.at)
      breaks == acc.prevLine < line /\ Wanted(p, line, 0) > 0
  IN [p |-> IF breaks THEN linebreak(p, line, 0, acc.ws, TRUE)
            ELSE IF first THEN p ELSE White1(p, blank),
      ws |-> IF breaks THEN ignore ELSE acc.ws]

\* Its names and type.
NamesAndType(p, S, f, ws) ==
  LET mode == IF ws = indent THEN {} ELSE {"noIndent"}
  IN expr(IF f.names = <<>> THEN p
          ELSE White1(exprList(p, S, NoPos, f.names, 1, mode, NoPos), blank), S, f.type)

\* One parameter: the comma before it, the line break or blank, names and type.
Parameter(acc, S, f, first) ==
  LET broken == acc.prevLine < LineOf(S, f.at)
      comma == IF first THEN acc.p
               ELSE Token(IF broken THEN acc.p ELSE setPos(acc.p, Pos(S, f.at)), ",")
      sep == BeforeParameter(comma, S, f, first, acc)
  IN [p |-> NamesAndType(sep.p, S, f, sep.ws), ws |-> sep.ws, prevLine |-> EndLine(S, f.to)]

AfterParameters(end, S, fields) ==
  LET closing == LineOf(S, fields.to)
      comma == IF fields.list # <<>> /\ end.prevLine < closing
               THEN linebreak(Token(end.p, ","), closing, 0, ignore, TRUE)
               ELSE end.p
  IN Put(IF end.ws = ignore THEN White1(comma, unindent) ELSE comma, S, fields.to)

parameters(p, S, fields) ==
  AfterParameters(Fold(LAMBDA acc, f : Parameter(acc, S, f, f = fields.list[1]),
                       [p |-> Put(p, S, fields.at), ws |-> indent, prevLine |-> LineOf(S, fields.at)],
                       fields.list),
                  S, fields)

signature(p, S, sig) ==
  LET params == parameters(p, S, sig.params)
  IN IF sig.results = <<>> THEN params
     ELSE LET r == sig.results[1]
              q == White1(params, blank)
          IN IF Len(r.list) = 1 /\ r.list[1].names = <<>> THEN expr(q, S, r.list[1].type)
             ELSE parameters(q, S, r)

\* A field: what is after the names, and before the comment of the line, is
\* aligned.
FieldText(p, S, fields, f) ==
  LET sep == IF Len(fields.list) = 1 THEN blank ELSE vtab
      named == f.names # <<>>
      names == IF named THEN exprList(p, S, NoPos, f.names, 1, {"noIndent"}, NoPos) ELSE p
      tabs == IF fields.kind = "interface" \/ ~HasLineComment(S, f.to) THEN 0
              ELSE IF named THEN 1 ELSE 2
  IN Whites(IF fields.kind = "interface" /\ named THEN signature(names, S, f.type)
            ELSE expr(IF named THEN White1(names, sep) ELSE names, S, f.type),
            [k \in 1..tabs |-> sep])

Field(acc, S, fields, i) ==
  LET f == fields.list[i]
      start == IF i = 1 THEN acc.p
               ELSE linebreak(acc.p, LineOf(S, f.at), 1, ignore, acc.p.out.line > acc.line)
  IN Recorded(FieldText(recordLine(start), S, fields, f), Len(acc.p.starts))

\* A block of one field on one line.
OneField(p, S, fields, f) ==
  LET open == White1(Put(p, S, fields.open), blank)
      name == IF f.names = <<>> THEN open ELSE expr(open, S, f.names[1])
      one == IF fields.kind = "interface" /\ f.names # <<>> THEN signature(name, S, f.type)
             ELSE expr(IF f.names = <<>> THEN name ELSE White1(name, blank), S, f.type)
  IN Put(White1(one, blank), S, fields.to)

AllFields(p, S, fields, hasComments) ==
  LET open == White1(Put(White1(p, blank), S, fields.open), indent)
      start == IF hasComments \/ fields.list # <<>> THEN White1(open, formfeed) ELSE open
      end == Fold(LAMBDA acc, i : Field(acc, S, fields, i), [p |-> start, line |-> 0],
                  [i \in DOMAIN fields.list |-> i])
  IN Put(Whites(end.p, <<unindent, formfeed>>), S, fields.to)

fieldList(p, S, fields) ==
  LET hasComments == commentBefore(p, Pos(S, fields.to))
      f == fields.list[1]
      short == ~hasComments /\ LineOf(S, fields.open) = LineOf(S, fields.to)
      oneLine == Len(fields.list) = 1 /\ ~HasLineComment(S, f.to) /\ OneLine(S, f.type)
  IN IF short /\ fields.list = <<>> THEN Put(Put(p, S, fields.open), S, fields.to)
     ELSE IF short /\ oneLine THEN OneField(p, S, fields, f)
     ELSE AllFields(p, S, fields, hasComments)

stmtList(p, S, list, nindent, nextIsRBrace) ==
  LET Next1(acc, i) ==
        LET s == list[i]
            b == linebreak(acc.p, LineOf(S, s.at), 1, ignore,
                           i = 1 \/ nindent = 0 \/ acc.p.out.line > acc.line)
            q == stmt(recordLine(b), S, s, nextIsRBrace /\ i = Len(list))
        IN [Recorded(q, Len(acc.p.starts)) EXCEPT !.line = @ + (IF s.kind = "labeled" THEN 1 ELSE 0)]
      Indented(q, ch) == IF nindent > 0 THEN White1(q, ch) ELSE q
  IN Indented(Fold(Next1, [p |-> Indented(p, indent), line |-> 0],
                   [i \in DOMAIN list |-> i]).p, unindent)

block(p, S, b, nindent) ==
  LET body == stmtList(Put(p, S, b.open), S, b.list, nindent, TRUE)
  IN Put(linebreak(body, LineOf(S, b.to), 1, ignore, TRUE), S, b.to)

\* The body of a function with the level of literals of its own.
funcBody(p, S, b, header, sep) ==
  LET q == [p EXCEPT !.level = 0]
      Next1(r, i) ==
        stmt(IF i = 1 THEN r ELSE White1(Token(r, ";"), blank), S, b.list[i], i = Len(b.list))
      open == Put(White1(q, sep), S, b.open)
      body == IF b.list = <<>> THEN open
              ELSE White1(Fold(Next1, White1(open, blank), [i \in DOMAIN b.list |-> i]), blank)
      mode == {"noExtraLinebreak"}
      small == LineOf(S, header) = p.pos.line /\ SimpleBlock(S, b)
      end == IF small THEN Toggle(Put(Toggle(body, mode), S, b.to), mode)
             ELSE block(White1(q, blank), S, b, 1)
  IN [end EXCEPT !.level = p.level]

funcLit(p, S, e) == funcBody(signature(Put(p, S, e.at), S, e.sig), S, e.body, e.at, blank)

Expr1(p, S, e, prec, depth) ==
  LET q == setPos(p, Pos(S, e.at))
  IN CASE e.kind = "basic" -> Put(q, S, e.at)
       [] e.kind = "binary" -> binaryExpr(q, S, e, cutoff(S, e, depth), depth)
       [] e.kind = "keyvalue" -> keyValueExpr(q, S, e, blank)
       [] e.kind = "star" -> expr(Put(q, S, e.at), S, e.x)
       [] e.kind = "unary" -> expr1(Put(q, S, e.op), S, e.x, 6, depth)
       [] e.kind = "funclit" -> funcLit(q, S, e)
       [] e.kind = "paren" ->
            Put(expr0(Put(q, S, e.at), S, e.x, reduceDepth(depth)), S, e.to)
       [] e.kind = "selector" -> selectorExpr(q, S, e, depth, FALSE).p
       [] e.kind = "index" ->
            Put(expr0(Put(expr1(q, S, e.x, 7, 1), S, e.open), S, e.index, depth + 1), S, e.to)
       [] e.kind = "call" -> callExpr(q, S, e, depth)
       [] e.kind = "lit" -> compositeLit(q, S, e, depth)
       [] e.kind \in {"struct", "interface"} -> fieldList(Put(q, S, e.at), S, e)

\* An element, on a line of its own or after a blank.
AfterComma(comma, acc, S, list, i, depth, small, breaking) ==
  LET line == LineOf(S, list[i].at)
      broke == i > 1 /\ breaking /\ Wanted(comma, line, 0) > 0
      newSection == ~(acc.small /\ small) \/ acc.prevBreak + 1 < i
      before == IF i = 1 THEN comma
                ELSE IF broke THEN linebreak(comma, line, 0, acc.ws, newSection)
                ELSE White1(comma, blank)
      alone == Len(list) > 1 /\ list[i].kind = "keyvalue" /\ small /\ breaking
  IN [p |-> IF alone THEN keyValueExpr(before, S, list[i], vtab)
            ELSE expr0(before, S, list[i], depth),
      ws |-> IF broke THEN ignore ELSE acc.ws,
      prevBreak |-> IF broke THEN i ELSE acc.prevBreak,
      prevLine |-> line,
      small |-> small]

\* Element i of a list over several lines: acc has the printer, the white space
\* of the next line break, the last element a break followed, the previous
\* line, and whether the element before fits on a line.
ListElement(acc, S, list, i, depth, known) ==
  LET line == LineOf(S, list[i].at)
      small == known /\ OneLine(S, list[i])
      breaking == 0 < acc.prevLine /\ acc.prevLine < line
      comma == IF i = 1 THEN acc.p
               ELSE Token(IF breaking THEN acc.p ELSE setPos(acc.p, Pos(S, list[i].at)), ",")
  IN AfterComma(comma, acc, S, list, i, depth, small, breaking)

\* The comma and line break before the closing bracket, and the unindent.
AfterList(end, mode, next) ==
  LET out == IF end.ws = ignore /\ "noIndent" \notin mode THEN <<unindent>> ELSE <<>>
  IN IF "commaTerm" \in mode /\ IsValid(next) /\ end.p.pos.line < next.line
     THEN Whites(Token(end.p, ","), out \o <<formfeed>>)
     ELSE Whites(end.p, out)

ExprList(p, S, prev, list, depth, mode, next) ==
  LET line == LineOf(S, list[1].at)
      Plain(q, i) ==
        expr1(IF i = 1 THEN q
              ELSE White1(Token(setPos(q, Pos(S, list[i].at)), ","), blank),
              S, list[i], 0, depth)
      ws == IF "noIndent" \in mode THEN ignore ELSE indent
      first == IsValid(prev) /\ prev.line < line /\ Wanted(p, line, 0) > 0
      start == [p |-> IF first THEN linebreak(p, line, 0, ws, TRUE) ELSE p,
                ws |-> IF first THEN ignore ELSE ws,
                prevBreak |-> IF first THEN 1 ELSE 0,
                prevLine |-> prev.line, small |-> FALSE]
      known == IsValid(prev) /\ IsValid(next)
  IN IF list = <<>> THEN p
     ELSE IF IsValid(prev) /\ prev.line = line /\ line = EndLine(S, Last(list).to)
     THEN Fold(Plain, p, [i \in DOMAIN list |-> i])
     ELSE AfterList(Fold(LAMBDA acc, i : ListElement(acc, S, list, i, depth, known),
                         start, [i \in DOMAIN list |-> i]), mode, next)

------------------------------------------------------------------------------
(* Statements *)

Semicolon(p) == White1(Token(p, ";"), blank)

\* What is not there is the empty sequence.
MaybeExpr(p, S, list) == IF list = <<>> THEN p ELSE expr(p, S, list[1])
MaybeStmt(p, S, list) == IF list = <<>> THEN p ELSE stmt(p, S, list[1], FALSE)

controlClause(p, S, s, isForStmt) ==
  LET q == White1(p, blank)
      cond == MaybeExpr(Semicolon(MaybeStmt(q, S, s.init)), S, s.cond)
      post == MaybeStmt(Semicolon(cond), S, s.post)
      last == IF isForStmt THEN s.post ELSE s.cond
      all == IF isForStmt THEN post ELSE cond
  IN IF s.init = <<>> /\ s.post = <<>>
     THEN (IF s.cond = <<>> THEN q ELSE White1(expr(q, S, s.cond[1]), blank))
     ELSE IF last = <<>> THEN all ELSE White1(all, blank)

\* indentList, for a list of several lines.
indentList(S, list) ==
  LET begin(i) == LineOf(S, list[i].at)
      end(i) == EndLine(S, list[i].to)
      broken(i) == end(i - 1) < begin(i)
      tall == {i \in DOMAIN list : begin(i) < end(i)}
      stop == {i \in 2..Len(list) : broken(i)}
  IN Len(list) >= 2 /\ (stop # {} \/ Cardinality(tall) > 1)

returnStmt(p, S, s) ==
  LET q == White1(Put(p, S, s.at), blank)
  IN IF s.results = <<>> THEN Put(p, S, s.at)
     ELSE IF indentList(S, s.results)
     THEN White1(exprList(White1(q, indent), S, NoPos, s.results, 1, {"noIndent"}, NoPos), unindent)
     ELSE exprList(q, S, NoPos, s.results, 1, {}, NoPos)

labeledStmt(p, S, s, nextIsRBrace) ==
  LET label == expr(White1(p, unindent), S, s.label)
      colon == White1(Put(label, S, s.colon), indent)
  IN stmt(linebreak(colon, LineOf(S, s.stmt.at), 1, ignore, TRUE), S, s.stmt, nextIsRBrace)

assignStmt(p, S, s) ==
  LET depth == IF Len(s.lhs) > 1 /\ Len(s.rhs) > 1 THEN 2 ELSE 1
      lhs == exprList(p, S, Pos(S, s.at), s.lhs, depth, {}, Pos(S, s.tok))
  IN exprList(White1(Put(White1(lhs, blank), S, s.tok), blank),
              S, Pos(S, s.tok), s.rhs, depth, {}, NoPos)

ifStmt(p, S, s, nextIsRBrace) ==
  LET body == block(controlClause(Put(p, S, s.at), S, s, FALSE), S, s.body, 1)
  IN IF s.else = <<>> THEN body
     ELSE stmt(White1(Token(White1(body, blank), "else"), blank), S, s.else[1], nextIsRBrace)

caseClause(p, S, s, nextIsRBrace) ==
  LET q == Put(p, S, s.at)
      list == IF s.exprs = <<>> THEN q
              ELSE exprList(White1(q, blank), S, Pos(S, s.at), s.exprs, 1, {}, Pos(S, s.colon))
  IN stmtList(Put(list, S, s.colon), S, s.list, 1, nextIsRBrace)

commClause(p, S, s, nextIsRBrace) ==
  LET q == Put(p, S, s.at)
      comm == IF s.comm = <<>> THEN q ELSE stmt(White1(q, blank), S, s.comm[1], FALSE)
  IN stmtList(Put(comm, S, s.colon), S, s.list, 1, nextIsRBrace)

selectStmt(p, S, s) ==
  LET q == White1(Put(p, S, s.at), blank)
  IN IF s.body.list = <<>> /\ ~commentBefore(q, Pos(S, s.body.to))
     THEN Put(Put(q, S, s.body.open), S, s.body.to)
     ELSE block(q, S, s.body, 0)

rangeStmt(p, S, s) ==
  LET key == expr(White1(Put(p, S, s.at), blank), S, s.key)
      value == expr(White1(Token(setPos(key, Pos(S, s.value.at)), ","), blank), S, s.value)
      range == White1(Token(White1(Put(White1(value, blank), S, s.tok), blank), "range"), blank)
  IN block(White1(expr(range, S, s.x), blank), S, s.body, 1)

Stmt(p, S, s, nextIsRBrace) ==
  LET q == setPos(p, Pos(S, s.at))
  IN CASE s.kind = "expr" -> expr0(q, S, s.x, 1)
       [] s.kind = "incdec" -> Put(expr0(q, S, s.x, 2), S, s.tok)
       [] s.kind = "go" -> expr(White1(Put(q, S, s.at), blank), S, s.call)
       [] s.kind = "branch" -> Put(q, S, s.at)
       [] s.kind = "return" -> returnStmt(q, S, s)
       [] s.kind = "labeled" -> labeledStmt(q, S, s, nextIsRBrace)
       [] s.kind = "assign" -> assignStmt(q, S, s)
       [] s.kind = "block" -> block(q, S, s, 1)
       [] s.kind = "if" -> ifStmt(q, S, s, nextIsRBrace)
       [] s.kind = "case" -> caseClause(q, S, s, nextIsRBrace)
       [] s.kind = "switch" -> block(controlClause(Put(q, S, s.at), S, s, FALSE), S, s.body, 0)
       [] s.kind = "comm" -> commClause(q, S, s, nextIsRBrace)
       [] s.kind = "select" -> selectStmt(q, S, s)
       [] s.kind = "for" -> block(controlClause(Put(q, S, s.at), S, s, TRUE), S, s.body, 1)
       [] s.kind = "range" -> rangeStmt(q, S, s)

------------------------------------------------------------------------------
(* Declarations and files *)

\* Whether the column of types must be kept, for each spec: those of a run of
\* specs with values keep it together.
keepTypeColumn(specs) ==
  LET Step(acc, i) ==
        LET s == specs[i]
            starts == s.values # <<>> /\ acc.start = 0
            ends == s.values = <<>> /\ acc.start > 0
            kept == IF starts THEN FALSE ELSE acc.keep
        IN [start |-> IF starts THEN i ELSE IF ends THEN 0 ELSE acc.start,
            keep |-> kept \/ s.type # <<>>,
            rows |-> IF ends /\ acc.keep THEN acc.rows \union (acc.start..(i - 1)) ELSE acc.rows]
      end == Fold(Step, [start |-> 0, keep |-> FALSE, rows |-> {}], [i \in DOMAIN specs |-> i])
      last == IF end.start > 0 /\ end.keep THEN end.start..Len(specs) ELSE {}
  IN [i \in DOMAIN specs |-> i \in end.rows \union last]

valueSpec(p, S, s, keepType) ==
  LET names == exprList(p, S, NoPos, s.names, 1, {"noIndent"}, NoPos)
      column == s.type # <<>> \/ keepType
      typed == MaybeExpr(IF column THEN White1(names, vtab) ELSE names, S, s.type)
      assign == White1(Token(White1(typed, vtab), "="), blank)
      values == IF s.values = <<>> THEN typed
                ELSE exprList(assign, S, NoPos, s.values, 1, {}, NoPos)
      extraTabs == 3 - (IF column THEN 1 ELSE 0) - (IF s.values # <<>> THEN 1 ELSE 0)
  IN IF HasLineComment(S, s.to) THEN Whites(values, [k \in 1..extraTabs |-> vtab]) ELSE values

spec(p, S, s, n, doIndent) ==
  CASE s.kind = "import" -> Put(p, S, s.at)
    [] s.kind = "value" ->
         LET mode == IF doIndent THEN {} ELSE {"noIndent"}
             names == exprList(p, S, NoPos, s.names, 1, mode, NoPos)
             typed == IF s.type = <<>> THEN names ELSE expr(White1(names, blank), S, s.type[1])
         IN IF s.values = <<>> THEN typed
            ELSE exprList(White1(Token(White1(typed, blank), "="), blank), S, NoPos, s.values, 1, {}, NoPos)
    [] s.kind = "type" ->
         expr(White1(expr(p, S, s.name), IF n = 1 THEN blank ELSE vtab), S, s.type)

genDecl(p, S, d) ==
  LET keyword == White1(Put(p, S, d.at), blank)
      n == Len(d.specs)
      values == n > 1 /\ d.specs[1].kind = "value"
      keepType == IF values THEN keepTypeColumn(d.specs) ELSE <<>>
      Next1(acc, i) ==
        LET s == d.specs[i]
            b == IF i = 1 THEN acc.p
                 ELSE linebreak(acc.p, LineOf(S, s.at), 1, ignore, acc.p.out.line > acc.line)
        IN Recorded(IF values THEN valueSpec(recordLine(b), S, s, keepType[i])
                    ELSE spec(recordLine(b), S, s, n, FALSE),
                    Len(acc.p.starts))
      open == Put(keyword, S, d.open)
      specs == Fold(Next1, [p |-> Whites(open, <<indent, formfeed>>), line |-> 0],
                        [i \in DOMAIN d.specs |-> i]).p
  IN IF d.open = 0 THEN spec(keyword, S, d.specs[1], 1, TRUE)
     ELSE Put(IF n = 0 THEN open ELSE Whites(specs, <<unindent, formfeed>>), S, d.to)

funcDecl(p, S, d) ==
  LET q == White1(Put(setPos(p, Pos(S, d.at)), S, d.at), blank)
      recv == IF d.recv = <<>> THEN q ELSE White1(parameters(q, S, d.recv[1]), blank)
  IN funcBody(signature(expr(recv, S, d.name), S, d.sig), S, d.body, d.at, vtab)

\* Whether numLines finds a function of several lines.
Tall(S, d) == LineOf(S, d.at) # EndLine(S, d.to)

\* One turn of declList, after a declaration that starts with the token prev.
declList(p, S, d, prev) ==
  LET tok == S.toks[d.at].t
      min == IF prev # tok \/ HasDoc(S, d.at) THEN 2 ELSE 1
      q == linebreak(p, LineOf(S, d.at), min, ignore, tok = "func" /\ Tall(S, d))
  IN IF tok = "func" THEN funcDecl(q, S, d) ELSE genDecl(q, S, d)

packageClause(p, S) == Put(White1(Put(p, S, 1), blank), S, 2)

\* print, of each kind of argument, and printNode.
print(p, item) ==
  CASE item.arg = "mode" -> PrintMode(p, item.x)
    [] item.arg = "white" -> PrintWhite(p, item.x)
    [] item.arg = "token" -> PrintToken(p, item.x)
    [] item.arg = "expr" -> Expr1(p, item.source, item.x, item.prec, item.depth)
    [] item.arg = "exprs" ->
         ExprList(p, item.source, item.prev, item.x, item.depth, item.mode, item.next)
    [] item.arg = "stmt" -> Stmt(p, item.source, item.x, item.last)
    [] item.arg = "package" -> packageClause(p, item.source)
    [] item.arg = "decl" -> declList(p, item.source, item.x, item.prev)

================================================================================
