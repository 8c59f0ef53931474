-------------------------------- MODULE Newlines --------------------------------
(***************************************************************************)
(* The rules of gofumpt that add and remove line breaks (format/format.go,  *)
(* File): the nodes of a file are walked, and what a rule does to one is    *)
(* done to the table of line starts of the file, which later rules and the  *)
(* printer read.  The result is printed and formatted once more.            *)
(*                                                                         *)
(* A file is a sequence of items (tokens, or what no rule looks into), with *)
(* the number of line breaks before each, and at most one comment between   *)
(* two.  Rules only ask for lines and order, so an item has a fixed place.  *)
(***************************************************************************)
EXTENDS Integers, Sequences, FiniteSets, FiniteSetsExt, SequencesExt

\* Files: the line breaks before the items, the comments among them, the items
\* that have two lines, and the nodes in the order their rules apply.
CONSTANT Sources

VARIABLES
  source,  \* the file: its layout is what it was at first, then what was printed
  lines,   \* where lines start, as token.File has it
  moved,   \* the closing parentheses that were moved by a byte
  walked,  \* how many nodes have been walked
  before   \* the layout printed before, in the second run

vars == <<source, lines, moved, walked, before>>

------------------------------------------------------------------------------
(* Positions *)

Pos(k)  == IF k = 0 THEN -1 ELSE 16 * k  \* item 0: a position that is not valid
End(k)  == Pos(k) + 2
Last2(k) == Pos(k) + (IF k \in source.tall THEN 1 ELSE 0)  \* its last byte

CommentPos(k) == 16 * k - 8  \* the comment before item k
CommentEnd(k) == CommentPos(k) + 2

\* Where lines start if there are n line breaks before p.
Starts(p, n) == {p - d : d \in 1..n}

StartsOf(s) ==
  {0} \union {Pos(k) + 1 : k \in s.tall}
      \union UNION {Starts(Pos(k), s.gaps[k]) : k \in DOMAIN s.gaps}
      \union UNION {Starts(CommentPos(k), s.comments[k].gap) : k \in DOMAIN s.comments}

Line(ls, p) == Cardinality({l \in ls : l <= p})

ClosingPos(k) == IF k \in moved THEN Pos(k) + 1 ELSE Pos(k)

\* Comments by the item they are before.
commentsBetween(from, to) == {k \in DOMAIN source.comments : CommentPos(k) >= from /\ CommentPos(k) < to}

\* The comment after item k, on its line.
inlineComment(ls, k) ==
  LET after == {c \in DOMAIN source.comments : CommentPos(c) >= End(k)}
  IN {c \in after : c = Min(after) /\ Line(ls, CommentPos(c)) = Line(ls, End(k))}

addNewline(ls, at) == ls \union {at}

\* A bug: one line break is removed, not all.
removeLine(ls, from, to) == {l \in ls : ~(from < to /\ Line(ls, l) = from + 1)}

\* The line breaks from one line to another one.
removeLines(ls, from, to) == {l \in ls : ~(Line(ls, l) \in (from + 1)..to)}

\* A bug: two line breaks are left.
removeBetweenLoosely(ls, from, to) == removeLines(ls, Line(ls, from) + 2, Line(ls, to))

removeLinesBetween(ls, from, to) == removeLines(ls, Line(ls, from) + 1, Line(ls, to))

------------------------------------------------------------------------------
(* The rules, as what they make of the line starts *)

\* What is first and last between two positions, of a list of nodes and comments.
BodyPos(list, comments) ==
  Min({Pos(list[k].at) : k \in DOMAIN list} \union {CommentPos(c) : c \in comments})
BodyEnd(list, comments) ==
  Max({End(list[k].to) : k \in DOMAIN list} \union {CommentEnd(c) : c \in comments})

\* stmts: no empty line between an assignment to err and a simple check of it.
stmts(ls, node) ==
  FoldLeft(LAMBDA s, k : removeLinesBetween(s, End(node.list[k].to), Pos(node.list[k + 1].at)), ls,
           SetToSortSeq(node.checks, <))

\* handleMultiLine: whether ) of a field list that is not on one line is moved
\* to the next line; endLine is that of the end of the signature.
HandleMultiLine(ls, fields, endLine) ==
  LET closing == Line(ls, Pos(fields.close))
      lastEnd == End(fields.list[Len(fields.list)].to)
      comments == commentsBetween(lastEnd, Pos(fields.close))
      OnBoth(line) == line = closing /\ line = endLine
  IN /\ fields.list # <<>>
     /\ Line(ls, Pos(fields.open)) # closing
     /\ \/ OnBoth(Line(ls, lastEnd))
        \/ comments # {} /\ OnBoth(Line(ls, CommentEnd(Max(comments))))

\* The closing parentheses of a signature that are moved.
Separate(ls, sign) ==
  LET endLine == Line(ls, End(sign.to))
      params == HandleMultiLine(ls, sign.params, endLine)
      split == IF params THEN addNewline(ls, Pos(sign.params.close) + 1) ELSE ls
      closed == IF params THEN Pos(sign.params.close) + 1 ELSE Pos(sign.params.close)
      list == sign.results.list
      results == /\ list # <<>>
                 /\ Line(split, End(list[Len(list)].to)) # Line(split, closed)
                 /\ HandleMultiLine(split, sign.results, endLine)
  IN IF Line(ls, Pos(sign.at)) = endLine THEN {}
     ELSE (IF params THEN {sign.params.close} ELSE {})
          \union (IF results THEN {sign.results.close} ELSE {})

\* A block: none if empty, and no empty lines at its ends if it is the body of a
\* function or has one statement.
BlockStmt(node) ==
  LET ls == stmts(lines, node)
      comments == commentsBetween(Pos(node.open), Pos(node.close))
      atEnd == removeLinesBetween(ls, BodyEnd(node.list, comments), Pos(node.close))
      tallCond == node.cond # <<>> /\ Line(ls, Pos(node.cond[1].at)) # Line(ls, End(node.cond[1].to))
      closings == IF node.sign = <<>> THEN {} ELSE Separate(atEnd, node.sign[1])
      split == atEnd \union {Pos(k) + 1 : k \in closings}
  IN IF node.list = <<>> /\ comments = {}
     THEN [lines |-> removeLinesBetween(ls, Pos(node.open), Pos(node.close)), moved |-> {}]
     ELSE IF Len(node.list) > 1 /\ node.sign = <<>> THEN [lines |-> ls, moved |-> {}]
     ELSE IF tallCond THEN [lines |-> atEnd, moved |-> {}]
     ELSE [lines |-> removeLinesBetween(split, Pos(node.open), BodyPos(node.list, comments)),
           moved |-> closings]

\* The methods of an interface.
InterfaceType(node) ==
  LET first == node.list[1].at
      comments == commentsBetween(Pos(node.at), Pos(first))
      to == IF comments = {} THEN Pos(first) ELSE CommentPos(Min(comments))
  IN IF node.list = <<>> THEN lines
     ELSE removeLines(lines, Line(lines, Pos(node.at)) + 1, Line(lines, to))

\* A field list: on one line if empty, no empty lines at its ends.
FieldList(node) ==
  LET from == IF node.open = 0 THEN Pos(node.list[1].at) ELSE Pos(node.open)
      to == IF node.open = 0 THEN End(node.list[Len(node.list)].to) ELSE End(node.close)
      comments == commentsBetween(from, to)
  IN IF node.list = <<>> /\ comments = {}
     THEN removeLines(lines, Line(lines, from), Line(lines, to))
     ELSE removeLinesBetween(removeLinesBetween(lines, from, BodyPos(node.list, comments)),
                             BodyEnd(node.list, comments), to)

\* A bug: comments are not looked for.
CaseMovesComments(node) ==
  LET ls == stmts(lines, node)
  IN IF node.long THEN ls ELSE removeLines(ls, Line(ls, Pos(node.at)), Line(ls, Pos(node.colon)))

\* case, on one line if it is short and has no comments.
CaseClause(node) ==
  LET ls == stmts(lines, node)
  IN IF node.long \/ commentsBetween(Pos(node.at), Pos(node.colon)) # {} THEN ls
     ELSE removeLines(ls, Line(ls, Pos(node.at)), Line(ls, Pos(node.colon)))

CommClause(node) == stmts(lines, node)

\* The one value assigned is on the line of the operator, if it is no binary
\* expression.
AssignStmt(node) ==
  IF node.binary THEN lines
  ELSE removeLines(lines, Line(lines, Pos(node.tok)), Line(lines, Pos(node.value)))

\* The elements of a literal: leading empty lines are removed, and it is seen
\* where line breaks are around and between them.
Elements(node) ==
  LET openLine == Line(lines, Pos(node.open))
      See(s, k) ==
        LET pos == BodyPos(<<node.list[k]>>, commentsBetween(s.lastEnd, Pos(node.list[k].at)))
            curLine == Line(s.lines, pos)
            broken == curLine > s.lastLine
            ls == IF broken /\ k = 1 THEN removeLines(s.lines, openLine + 1, curLine) ELSE s.lines
            end == End(node.list[k].to)
        IN [lines |-> ls, lastEnd |-> end, lastLine |-> Line(ls, end),
            around |-> s.around \/ (broken /\ k = 1),
            between |-> s.between \/ (broken /\ k > 1)]
  IN FoldLeft(See, [lines |-> lines, lastEnd |-> Pos(node.open), lastLine |-> openLine,
                    around |-> FALSE, between |-> FALSE], [k \in DOMAIN node.list |-> k])

\* A bug: only two literals are set apart.
BetweenLiterals(ls, node) ==
  LET Break(s, k) ==
        IF node.list[k].lit /\ node.list[k + 1].lit
        THEN addNewline(s, End(node.list[k].to)) ELSE s
  IN FoldLeft(Break, ls, [k \in 1..(Len(node.list) - 1) |-> k])

\* Elements next to a literal on their line are set apart from it.
Between(ls, node) ==
  LET Break(s, k) ==
        LET a == node.list[k]
            b == node.list[k + 1]
        IN IF (a.lit \/ b.lit) /\ Line(s, End(a.to)) = Line(s, Pos(b.at)) THEN addNewline(s, End(a.to)) ELSE s
  IN FoldLeft(Break, ls, [k \in 1..(Len(node.list) - 1) |-> k])

\* A composite literal on several lines: if there are line breaks around or
\* between its elements there are some at its braces, and with one between its
\* elements there is one between all of them, those on both sides of literals.
CompositeLit(node) ==
  LET openLine == Line(lines, Pos(node.open))
      closeLine == Line(lines, Pos(node.close))
      e == Elements(node)
      last == node.list[Len(node.list)]
      around == e.between \/ e.around \/ closeLine > e.lastLine
      opens == around /\ openLine = Line(e.lines, Pos(node.list[1].at))
      opened == IF opens THEN addNewline(e.lines, Pos(node.open) + 1) ELSE e.lines
      closeNow == IF opens THEN Line(opened, Pos(node.close)) ELSE closeLine
      closed == IF around /\ closeNow = Line(opened, End(last.to))
                THEN addNewline(opened, Pos(node.close)) ELSE opened
  IN IF node.list = <<>> \/ openLine = closeLine THEN lines
     ELSE IF e.between THEN Between(closed, node) ELSE closed

\* A call on several lines: ) starts a line if ( ends one.
CallExpr(node) ==
  LET lastEnd == End(node.list[Len(node.list)].to)
      comment == inlineComment(lines, node.list[Len(node.list)].to)
      end == IF comment = {} THEN lastEnd ELSE CommentEnd(Max(comment))
  IN IF node.list # <<>>
        /\ Line(lines, Pos(node.open)) # Line(lines, Pos(node.close))
        /\ Line(lines, Pos(node.open)) # Line(lines, Pos(node.list[1].at))
        /\ Line(lines, Pos(node.close)) = Line(lines, end)
     THEN addNewline(lines, Pos(node.close)) ELSE lines

------------------------------------------------------------------------------
(* The printer *)

Capped(n) == IF n > 2 THEN 2 ELSE n
AtLeast(least, n) == IF n < least THEN least ELSE n

\* What is printed has the line breaks of the table, but no two empty lines in a
\* row, a line break after a // comment, and no empty line before the closing
\* brace of a literal or the parenthesis of a call.
Layout ==
  LET at(k) == Line(lines, ClosingPos(k))
      after(k) == IF k = 1 THEN 1 ELSE Line(lines, IF k - 1 \in moved THEN ClosingPos(k - 1) ELSE Last2(k - 1))
      commented == DOMAIN source.comments
      least(k) == IF k \in commented /\ source.comments[k].kind = "//" THEN 1 ELSE 0
      most(k) == IF k \in source.closes THEN 1 ELSE 2
      from(k) == IF k \in commented THEN Line(lines, CommentPos(k)) ELSE after(k)
  IN [gaps |-> [k \in DOMAIN source.gaps |-> Min({most(k), AtLeast(least(k), at(k) - from(k))})],
      comments |-> [k \in commented |-> [source.comments[k] EXCEPT !.gap = Capped(Line(lines, CommentPos(k)) - after(k))]]]

------------------------------------------------------------------------------

Init ==
  /\ source \in Sources
  /\ lines = StartsOf(source)
  /\ moved = {}
  /\ walked = 0
  /\ before = <<>>

\* The rule of one kind of node, at the next node of the walk.
Walk(kind, rule(_)) ==
  /\ walked < Len(source.nodes)
  /\ source.nodes[walked + 1].kind = kind
  /\ lines' = rule(source.nodes[walked + 1])
  /\ walked' = walked + 1
  /\ UNCHANGED <<source, moved, before>>

WalkBlock ==
  /\ walked < Len(source.nodes)
  /\ source.nodes[walked + 1].kind = "block"
  /\ LET done == BlockStmt(source.nodes[walked + 1])
     IN lines' = done.lines /\ moved' = moved \union done.moved
  /\ walked' = walked + 1
  /\ UNCHANGED <<source, before>>

\* applyPre
WalkInterface == Walk("interface", InterfaceType)
WalkFields == Walk("fields", FieldList)
WalkCase == Walk("case", CaseClause)
WalkComm == Walk("comm", CommClause)
WalkAssign == Walk("assign", AssignStmt)

\* applyPost
WalkLiteral == Walk("literal", CompositeLit)
WalkCall == Walk("call", CallExpr)

\* All is walked: the file is printed and formatted once more.
Again ==
  /\ walked = Len(source.nodes)
  /\ before = <<>>
  /\ before' = <<Layout>>
  /\ source' = [source EXCEPT !.gaps = Layout.gaps, !.comments = Layout.comments]
  /\ lines' = StartsOf(source')
  /\ moved' = {}
  /\ walked' = 0

Next ==
  \/ WalkBlock \/ WalkInterface \/ WalkFields \/ WalkCase \/ WalkComm \/ WalkAssign
  \/ WalkLiteral \/ WalkCall \/ Again

Spec == Init /\ [][Next]_vars

------------------------------------------------------------------------------
(* Properties *)

\* gofumpt has run once: source is laid out as printed.
Printed == before # <<>> /\ walked = 0

FirstGap(k) == IF k \in DOMAIN source.comments THEN source.comments[k].gap ELSE source.gaps[k]

\* What the README says of empty lines: none at the ends of the body of a
\* function or of a block of one statement (but after a condition of several
\* lines), of a literal or of a field list, and none before a simple check of an error.  Rules
\* for the nodes in a node come after its own.
EdgesTight ==
  Printed => \A n \in DOMAIN source.nodes :
    LET node == source.nodes[n]
    IN /\ node.kind \in {"fields", "block"} /\ node.open # 0
          /\ (node.kind = "block" => node.sign # <<>> \/ Len(node.list) < 2)
          => /\ source.gaps[node.close] < 2
             /\ \/ FirstGap(node.open + 1) < 2
                \/ /\ node.kind = "block" /\ node.cond # <<>>
                   /\ Line(lines, Pos(node.cond[1].at)) # Line(lines, Pos(node.cond[1].to))
       /\ node.kind = "interface" /\ node.list # <<>> => FirstGap(node.at + 2) < 2
       /\ node.kind = "literal" /\ node.list # <<>> => FirstGap(node.open + 1) < 2 /\ source.gaps[node.close] < 2
       /\ node.kind = "block" => \A k \in node.checks : source.gaps[node.list[k + 1].at] < 2

\* Where there is no comment, README says of a literal that a line break before
\* or after an element requires some after { and before }, and one between
\* elements requires one next to each literal; of a call that ( at the end of a
\* line requires ) at the start of one; of a signature of several lines that ) {
\* is not on the line of the last field, if there is a body to set apart.
Consistent ==
  Printed => \A n \in DOMAIN source.nodes :
    LET node == source.nodes[n]
        broken(k) == source.gaps[node.list[k].at] > 0
        plain(x) == x.list # <<>> /\ commentsBetween(Pos(x.open), Pos(x.close)) = {}
    IN /\ node.kind = "literal" /\ plain(node) =>
            /\ (\E k \in DOMAIN node.list : broken(k)) \/ source.gaps[node.close] > 0
               => broken(1) /\ source.gaps[node.close] > 0
            /\ (\E k \in DOMAIN node.list : k > 1 /\ broken(k)) =>
               \A k \in 2..Len(node.list) : node.list[k - 1].lit \/ node.list[k].lit => broken(k)
       /\ node.kind = "call" /\ plain(node) => (broken(1) => source.gaps[node.close] > 0)
       /\ node.kind = "block" /\ node.sign # <<>> /\ node.list # <<>> =>
            \A fields \in {node.sign[1].params, node.sign[1].results} :
              /\ plain(fields)
              /\ Line(lines, Pos(fields.open)) # Line(lines, Pos(fields.close))
              /\ Line(lines, Pos(fields.close)) = Line(lines, Pos(node.open))
              => source.gaps[fields.close] > 0

\* A // comment on a line of its own stays on one, unless it is between the
\* operator of an assignment and its value, and one at the end of a line stays
\* at the end of that line: it is about what is there.
CommentsStay ==
  Printed => \A k \in DOMAIN source.comments :
    LET assigned == \E n \in DOMAIN source.nodes : source.nodes[n].kind = "assign" /\ k = source.nodes[n].value
    IN source.comments[k].kind = "//" =>
         IF source.comments[k].own THEN source.comments[k].gap > 0 \/ assigned ELSE source.comments[k].gap = 0

\* gofumpt has nothing to change in what it printed.
Stable == before # <<>> /\ walked = Len(source.nodes) => Layout = before[1]

================================================================================
