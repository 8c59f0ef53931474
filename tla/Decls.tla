--------------------------------- MODULE Decls ---------------------------------
(***************************************************************************)
(* What gofumpt does to the top-level declarations of a file               *)
(* (format/format.go, applyPre on *ast.File, and removeParens on each      *)
(* *ast.GenDecl), twice in a row: groups of one variable lose their        *)
(* parentheses, contiguous declarations are joined into one group,         *)
(* multiline declarations are separated by an empty line, and the printer  *)
(* lays the result out.                                                    *)
(*                                                                         *)
(* Two views of a file.  A text is what is on disk: the declarations, with *)
(* the empty lines before them.  The syntax tree (decls) has their lines   *)
(* in the token.File instead, which the rules change: all they look at is  *)
(* which line a thing is on.  A comment above a thing is one line that     *)
(* touches it.  How wide a line is, what the values are and how comments   *)
(* are spelled is left out, and so are comments on the line of a           *)
(* declaration, below it or apart from it, and joinStdImports.             *)
(***************************************************************************)
EXTENDS Integers, Sequences, FiniteSets, SequencesExt

CONSTANTS
  Sources,  \* the texts to format
  Cgo       \* the specs that import "C"

VARIABLES
  source,   \* the text given to gofumpt
  printed,  \* the texts each run printed
  step,     \* which loop of applyPre it is in
  decls,    \* node.Decls
  i,        \* the loop's place in decls
  new,      \* newDecls
  joining,  \* whether contLoop is running, for the last of newDecls
  merged,   \* whether it merged something
  last      \* the line of lastPos

vars == <<source, printed, step, decls, i, new, joining, merged, last>>

------------------------------------------------------------------------------
(* What is on disk *)

Docs == {"none", "comment", "directive"}

SpecText == [id : Int, iota : BOOLEAN, doc : Docs, h : Nat \ {0}, blank : BOOLEAN]
DeclText ==
  [tok : {"func", "import", "var", "const", "type"}, paren : BOOLEAN, blank : BOOLEAN,
   doc : Docs, specs : Seq(SpecText), h : Nat, wide : BOOLEAN, tall : BOOLEAN]

\* A function has no specs, and a declaration without parentheses has one, which
\* has no comment of its own.  No two specs are one.
IsText(text) ==
  /\ text \in Seq(DeclText)
  /\ \A k \in DOMAIN text :
       /\ text[k].tok = "func" => text[k].specs = <<>> /\ ~text[k].paren /\ text[k].h > 0
       /\ text[k].tok # "func" /\ ~text[k].paren =>
            Len(text[k].specs) = 1 /\ text[k].specs[1].doc = "none"
  /\ \A k, l \in DOMAIN text : \A j \in DOMAIN text[k].specs, m \in DOMAIN text[l].specs :
       text[k].specs[j].id = text[l].specs[m].id => k = l /\ j = m

ASSUME SourcesAssumption == \A text \in Sources : IsText(text)

------------------------------------------------------------------------------

SpecLines(s) == s.h + (IF s.blank THEN 1 ELSE 0) + (IF s.doc # "none" THEN 1 ELSE 0)

\* How many lines the first k specs of a group take.
Below(specs) ==
  LET below[k \in 0..Len(specs)] ==
        IF k = 0 THEN 0 ELSE below[k - 1] + SpecLines(specs[k])
  IN below

Height(d) ==
  IF d.tok = "func" THEN d.h
  ELSE IF d.specs = <<>> THEN 1
  ELSE IF d.paren THEN Below(d.specs)[Len(d.specs)] + 2
  ELSE d.specs[1].h

Lines(d) == (IF d.blank THEN 1 ELSE 0) + (IF d.doc # "none" THEN 1 ELSE 0) + Height(d)

\* The parser: which lines a text's declarations and their specs are on, after
\* the package clause on line 1.
EndsOf(text) ==
  LET endOf[k \in 0..Len(text)] ==
        IF k = 0 THEN 1 ELSE endOf[k - 1] + Lines(text[k])
  IN endOf

ParsedSpec(d, line, j) ==
  LET s == d.specs[j]
      end == IF d.paren THEN line + Below(d.specs)[j] ELSE line + s.h - 1
  IN [id |-> s.id, iota |-> s.iota, doc |-> s.doc, line |-> end - s.h + 1, end |-> end]

ParsedDecl(d, end) ==
  LET line == end - Height(d) + 1
  IN [tok |-> d.tok, paren |-> d.paren, doc |-> d.doc, line |-> line, end |-> end,
      specs |-> [j \in 1..Len(d.specs) |-> ParsedSpec(d, line, j)],
      wide |-> d.wide, tall |-> d.tall]

Parse(text) == [k \in 1..Len(text) |-> ParsedDecl(text[k], EndsOf(text)[k])]

\* removeParens leaves the comment of the only spec before the keyword.
Hoisted(d) ==
  d.specs # <<>> /\ d.specs[1].doc # "none" /\ d.specs[1].line <= d.line

OnOneLine(d) == d.line = d.end

\* The first line of a declaration with what is above it.
Top(d)     == IF d.doc # "none" \/ Hoisted(d) THEN d.line - 1 ELSE d.line
TopSpec(s) == IF s.doc # "none" THEN s.line - 1 ELSE s.line

\* go/printer: declarations are a line apart if they were in the source, if the
\* keyword changes and above a comment; specs if they were.  A function on one
\* line gets several if it is too tall or too wide to stay on it.
BlankAbove(ds, k) ==
  \/ k = 1
  \/ ds[k].tok # ds[k - 1].tok
  \/ Top(ds[k]) < ds[k].line
  \/ ds[k].line - ds[k - 1].end >= 2

Parens(d) == d.tok # "func" /\ (d.paren \/ Len(d.specs) # 1)

PrintedSpec(d, j) ==
  LET s == d.specs[j]
      up == j = 1 /\ (Hoisted(d) \/ ~Parens(d))
  IN [id |-> s.id, iota |-> s.iota,
      doc |-> IF up THEN "none" ELSE s.doc,
      h |-> s.end - s.line + 1,
      blank |-> j > 1 /\ TopSpec(s) - d.specs[j - 1].end >= 2]

PrintedDecl(d, blank) ==
  [tok |-> d.tok, paren |-> Parens(d), blank |-> blank,
   doc |-> IF Hoisted(d) THEN d.specs[1].doc ELSE d.doc,
   specs |-> [j \in 1..Len(d.specs) |-> PrintedSpec(d, j)],
   h |-> IF d.tok # "func" THEN 0
         ELSE IF ~OnOneLine(d) THEN d.end - d.line + 1
         ELSE IF d.tall THEN 3 ELSE 1,
   wide |-> d.wide, tall |-> d.tall]

Printed(ds) == [k \in 1..Len(ds) |-> PrintedDecl(ds[k], BlankAbove(ds, k))]

------------------------------------------------------------------------------

\* The lines of a file, each line L renumbered.
LinesOf(ds) == 1..ds[Len(ds)].end
MovedSpec(s, to) == [s EXCEPT !.line = to[s.line], !.end = to[s.end]]
Moved(d, to) ==
  [d EXCEPT !.line = to[d.line], !.end = to[d.end],
            !.specs = [j \in 1..Len(d.specs) |-> MovedSpec(d.specs[j], to)]]
Renumber(ds, to) == [k \in 1..Len(ds) |-> Moved(ds[k], to)]

removeLines(ds, from, to) ==
  LET joined == [L \in LinesOf(ds) |->
                   IF L <= from THEN L ELSE IF L <= to THEN from ELSE L - (to - from)]
  IN IF from < to THEN Renumber(ds, joined) ELSE ds

\* A newline at the end of a line.
addNewline(ds, at) ==
  Renumber(ds, [L \in LinesOf(ds) |-> IF L > at THEN L + 1 ELSE L])

\* The parentheses of a variable that is alone in them.  A comment above it goes
\* before the keyword, which moves to its line.
removeParens(ds, k) ==
  IF ds[k].tok # "var" \/ Len(ds[k].specs) # 1 \/ ~ds[k].paren \/ ds[k].doc # "none"
  THEN ds
  ELSE LET s  == ds[k].specs[1]
           up == IF s.doc # "none"
                 THEN [ds EXCEPT ![k].line = s.line]
                 ELSE removeLines(ds, ds[k].line, s.line)
           lo == removeLines(up, up[k].specs[1].end, up[k].end)
       IN  [lo EXCEPT ![k].paren = FALSE]

isCgoImport(d) == d.tok = "import" /\ Len(d.specs) = 1 /\ d.specs[1].id \in Cgo

\* The specs on consecutive lines around one.
Run(specs, j) ==
  LET apart == {k \in 2..Len(specs) : specs[k].line > specs[k - 1].end + 1}
  IN {x \in 1..Len(specs) : \A y \in apart : (x < y) <=> (j < y)}

\* Which spec of its run comes in the place of the j-th: the one that has as many
\* below it in the order of paths as the j-th has before it.
Sorted(specs, j) ==
  CHOOSE x \in Run(specs, j) :
    Cardinality({y \in Run(specs, j) : specs[y].id < specs[x].id})
      = Cardinality({y \in Run(specs, j) : y < j})

\* ast.SortImports: the specs of each run of consecutive lines are sorted by
\* path, and take the lines of the run in that order.
SortImports(d) ==
  [d EXCEPT !.specs =
     [j \in 1..Len(d.specs) |->
        [d.specs[Sorted(d.specs, j)] EXCEPT !.line = d.specs[j].line, !.end = d.specs[j].end]]]

\* processFile sorts what it parsed.
Read(text) ==
  LET ds == Parse(text)
  IN  [k \in 1..Len(ds) |->
         IF ds[k].tok = "import" /\ ds[k].paren THEN SortImports(ds[k]) ELSE ds[k]]

------------------------------------------------------------------------------

Init ==
  /\ source \in Sources
  /\ printed = <<>>
  /\ step = "unwrap"
  /\ decls = Read(source)
  /\ i = 1
  /\ new = <<>>
  /\ joining = FALSE
  /\ merged = FALSE
  /\ last = 0

More == i <= Len(decls)

\* Mutant of Unwrap: only when the nodes are visited, after the joining.
UnwrapLate ==
  /\ step \in {"unwrap", "walk"}
  /\ More
  /\ decls' = IF step = "walk" THEN removeParens(decls, i) ELSE decls
  /\ i' = i + 1
  /\ UNCHANGED <<source, printed, step, new, joining, merged, last>>

\* The first loop of applyPre over the declarations, and the nodes that are
\* visited after it: each declaration loses the parentheses it does not need.
Unwrap ==
  /\ step \in {"unwrap", "walk"}
  /\ More
  /\ decls' = removeParens(decls, i)
  /\ i' = i + 1
  /\ UNCHANGED <<source, printed, step, new, joining, merged, last>>

\* The second loop.  A function, import "C" and what has a directive above it
\* are never continued.
Start ==
  /\ step = "join"
  /\ ~joining
  /\ More
  /\ LET start == decls[i] IN
       /\ new' = Append(new, start)
       /\ joining' = /\ start.tok # "func"
                     /\ ~isCgoImport(start)
                     /\ start.doc # "directive"
       /\ last' = start.line
  /\ merged' = FALSE
  /\ i' = i + 1
  /\ UNCHANGED <<source, printed, step, decls>>

\* Mutants of Continues: a group may be continued, a directive may be between
\* the two, and the two may not even be on consecutive lines.
ContinuesParens(start, cont) ==
  /\ cont.tok = start.tok
  /\ ~isCgoImport(cont)
  /\ \/ last >= cont.line - 1
     \/ cont.doc = "comment" /\ cont.line - 1 = last + 1

ContinuesDirective(start, cont) ==
  /\ cont.tok = start.tok
  /\ ~cont.paren
  /\ ~isCgoImport(cont)
  /\ \/ last >= cont.line - 1
     \/ cont.doc # "none" /\ cont.line - 1 = last + 1

ContinuesClose(start, cont) ==
  /\ cont.tok = start.tok
  /\ ~cont.paren
  /\ ~isCgoImport(cont)
  /\ \/ last >= cont.line
     \/ cont.doc = "comment" /\ cont.line - 1 = last + 1

\* Nothing but a comment that is no directive may be between the two.
Continues(start, cont) ==
  /\ cont.tok = start.tok
  /\ ~cont.paren
  /\ ~isCgoImport(cont)
  /\ \/ last >= cont.line - 1
     \/ cont.doc = "comment" /\ cont.line - 1 = last + 1

Group == new[Len(new)]

\* The group with the specs of one more declaration, whose comment becomes that
\* of its spec.
Continued(group, cont) ==
  LET specs == [j \in 1..Len(cont.specs) |->
                  IF j = 1 /\ cont.doc # "none"
                  THEN [cont.specs[1] EXCEPT !.doc = cont.doc]
                  ELSE cont.specs[j]]
  IN [group EXCEPT !.specs = group.specs \o specs, !.end = cont.end]

Continue ==
  /\ step = "join"
  /\ joining
  /\ More
  /\ Continues(Group, decls[i])
  /\ new' = [new EXCEPT ![Len(new)] = Continued(Group, decls[i])]
  /\ last' = decls[i].line
  /\ merged' = TRUE
  /\ i' = i + 1
  /\ UNCHANGED <<source, printed, step, decls, joining>>

\* Mutant of Joined: the outer loop goes on after the declaration that ended it.
JoinedSkips ==
  /\ step = "join"
  /\ joining
  /\ ~(More /\ Continues(Group, decls[i]))
  /\ joining' = FALSE
  /\ new' = IF merged /\ Group.tok = "import"
            THEN [new EXCEPT ![Len(new)] = SortImports([Group EXCEPT !.paren = TRUE])]
            ELSE new
  /\ i' = IF More THEN i + 1 ELSE i
  /\ UNCHANGED <<source, printed, step, decls, merged, last>>

\* A merged group of imports gets parentheses, to be sorted.
Joined ==
  /\ step = "join"
  /\ joining
  /\ ~(More /\ Continues(Group, decls[i]))
  /\ joining' = FALSE
  /\ new' = IF merged /\ Group.tok = "import"
            THEN [new EXCEPT ![Len(new)] = SortImports([Group EXCEPT !.paren = TRUE])]
            ELSE new
  /\ UNCHANGED <<source, printed, step, decls, i, merged, last>>

Multi(d) == Top(d) < d.end \/ (d.tok = "func" /\ d.wide)

\* Mutant of Separate: the two would have to share a line.
SeparateShared ==
  /\ step = "separate"
  /\ More
  /\ decls' = IF /\ i > 1
                 /\ Multi(decls[i]) /\ Multi(decls[i - 1])
                 /\ decls[i - 1].end = Top(decls[i])
              THEN addNewline(decls, decls[i - 1].end)
              ELSE decls
  /\ i' = i + 1
  /\ UNCHANGED <<source, printed, step, new, joining, merged, last>>

\* The third loop: a line is added between two multiline declarations that
\* touch.
Separate ==
  /\ step = "separate"
  /\ More
  /\ decls' = IF /\ i > 1
                 /\ Multi(decls[i]) /\ Multi(decls[i - 1])
                 /\ decls[i - 1].end + 1 = Top(decls[i])
              THEN addNewline(decls, decls[i - 1].end)
              ELSE decls
  /\ i' = i + 1
  /\ UNCHANGED <<source, printed, step, new, joining, merged, last>>

After == [unwrap |-> "join", join |-> "separate", separate |-> "walk",
          walk |-> "print"]

\* From a loop to the next one.  node.Decls = newDecls after the second.
NextLoop ==
  /\ step \in DOMAIN After
  /\ ~More
  /\ ~joining
  /\ step' = After[step]
  /\ i' = 1
  /\ decls' = IF step = "join" THEN new ELSE decls
  /\ new' = <<>>
  /\ UNCHANGED <<source, printed, joining, merged, last>>

\* The file is printed, and gofumpt run a second time on the result.
Render ==
  /\ step = "print"
  /\ printed' = Append(printed, Printed(decls))
  /\ IF Len(printed) = 0
     THEN step' = "unwrap" /\ decls' = Read(Printed(decls))
     ELSE step' = "done" /\ UNCHANGED decls
  /\ i' = 1
  /\ UNCHANGED <<source, new, joining, merged, last>>

Done == step = "done" /\ UNCHANGED vars

Next ==
  \/ Unwrap
  \/ Start \/ Continue \/ Joined
  \/ Separate
  \/ NextLoop
  \/ Render
  \/ Done

Spec == Init /\ [][Next]_vars

------------------------------------------------------------------------------

\* CHANGELOG.md:11-12, format.go:488-489, 540 and 545: what the first run
\* prints is left alone by a second one.
Stable == step = "done" => printed[2] = printed[1]

\* What the two runs printed, once they have.
Outputs == IF step = "done" THEN {printed[1], printed[2]} ELSE {}

\* Nothing is lost, repeated or moved: the specs come in the order of the
\* source.  Only the imports of one group are sorted.
Ids(text) == FlattenSeq([k \in 1..Len(text) |->
               [j \in 1..Len(text[k].specs) |-> text[k].specs[j].id]])
OtherIds(text) == Ids([k \in 1..Len(text) |->
               IF text[k].tok = "import" THEN [text[k] EXCEPT !.specs = <<>>] ELSE text[k]])
SpecsKept ==
  \A text \in Outputs :
    /\ Range(Ids(text)) = Range(Ids(source))
    /\ OtherIds(text) = OtherIds(source)

\* format.go:497-498: a directive is above the same specs as in the source, so
\* it is never stretched to a group its declaration was joined with, and what is
\* below one above a declaration is no part of another.
Places(text) == UNION {{k} \X (1..Len(text[k].specs)) : k \in 1..Len(text)}
AboveDecls(text) ==
  {{text[k].specs[j].id : j \in 1..Len(text[k].specs)} :
     k \in {k \in 1..Len(text) : text[k].doc = "directive"}}
AboveSpecs(text) ==
  {{text[kj[1]].specs[kj[2]].id} :
     kj \in {kj \in Places(text) : text[kj[1]].specs[kj[2]].doc = "directive"}}
DirectivesKept ==
  \A text \in Outputs :
    /\ AboveDecls(text) \union AboveSpecs(text)
         = AboveDecls(source) \union AboveSpecs(source)
    /\ AboveDecls(source) \subseteq AboveDecls(text)

\* format.go:147-149: formatting changes layout and the spelling of literals,
\* so a constant keeps its value: one that uses iota keeps its place among the
\* specs of its declaration.
Iotas(text) ==
  {<<text[kj[1]].specs[kj[2]].id, kj[2]>> :
     kj \in {kj \in Places(text) : text[kj[1]].specs[kj[2]].iota}}
ConstantsKept ==
  \A text \in Outputs : Iotas(text) = Iotas(source)

\* README.md:276, "Multiline top-level declarations must be separated by empty
\* lines": in what is printed.
Separated ==
  \A text \in Outputs : \A k \in 2..Len(text) :
    Height(text[k]) > 1 /\ Height(text[k - 1]) > 1 => text[k].blank

\* README.md:317, "Contiguous top-level declarations should be grouped
\* together": no lone declaration on one line is left right below another.
Grouped ==
  \A text \in Outputs : \A k \in 2..Len(text) :
    LET d == text[k] IN LET b == text[k - 1] IN
    /\ d.tok = b.tok /\ d.tok # "func"
    /\ Height(b) = 1 /\ b.specs # <<>> /\ ~d.paren
    /\ b.doc # "directive"
    /\ ~isCgoImport(b) /\ ~isCgoImport(d)
    => d.blank

=============================================================================
