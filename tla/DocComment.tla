------------------------------- MODULE DocComment -------------------------------
(***************************************************************************)
(* How gofumpt reformats the documentation of a declaration                *)
(* (go/printer/comment.go, formatDocComment): the text of the comment is   *)
(* broken into spans of lines (go/doc/comment/parse.go, parseSpans), made  *)
(* blocks of, and the blocks are printed (go/doc/comment/print.go).  The   *)
(* comment that results is then reformatted once more.                     *)
(*                                                                         *)
(* A line is its leading white space and its words.  Words say what the    *)
(* parser asks of a line: "-" and "1." are list markers, "#" marks a       *)
(* heading, "X" is a word that may start an old one, "}" and "{" may be    *)
(* code, "[a]:" "url" is the definition of a link and "[a]" its use, and   *)
(* "go:x" is a directive if nothing is before it.                          *)
(***************************************************************************)
EXTENDS Integers, Sequences, FiniteSets, FiniteSetsExt, SequencesExt

CONSTANT Comments  \* the comments to format: a style, and lines without markers

\* Any word; those that printing writes are named, since no rule of the provers
\* says that they are strings.
Word == STRING \union {"-", "#"}
AnyLine == [lead : Seq({" ", "\t"}), words : Seq(Word)]

ASSUME CommentsAssumption == Comments \subseteq [style : {"//", "/*"}, lines : Seq(AnyLine)]

VARIABLES
  comment,      \* the comment as it is now
  directives,   \* the directives taken out of it
  lines,        \* the lines that are parsed
  i,            \* how many of them are in spans
  forceIndent,  \* lines before this one count as indented
  watchdog,     \* how many more turns the loop may take
  spans,        \* the spans found
  guessed,      \* whether a heuristic changed where a span ends
  source,       \* the comment at first
  once,         \* what it was reformatted to and from which blocks, in the second run
  step          \* "extract", "parse" or "done"

vars == <<comment, directives, lines, i, forceIndent, watchdog, spans, guessed, source, once, step>>

------------------------------------------------------------------------------
(* Lines *)

Line(lead, words) == [lead |-> lead, words |-> words]
Blank == Line(<<>>, <<>>)

Space(n) == [k \in 1..n |-> " "]
indented(line) == line.lead # <<>>

Bullets == {"-", "*"}
Numbers == {"1."}

isList(line) == Len(line.words) > 1 /\ line.words[1] \in Bullets \union Numbers
isHeading(line) == ~indented(line) /\ Len(line.words) > 1 /\ line.words[1] = "#"
Closes(line) == ~indented(line) /\ line.words # <<>> /\ line.words[1] = "}"
Opens(line) == line.words # <<>> /\ Last(line.words) = "{"

\* parseLink: a line that defines a link.
Defines(line) == ~indented(line) /\ Len(line.words) = 2 /\ line.words = <<"[a]:", "url">>

isOldHeading(all, k) ==
  /\ 1 < k /\ k + 2 <= Len(all)
  /\ all[k - 1] = Blank /\ all[k + 1] = Blank /\ all[k + 2].lead = <<>>
  /\ all[k].words[1] = "X"
  /\ \A w \in DOMAIN all[k].words : all[k].words[w] \in {"x", "X"}

\* The k-th of a set of numbers.
Nth(numbers, k) == CHOOSE n \in numbers : Cardinality({m \in numbers : m <= n}) = k

\* The elements with these numbers, in order.
Select(seq, numbers) == [k \in 1..Cardinality(numbers) |-> seq[Nth(numbers, k)]]

\* Without the blank lines around.
TrimBlanks(text) ==
  LET said == {k \in DOMAIN text : text[k] # Blank}
  IN IF said = {} THEN <<>> ELSE SubSeq(text, Min(said), Max(said))

\* A bug: the white space lines have in common is kept.
KeepIndent(text) == TrimBlanks([k \in DOMAIN text |-> IF text[k].words = <<>> THEN Blank ELSE text[k]])

\* Blank lines around and the white space lines have in common are removed, and
\* what is left of a line of white space.
unindent(text) ==
  LET trimmed == TrimBlanks(text)
      leads == {trimmed[k].lead : k \in {n \in DOMAIN trimmed : trimmed[n] # Blank}}
      common == IF leads = {} THEN 0 ELSE Len(LongestCommonPrefix(leads))
      Cut(line) == IF line.words = <<>> THEN Blank
                   ELSE [line EXCEPT !.lead = SubSeq(@, common + 1, Len(@))]
  IN TrimBlanks([k \in DOMAIN trimmed |-> Cut(trimmed[k])])

------------------------------------------------------------------------------
(* Blocks: what the second loop of Parse makes of the spans *)

\* A bug: one definition of a link is enough.
AnyLink(text) == \E k \in DOMAIN text : Defines(text[k])

\* paragraph: nothing but definitions of links is no paragraph.
AllLinks(text) == \A k \in DOMAIN text : Defines(text[k])

Trimmed(line) == Line(<<>>, line.words)

\* list: its items, each a sequence of paragraphs, and its links, as far as they
\* were found, and the text of the paragraph that is not ended.
EmptyList == [items |-> <<>>, text |-> <<>>, links |-> <<>>, between |-> FALSE]

Flush(s) ==
  IF s.items = <<>> THEN [s EXCEPT !.text = <<>>]
  ELSE IF s.text = <<>> \/ AllLinks(s.text)
  THEN [s EXCEPT !.text = <<>>, !.links = @ \o s.text]
  ELSE [s EXCEPT !.text = <<>>,
                 !.items[Len(s.items)].paras = Append(@, s.text)]

Take(s, line, first) ==
  LET number(l) == l.words[1] \in Numbers
      f == Flush(s)
      item == [marker |-> line.words[1], paras |-> <<>>]
  IN IF isList(line) /\ number(line) = number(first)
     THEN [f EXCEPT !.items = Append(@, item), !.text = <<Line(<<>>, Tail(line.words))>>]
     ELSE IF line.words = <<>>
     THEN [f EXCEPT !.between = TRUE]
     ELSE [s EXCEPT !.text = Append(@, Trimmed(line))]

TakeAll(text) == FoldLeft(LAMBDA s, line : Take(s, line, text[1]), EmptyList, text)

ListBlock(text, forceBlankBefore) ==
  LET end == Flush(TakeAll(text))
      loose == end.between \/ \E k \in DOMAIN end.items : Len(end.items[k].paras) # 1
  IN [kind |-> "list", items |-> end.items, links |-> end.links,
      loose |-> loose, before |-> forceBlankBefore \/ loose]

BlockOf(all, span, forceBlankBefore) ==
  LET text == SubSeq(all, span.start, span.end)
  IN CASE span.kind = "list" -> ListBlock(text, forceBlankBefore)
       [] span.kind = "code" -> [kind |-> "code", text |-> unindent(text)]
       [] span.kind = "old heading" -> [kind |-> "heading", text |-> <<Trimmed(text[1])>>]
       [] span.kind = "heading" -> [kind |-> "heading", text |-> <<Line(<<>>, Tail(text[1].words))>>]
       [] span.kind = "para" -> [kind |-> IF AllLinks(text) THEN "links" ELSE "para", text |-> text]

Blocks(all, list) ==
  [k \in DOMAIN list |->
     BlockOf(all, list[k], k > 1 /\ list[k - 1].end + 1 < list[k].start)]

------------------------------------------------------------------------------
(* Printing (commentPrinter) *)

\* The lines out, then those of text; the last line of out may be one that is
\* still open: a blank line only ends it.
Write(out, text) ==
  IF text = <<>> THEN out
  ELSE IF ~out.open THEN [out EXCEPT !.text = @ \o text]
  ELSE LET last == Last(out.text)
           joined == [last EXCEPT !.words = @ \o text[1].words]
       IN [text |-> Front(out.text) \o <<joined>> \o Tail(text), open |-> FALSE]

\* A paragraph after a list marker, or as a further one of an item.
Hang(text) == [k \in DOMAIN text |-> Line(Space(4), text[k].words)]

Para(out, paras, k) == Write(IF k = 1 THEN out ELSE Write(out, <<Blank>>), Hang(paras[k]))

ItemLines(out, item) ==
  LET marker == IF item.marker \in Bullets THEN Line(Space(2), <<"-">>)
                ELSE Line(Space(1), <<item.marker>>)
      start == [Write(out, <<marker>>) EXCEPT !.open = TRUE]
  IN FoldLeftDomain(LAMBDA o, k : Para(o, item.paras, k), start, item.paras)

Item(out, b, k) == ItemLines(IF k > 1 /\ b.loose THEN Write(out, <<Blank>>) ELSE out, b.items[k])

BlockLines(out, b) ==
  CASE b.kind = "para" -> Write(out, b.text)
    [] b.kind = "heading" -> Write(out, <<Line(<<>>, <<"#">> \o b.text[1].words)>>)
    [] b.kind = "code" ->
         Write(out, [k \in DOMAIN b.text |->
                       IF b.text[k] = Blank THEN Blank
                       ELSE [b.text[k] EXCEPT !.lead = <<"\t">> \o @]])
    [] b.kind = "list" ->
         FoldLeftDomain(LAMBDA o, k : Item(o, b, k), out, b.items)

\* A bug: only a list that asks for it gets a blank line.
OnlyIfAsked(b) == b.kind = "list" /\ b.before

blankBefore(b) == b.kind = "list" => b.before

\* The text of the paragraphs, where links are used.
UsedIn(b) ==
  CASE b.kind = "para" -> b.text
    [] b.kind = "list" -> FlattenSeq([k \in DOMAIN b.items |-> FlattenSeq(b.items[k].paras)])
    [] OTHER -> <<>>

\* parseLinkedText: whether a text uses a link; what looks like a definition,
\* within a paragraph, does as well.
Used(text) ==
  \E l \in DOMAIN text : \E w \in DOMAIN text[l].words : text[l].words[w] \in {"[a]", "[a]:"}

LinksOf(b) ==
  CASE b.kind = "links" -> b.text
    [] b.kind = "list" -> b.links
    [] OTHER -> <<>>

Add(out, content, k) ==
  BlockLines(IF k > 1 /\ blankBefore(content[k]) THEN Write(out, <<Blank>>) ELSE out, content[k])

\* Comment: the blocks, then the definitions of links that are used (the first
\* of a name), then the others.
Comment(blocks) ==
  LET content == Select(blocks, {k \in DOMAIN blocks : blocks[k].kind # "links"})
      links == FlattenSeq([k \in DOMAIN blocks |-> LinksOf(blocks[k])])
      used == \E k \in DOMAIN content : Used(UsedIn(content[k]))
      uses == IF used /\ links # <<>> THEN 1 ELSE 0
      Section(out, text) == IF text = <<>> THEN out ELSE Write(Write(out, <<Blank>>), text)
      body == FoldLeftDomain(LAMBDA o, k : Add(o, content, k), [text |-> <<>>, open |-> FALSE], content)
  IN Section(Section(body, SubSeq(links, 1, uses)), SubSeq(links, uses + 1, Len(links))).text

------------------------------------------------------------------------------
(* formatDocComment *)

isDirective(line) == ~indented(line) /\ line.words # <<>> /\ line.words[1] = "go:x"

allStars(text) ==
  \A k \in 2..Len(text) :
    IF text[k].words = <<>> THEN k = Len(text) ELSE text[k].words[1] = "*"

\* A comment the text of which is left alone.
Ignored(c) ==
  IF c.style = "/*" THEN Len(c.lines) = 1 \/ allStars(c.lines)
  ELSE \A k \in DOMAIN c.lines : isDirective(c.lines[k])

\* What is after the two slashes loses one blank.
AfterSlashes(line) ==
  IF line.lead # <<>> /\ line.lead[1] = " " THEN [line EXCEPT !.lead = Tail(@)] ELSE line
WithSlashes(line) ==
  IF line = Blank \/ (line.lead # <<>> /\ line.lead[1] = "\t") THEN line
  ELSE [line EXCEPT !.lead = <<" ">> \o @]

Directives(c) == {k \in DOMAIN c.lines : isDirective(c.lines[k])}

TextOf(c) ==
  IF c.style = "/*" THEN c.lines
  ELSE LET text == Select(c.lines, DOMAIN c.lines \ Directives(c))
       IN [k \in DOMAIN text |-> AfterSlashes(text[k])]

\* A bug: the directives are not set apart from the text.
WithoutBlank(style, text, ds) ==
  IF style = "/*" THEN <<Blank>> \o text \o <<Blank>>
  ELSE [k \in DOMAIN text |-> WithSlashes(text[k])] \o ds

Compose(style, text, ds) ==
  IF style = "/*" THEN <<Blank>> \o text \o <<Blank>>
  ELSE [k \in DOMAIN text |-> WithSlashes(text[k])]
       \o (IF ds = <<>> THEN <<>> ELSE <<Blank>> \o ds)

Init ==
  /\ comment \in Comments
  /\ source = comment
  /\ once = <<>>
  /\ step = "extract"
  /\ directives = <<>> /\ lines = <<>> /\ spans = <<>>
  /\ i = 0 /\ forceIndent = 0 /\ watchdog = 0
  /\ guessed = FALSE

\* The text of the comment, or the comment as it is.
Extract ==
  /\ step = "extract"
  /\ IF Ignored(comment)
     THEN step' = "done" /\ UNCHANGED <<directives, lines, watchdog>>
     ELSE /\ step' = "parse"
          /\ lines' = unindent(TextOf(comment))
          /\ directives' = IF comment.style = "/*" THEN <<>>
                           ELSE Select(comment.lines, Directives(comment))
          /\ watchdog' = 2 * Len(lines')
  /\ UNCHANGED <<comment, i, forceIndent, spans, guessed, source, once>>

\* The start of the next span.
Start == LET said == {k \in (i + 1)..Len(lines) : lines[k] # Blank}
         IN IF said = {} THEN Len(lines) + 1 ELSE Min(said)

Forced(k) == k <= forceIndent \/ indented(lines[k])

\* A bug: the line a span ends before is skipped, as if it were blank.
SkippingSpan(start, end, kind) ==
  /\ spans' = Append(spans, [start |-> start, end |-> end, kind |-> kind])
  /\ i' = end + 1

AddSpan(start, end, kind) ==
  /\ spans' = Append(spans, [start |-> start, end |-> end, kind |-> kind])
  /\ i' = end

\* Indented lines, blank ones among them, and a last one that is a brace.
IndentedSpan ==
  /\ step = "parse"
  /\ Start <= Len(lines)
  /\ Forced(Start)
  /\ watchdog' = watchdog - 1
  /\ LET start == Start
         unindentedListOK == isList(lines[start]) /\ start <= forceIndent
         goesOn(k) ==
           \/ lines[k] = Blank \/ Forced(k)
           \/ unindentedListOK /\ isList(lines[k]) /\ \A b \in start..k : lines[b] # Blank
         stops == {k \in (start + 1)..Len(lines) : ~goesOn(k)}
         stop == IF stops = {} THEN Len(lines) + 1 ELSE Min(stops)
         last == Max({k \in start..(stop - 1) : lines[k] # Blank})
         brace == last < Len(lines) /\ Closes(lines[last + 1])
     IN /\ AddSpan(start, IF brace THEN last + 1 ELSE last,
                   IF isList(lines[start]) THEN "list" ELSE "code")
        /\ guessed' = (guessed \/ brace)
  /\ UNCHANGED <<comment, directives, lines, forceIndent, source, once, step>>

\* The end of the unindented lines from start to before stop, when indented ones
\* follow that start no list: those that look like the items of a list, or the
\* last if it looks like code, are left to the indented ones.
Left(start, stop) ==
  IF isList(lines[stop - 1])
  THEN Max({k \in (start - 1)..(stop - 2) : k = start - 1 \/ ~isList(lines[k])})
  ELSE IF Opens(lines[stop - 1]) THEN stop - 2
  ELSE stop - 1

\* A bug: the lines left to the indented ones are not indented themselves.
NotForced(end, stop) == forceIndent

\* The lines left to the indented ones count as indented.
ForceIndent(end, stop) == IF end < stop - 1 THEN stop - 1 ELSE forceIndent

\* Unindented lines, to the next blank or indented one.  If all are left to the
\* indented ones the loop starts over.
UnindentedSpan ==
  /\ step = "parse"
  /\ Start <= Len(lines)
  /\ ~Forced(Start)
  /\ watchdog' = watchdog - 1
  /\ LET start == Start
         stops == {k \in (start + 1)..Len(lines) : lines[k] = Blank \/ indented(lines[k])}
         stop == IF stops = {} THEN Len(lines) + 1 ELSE Min(stops)
         looks == stop <= Len(lines) /\ lines[stop] # Blank /\ ~isList(lines[stop])
         end == IF looks THEN Left(start, stop) ELSE stop - 1
         kind == IF end = start /\ isHeading(lines[start]) THEN "heading"
                 ELSE IF end = start /\ isOldHeading(lines, start) THEN "old heading"
                 ELSE "para"
     IN /\ forceIndent' = ForceIndent(end, stop)
        /\ guessed' = (guessed \/ end < stop - 1)
        /\ IF end < start
           THEN i' = start - 1 /\ UNCHANGED spans
           ELSE AddSpan(start, end, kind)
  /\ UNCHANGED <<comment, directives, lines, source, once, step>>

\* All is in spans: the comment is what its blocks are printed as.
Finish ==
  /\ step = "parse"
  /\ Start > Len(lines)
  /\ comment' = [comment EXCEPT !.lines = Compose(comment.style, Comment(Blocks(lines, spans)), directives)]
  /\ step' = "done"
  /\ UNCHANGED <<directives, lines, i, forceIndent, watchdog, spans, guessed, source, once>>

\* gofumpt once more.
Again ==
  /\ step = "done"
  /\ once = <<>>
  /\ once' = <<comment, [k \in DOMAIN spans |-> Blocks(lines, spans)[k].kind]>>
  /\ step' = "extract"
  /\ directives' = <<>> /\ lines' = <<>> /\ spans' = <<>>
  /\ i' = 0 /\ forceIndent' = 0 /\ watchdog' = 0
  /\ guessed' = FALSE
  /\ UNCHANGED <<comment, source>>

Next == Extract \/ IndentedSpan \/ UnindentedSpan \/ Finish \/ Again

Spec == Init /\ [][Next]_vars

------------------------------------------------------------------------------
(* Properties *)

\* The watchdog of parseSpans never barks: a line is gone through once, or once
\* more as one that counts as indented.
MakesProgress == watchdog >= 0

\* The spans are one after the other, and no line that says something is in
\* none, up to the last one when parseSpans is done: Parse makes blocks of all
\* of them.
SpansCover ==
  /\ \A k \in DOMAIN spans : spans[k].start <= spans[k].end /\ spans[k].end <= Len(lines)
  /\ \A k \in 2..Len(spans) : spans[k - 1].end < spans[k].start
  /\ \A k \in DOMAIN lines :
       (k <= i \/ step = "done") /\ lines[k] # Blank => \E s \in DOMAIN spans : k \in spans[s].start..spans[s].end

IsLink(words) == words = <<"[a]:", "url">>
Marks == Bullets \union Numbers \union {"#"}

\* Words without the marks they start with.
Unmarked(words) ==
  LET said == {k \in DOMAIN words : words[k] \notin Marks}
  IN IF said = {} THEN <<>> ELSE SubSeq(words, Min(said), Len(words))

\* What a comment says: its words without those that mark an item or a heading,
\* directives (there are none in a comment of the other style) and definitions
\* of links.
Said(c) ==
  FlattenSeq([k \in DOMAIN c.lines |->
    LET words == Unmarked(c.lines[k].words)
    IN IF IsLink(words) \/ (c.style = "//" /\ isDirective(c.lines[k])) THEN <<>> ELSE words])

LinksIn(c) == Cardinality({k \in DOMAIN c.lines : IsLink(Unmarked(c.lines[k].words))})

\* Reformatting a comment keeps all it says, in its order; a link may move to
\* the end but is neither lost nor defined twice.
TextKept ==
  step = "done" => Said(comment) = Said(source) /\ LinksIn(comment) = LinksIn(source)

\* The directives of a comment are kept, in their order, at its end, and after
\* an empty line if there is text: the text above them never joins them.
DirectivesApart ==
  step = "done" /\ source.style = "//" =>
    LET n == Cardinality(Directives(comment))
        text == Len(comment.lines) - n
    IN /\ Select(comment.lines, Directives(comment)) = Select(source.lines, Directives(source))
       /\ n > 0 => Directives(comment) = (text + 1)..Len(comment.lines)
       /\ n > 0 /\ text > 0 => comment.lines[text] = Blank

\* Blocks of which one is unindented, none of code or of a list follows another
\* directly, and links are last.
Apart(kinds) ==
  /\ kinds # <<>> => \E k \in DOMAIN kinds : kinds[k] \in {"para", "heading"}
  /\ \A k \in 2..Len(kinds) : ~({kinds[k - 1], kinds[k]} \subseteq {"list", "code"})
  /\ \A k \in 1..(Len(kinds) - 1) : kinds[k] # "links"

\* A comment that was reformatted is left as it is, if its blocks are Apart: a
\* printed list and code after it read as one list.
Settled == step = "done" /\ once # <<>> /\ Apart(once[2]) => comment = once[1]

\* parse.go says of each heuristic that it will never trigger on a comment that
\* gofmt has formatted.  True of one with an unindented line: the indentation of
\* a comment that is all code, or one list, is removed before it is parsed.
HeuristicsRest ==
  once # <<>> /\ (\E k \in DOMAIN TextOf(once[1]) :
                     TextOf(once[1])[k] # Blank /\ ~indented(TextOf(once[1])[k]))
    => ~guessed

================================================================================
