-------------------------------- MODULE Printer --------------------------------
(***************************************************************************)
(* go/printer as gofumpt uses it (format/format.go and internal.go end in  *)
(* a Fprint): a file is printed declaration by declaration, what is left   *)
(* is flushed, the aligned lines go through the trimmer, and the result is *)
(* printed once more.  PrintBuffer has the printer, PrintNodes what the    *)
(* syntax tree makes it print.                                             *)
(***************************************************************************)
EXTENDS PrintNodes

CONSTANT Files  \* files to print: a text, its declarations and its block ends

VARIABLES
  file,     \* the file printed
  text,     \* what it is printed from: its text, then what was printed
  scan,     \* the tokens and comments of the text
  step,     \* "package", "decls", "trim" or "done"
  n,        \* how many declarations are printed
  p,        \* the printer
  trimmer,  \* the trimmer
  before    \* what the run before printed

vars == <<file, text, scan, step, n, p, trimmer, before>>

------------------------------------------------------------------------------
(* The tabwriter (external) and the trimmer *)

\* text/tabwriter writes what it is given cell by cell: leading tabs stay, other
\* tabs and vtabs are blanks; a cell of no text that ends with a vtab is nothing.
Cells(bytes) ==
  LET Put1(s, b) ==
        IF s.escaped \/ b = Escape
        THEN [s EXCEPT !.cell = Append(@, b), !.escaped = (@ # (b = Escape))]
        ELSE CASE b \in {<<newline>>, <<formfeed>>} ->
                    [s EXCEPT !.cells = @ \o <<s.cell, <<<<newline>>>>>>, !.cell = <<>>]
               [] b = <<vtab>> ->
                    [s EXCEPT !.cells = IF s.cell = <<>> THEN @ ELSE @ \o <<s.cell, <<<<" ">>>>>>,
                              !.cell = <<>>]
               [] b = <<"\t">> ->
                    [s EXCEPT !.cells = Append(@, Append(s.cell, IF s.cell = <<>> THEN b ELSE <<" ">>)),
                              !.cell = <<>>]
               [] OTHER -> [s EXCEPT !.cell = Append(@, b)]
      end == Fold(Put1, [cells |-> <<>>, cell |-> <<>>, escaped |-> FALSE], bytes)
  IN Append(end.cells, end.cell)

newTrimmer == [state |-> "inSpace", space |-> <<>>, output |-> <<>>]

resetSpace(t) == [t EXCEPT !.state = "inSpace", !.space = <<>>]
Emit(t, bytes) == [t EXCEPT !.output = @ \o bytes]

\* One byte of a Write.  What is pending of the data is written right away:
\* nothing looks at it before it is.
TrimByte(t, b) ==
  LET brk == b \in {<<newline>>, <<formfeed>>}
      space == b \in {<<" ">>, <<"\t">>, <<vtab>>}
  IN IF t.state = "inEscape"
     THEN IF b = Escape THEN resetSpace(t) ELSE Emit(t, <<b>>)
     ELSE IF space
     THEN IF t.state = "inText" THEN [resetSpace(t) EXCEPT !.space = <<b>>]
          ELSE [t EXCEPT !.space = Append(@, b)]
     ELSE IF brk THEN Emit(resetSpace(t), <<<<newline>>>>)
     ELSE LET out == IF t.state = "inSpace" THEN Emit(t, t.space) ELSE t
          IN IF b = Escape THEN [out EXCEPT !.state = "inEscape"]
             ELSE Emit([out EXCEPT !.state = "inText"], <<b>>)

\* trimmer.Write ends outside of the text it is in.
Write(t, data) ==
  LET end == Fold(TrimByte, t, data)
  IN IF end.state = "inSpace" THEN end ELSE resetSpace(end)

------------------------------------------------------------------------------

Groups(s) == [g \in DOMAIN s.groups |-> s.groups[g].list]

Init ==
  /\ file \in Files
  /\ text = file.text
  /\ scan = Scan(text)
  /\ p = newPrinter(Groups(scan))
  /\ step = "package"
  /\ n = 0
  /\ trimmer = newTrimmer
  /\ before = <<>>

PrintPackage ==
  /\ step = "package"
  /\ p' = print(PrintMode(p, {}), [arg |-> "package", source |-> scan])
  /\ step' = "decls"
  /\ UNCHANGED <<file, text, scan, n, trimmer, before>>

PrintDecl ==
  /\ step = "decls"
  /\ n < Len(file.decls)
  /\ p' = print(p, [arg |-> "decl", source |-> scan, x |-> file.decls[n + 1],
                    prev |-> IF n = 0 THEN ILLEGAL ELSE scan.toks[file.decls[n].at].t])
  /\ n' = n + 1
  /\ UNCHANGED <<file, text, scan, step, trimmer, before>>

\* The end of file, and of fprint: all that is pending is flushed.
Flush ==
  /\ step = "decls"
  /\ n = Len(file.decls)
  /\ p' = flush([PrintWhite(p, newline) EXCEPT !.impliedSemi = FALSE],
                At(infinity, infinity, 0), "EOF").p
  /\ step' = "trim"
  /\ UNCHANGED <<file, text, scan, n, trimmer, before>>

\* What was printed goes through the tabwriter and the trimmer.
Trim ==
  /\ step = "trim"
  /\ trimmer' = Fold(Write, trimmer, Cells(p.output))
  /\ step' = "done"
  /\ UNCHANGED <<file, text, scan, n, p, before>>

\* gofumpt once more, on what it printed.
Again ==
  /\ step = "done"
  /\ before = <<>>
  /\ before' = trimmer.output
  /\ text' = trimmer.output
  /\ scan' = Scan(text')
  /\ p' = newPrinter(Groups(scan'))
  /\ trimmer' = newTrimmer
  /\ step' = "package"
  /\ n' = 0
  /\ UNCHANGED file

Next == PrintPackage \/ PrintDecl \/ Flush \/ Trim \/ Again

Spec == Init /\ [][Next]_vars

------------------------------------------------------------------------------
(* Properties *)

\* The first of the two runs is over; what the second adds is Stable's.
Printed == step = "done" /\ before = <<>>

\* gofumpt prints the program it was given: the same tokens, the newlines that
\* are semicolons where the source has them, whatever the comments and line
\* breaks between them are.
SameCode ==
  Printed => Code(trimmer.output, file.ends) = Code(file.text, file.ends)

\* A comment of two slashes and nothing else above a declaration is dropped.
Said(comments) == SelectSeq(comments, LAMBDA c : c.text # <<"/", "/">>)

\* No comment is lost, written twice, or moved past another or past a token.
CommentsStay ==
  Printed => Said(Comments(trimmer.output)) = Said(Comments(file.text))

LineAt(bytes, k) ==
  LET starts == {0} \union {i \in 1..(k - 1) : bytes[i] = <<newline>>}
  IN SubSeq(bytes, Max(starts) + 1, k)
IndentAt(bytes, k) == Span(LineAt(bytes, k), {<<"\t">>})
StartsLine(bytes, k) == Len(LineAt(bytes, k)) = IndentAt(bytes, k) + 1

\* Where the tokens of the tree are in the bytes.
Places(bytes) ==
  SelectSeq([k \in DOMAIN bytes |-> k],
            LAMBDA k : IsTok(bytes[k]) /\ bytes[k][2] \notin Separators)

\* Pending indentation is written whether comments come before it or not: the
\* ends of a block, or two fields, that start a line start it in one column, and
\* nothing is pending at the end of the file.
Aligned ==
  /\ step = "trim" => p.indent = 0 /\ p.wsbuf = <<>> /\ p.mode = {} /\ p.level = 0
  /\ Printed =>
       LET out == trimmer.output
           places == Places(out)
       IN \A pair \in file.pairs :
            LET from == places[pair[1]]
                to == places[pair[2]]
            IN StartsLine(out, from) /\ StartsLine(out, to) => IndentAt(out, from) = IndentAt(out, to)

\* What gofumpt printed is what it prints again: gofumpt -l lists no file that
\* gofumpt -w just wrote.
Stable == step = "done" /\ before # <<>> => trimmer.output = before

================================================================================
