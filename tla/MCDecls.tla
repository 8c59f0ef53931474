------------------------------- MODULE MCDecls -------------------------------
(* TLC instances of Decls: every file of up to Len declarations of the shapes  *)
(* below, imports first, each but the first with or without an empty line      *)
(* before it.                                                                  *)
EXTENDS Decls

CONSTANT Size

Spec1(doc, h, iota)  == [doc |-> doc, h |-> h, iota |-> iota]
Plain                == Spec1("none", 1, FALSE)
Gen(tok, paren, doc, specs) ==
  [tok |-> tok, paren |-> paren, doc |-> doc, specs |-> specs, h |-> 0,
   wide |-> FALSE, tall |-> FALSE, cgo |-> FALSE]
Func(h, wide, tall) ==
  [tok |-> "func", paren |-> FALSE, doc |-> "none", specs |-> <<>>, h |-> h,
   wide |-> wide, tall |-> tall, cgo |-> FALSE]

Lone(tok, doc)  == Gen(tok, FALSE, doc, <<Plain>>)
One(doc)        == Gen("var", TRUE, "none", <<Spec1(doc, 1, FALSE)>>)

Shapes ==
  {Lone("var", doc) : doc \in {"none", "comment", "directive"}} \union
  {Gen("var", FALSE, "none", <<Spec1("none", 2, FALSE)>>),
   One("none"), One("comment"),
   Gen("var", TRUE, "none", <<Spec1("none", 2, FALSE)>>),
   Gen("var", TRUE, "comment", <<Plain>>),
   Gen("var", TRUE, "none", <<Plain, Spec1("directive", 1, FALSE)>>),
   Gen("const", TRUE, "none", <<Plain, Spec1("none", 1, TRUE)>>),
   Lone("const", "none"),
   Lone("import", "none"), [Lone("import", "none") EXCEPT !.cgo = TRUE],
   Gen("import", TRUE, "none", <<Plain, Plain>>),
   Func(3, FALSE, FALSE), Func(1, TRUE, TRUE)}

Empty == Gen("var", TRUE, "none", <<>>)

\* What joining is wrong about.
DirectiveShapes == {One("directive"), Lone("var", "none")}
IotaShapes      == {Gen("const", FALSE, "none", <<Spec1("none", 1, TRUE)>>),
                    Lone("const", "none")}

Id(d, k, j) == CASE d.cgo -> -k
                 [] d.tok = "import" /\ ~d.cgo -> 100 - 10 * k - j
                 [] OTHER -> 10 * k + j

Text(shapes, blanks) ==
  [k \in 1..Len(shapes) |->
     LET d == shapes[k] IN
     [tok |-> d.tok, paren |-> d.paren, doc |-> d.doc, h |-> d.h,
      wide |-> d.wide, tall |-> d.tall, blank |-> blanks[k],
      specs |-> [j \in 1..Len(d.specs) |->
                   [id |-> Id(d, k, j), doc |-> d.specs[j].doc, h |-> d.specs[j].h,
                    iota |-> d.specs[j].iota, blank |-> FALSE]]]]

ImportsFirst(shapes) ==
  \A k \in 2..Len(shapes) :
    shapes[k].tok = "import" => shapes[k - 1].tok = "import"

Files(shapes, n) ==
  {Text(t[1], t[2]) : t \in
     {s \in [1..n -> shapes] : ImportsFirst(s)} \X {b \in [1..n -> BOOLEAN] : b[1]}}

MCSources          == Files(Shapes \union {Empty}, 2) \union Files(Shapes, Size)
MCDirectiveSources == Files(DirectiveShapes, Size)
MCIotaSources      == Files(IotaShapes, Size)
MCCgo              == -9..-1

=============================================================================
