------------------------------- MODULE MCPrinter -------------------------------
(* TLC instances of Printer: small files of every kind of node, each with the *)
(* white space of one gap changed or a comment put into it.                   *)
EXTENDS Printer, TLC

T(t) == <<"tok", t>>
NL == <<"\n">>
Tab == <<"\t">>
Blank == <<" ">>

\* Nodes, by the numbers of their tokens.
Basic(i) == [kind |-> "basic", at |-> i, to |-> i]
Expr(e)  == [kind |-> "expr", at |-> e.at, x |-> e]
Xs(i)    == Expr(Basic(i))
Block(open, list, to) == [kind |-> "block", at |-> open, open |-> open, list |-> list, to |-> to]
Fields(at, list, to) == [at |-> at, list |-> list, to |-> to]
Names(at, names, type) == [at |-> at, names |-> names, type |-> type, to |-> type.to]
Sig(params, results) == [params |-> params, results |-> results]
Func(at, recv, name, sig, body) ==
  [at |-> at, recv |-> recv, name |-> Basic(name), sig |-> sig, body |-> body, to |-> body.to]
Void(body) == Func(3, <<>>, 4, Sig(Fields(5, <<>>, 6), <<>>), body)
Main(list, to) == <<Void(Block(7, list, to))>>
Call(at, fun, open, args, to) == [kind |-> "call", at |-> at, fun |-> fun, open |-> open, args |-> args, to |-> to]
Lit(f, open, args, to) == [kind |-> "lit", at |-> f, fun |-> Basic(f), open |-> open, args |-> args, to |-> to]
Pair(i) == [kind |-> "keyvalue", at |-> i, key |-> Basic(i), colon |-> i + 1, value |-> Basic(i + 2), to |-> i + 2]
Select(x, to) == [kind |-> "selector", at |-> x.at, x |-> x, to |-> to]
Assign(lhs, tok, rhs) == [kind |-> "assign", at |-> lhs[1].at, lhs |-> lhs, tok |-> tok, rhs |-> rhs]
Control(kind, at, init, cond, post, body) ==
  [kind |-> kind, at |-> at, init |-> init, cond |-> cond, post |-> post, body |-> body]
If(at, init, cond, body, else) == [kind |-> "if", at |-> at, init |-> init, cond |-> <<cond>>, post |-> <<>>,
                                   body |-> body, else |-> else]
Case(at, exprs, colon, list) == [kind |-> "case", at |-> at, exprs |-> exprs, colon |-> colon, list |-> list]
Comm(at, comm, colon, list) == [kind |-> "comm", at |-> at, comm |-> comm, colon |-> colon, list |-> list]
Binary(x, op, y) == [kind |-> "binary", at |-> x.at, x |-> x, op |-> op, y |-> y, to |-> y.to]
Value(at, type, values, to) == [kind |-> "value", at |-> at, names |-> <<Basic(at)>>, type |-> type,
                                values |-> values, to |-> to]
Gen(at, open, specs, to) == [at |-> at, open |-> open, specs |-> specs, to |-> to]
Type(i, x) == <<Gen(i, 0, <<[kind |-> "type", at |-> i + 1, name |-> Basic(i + 1), type |-> x, to |-> x.to]>>, x.to)>>

\* A template: for each token the default text before it, and its depth; the
\* declarations; the closing braces of blocks; tokens that begin and end
\* something whose ends are aligned; and the gaps that are edited, and whether
\* with all of the edits.
Package == <<<<"", "package", 0>>, <<" ", "x", 0>>>>
InFunc(rest) ==
  Package \o <<<<"\n\n", "func", 0>>, <<" ", "x", 0>>, <<"", "(", 0>>, <<"", ")", 0>>, <<" ", "{", 0>>>> \o rest
New(toks, decls, ends, pairs, edits, all) ==
  [toks |-> toks, decls |-> decls, ends |-> ends, pairs |-> pairs, edits |-> edits, all |-> all]
Close == <<"\n", "}", 0>>

Templates == {
  \* x  y
  New(InFunc(<<<<"\n", "x", 1>>, <<"\n", "y", 1>>, Close>>),
      Main(<<Xs(8), Xs(9)>>, 10), {10}, {<<3, 10>>}, {3, 4, 7, 8, 9, 10, 11}, TRUE),
  \* x: y
  New(InFunc(<<<<"\n", "x", 0>>, <<"", ":", 0>>, <<"\n", "y", 1>>, Close>>),
      Main(<<[kind |-> "labeled", at |-> 8, label |-> Basic(8), colon |-> 9, stmt |-> Xs(10)]>>, 11),
      {11}, {<<3, 11>>, <<8, 11>>}, 8..11, TRUE),
  \* switch { default: x case x, y: y }
  New(InFunc(<<<<"\n", "switch", 1>>, <<" ", "{", 1>>, <<"\n", "default", 1>>, <<"", ":", 1>>, <<"\n", "x", 2>>,
               <<"\n", "case", 1>>, <<" ", "x", 1>>, <<",", "y", 1>>, <<"", ":", 1>>, <<"\n", "y", 2>>,
               <<"\n", "}", 1>>, Close>>),
      Main(<<Control("switch", 8, <<>>, <<>>, <<>>,
               Block(9, <<Case(10, <<>>, 11, <<Xs(12)>>), Case(13, <<Basic(14), Basic(15)>>, 16, <<Xs(17)>>)>>, 18))>>, 19),
      {18, 19}, {<<8, 18>>, <<10, 18>>, <<13, 18>>}, {9, 10, 12, 13, 14, 15, 17, 18}, FALSE),
  \* select { case x: y default: }
  New(InFunc(<<<<"\n", "select", 1>>, <<" ", "{", 1>>, <<"\n", "case", 1>>, <<" ", "x", 1>>, <<"", ":", 1>>,
               <<"\n", "y", 2>>, <<"\n", "default", 1>>, <<"", ":", 1>>, <<"\n", "}", 1>>, Close>>),
      Main(<<[kind |-> "select", at |-> 8, body |->
               Block(9, <<Comm(10, <<Xs(11)>>, 12, <<Xs(13)>>), Comm(14, <<>>, 15, <<>>)>>, 16)]>>, 17),
      {16, 17}, {<<8, 16>>, <<10, 16>>}, {9, 10, 11, 13, 14, 16, 17}, FALSE),
  \* select { }
  New(InFunc(<<<<"\n", "select", 1>>, <<" ", "{", 1>>, <<"", "}", 1>>, Close>>),
      Main(<<[kind |-> "select", at |-> 8, body |-> Block(9, <<>>, 10)]>>, 11),
      {10, 11}, {<<8, 10>>}, 9..11, FALSE),
  \* x(x, y)
  New(InFunc(<<<<"\n", "x", 1>>, <<"", "(", 1>>, <<"", "x", 2>>, <<",", "y", 2>>, <<"", ")", 1>>, Close>>),
      Main(<<Expr(Call(8, Basic(8), 9, <<Basic(10), Basic(11)>>, 12))>>, 13), {13}, {<<3, 13>>}, 10..13, TRUE),
  \* x{x, raw}
  New(InFunc(<<<<"\n", "x", 1>>, <<"", "{", 1>>, <<"", "x", 2>>, <<",", "raw", 2>>, <<"", "}", 1>>, Close>>),
      Main(<<Expr(Lit(8, 9, <<Basic(10), Basic(11)>>, 12))>>, 13), {13}, {<<3, 13>>}, 10..13, FALSE),
  \* y := x{x: y, y: x}
  New(InFunc(<<<<"\n", "y", 1>>, <<" ", ":=", 1>>, <<" ", "x", 1>>, <<"", "{", 1>>,
               <<"\n", "x", 2>>, <<"", ":", 2>>, <<" ", "y", 2>>, <<",\n", "y", 2>>, <<"", ":", 2>>, <<" ", "x", 2>>,
               <<",\n", "}", 1>>, Close>>),
      Main(<<Assign(<<Basic(8)>>, 9, <<Lit(10, 11, <<Pair(12), Pair(15)>>, 18)>>)>>, 19),
      {19}, {<<12, 15>>}, 9..19, FALSE),
  \* x.y(y).x(x)
  New(InFunc(<<<<"\n", "x", 1>>, <<".", "y", 2>>, <<"", "(", 1>>, <<"", "y", 2>>, <<"", ")", 1>>,
               <<".", "x", 2>>, <<"", "(", 1>>, <<"", "x", 2>>, <<"", ")", 1>>, Close>>),
      Main(<<Expr(Call(8, Select(Call(8, Select(Basic(8), 9), 10, <<Basic(11)>>, 12), 13), 14, <<Basic(15)>>, 16))>>, 17),
      {17}, {<<3, 17>>}, {9, 11, 12, 13, 15, 16, 17}, FALSE),
  \* x(func() { y }, x)
  New(InFunc(<<<<"\n", "x", 1>>, <<"", "(", 1>>, <<"", "func", 1>>, <<"", "(", 1>>, <<"", ")", 1>>, <<" ", "{", 1>>,
               <<"\n", "y", 2>>, <<"\n", "}", 1>>, <<",", "x", 2>>, <<"", ")", 1>>, Close>>),
      Main(<<Expr(Call(8, Basic(8), 9,
                <<[kind |-> "funclit", at |-> 10, sig |-> Sig(Fields(11, <<>>, 12), <<>>),
                   body |-> Block(13, <<Xs(14)>>, 15), to |-> 15], Basic(16)>>, 17))>>, 18),
      {15, 18}, {<<10, 15>>, <<8, 17>>}, 10..18, FALSE),
  \* return x+y*-x
  New(InFunc(<<<<"\n", "return", 1>>, <<" ", "x", 1>>, <<"", "+", 1>>, <<"", "y", 1>>, <<"", "*", 1>>, <<"", "-", 1>>,
               <<"", "x", 1>>, Close>>),
      Main(<<[kind |-> "return", at |-> 8, results |->
                <<Binary(Basic(9), 10, Binary(Basic(11), 12, [kind |-> "unary", at |-> 13, op |-> 13, to |-> 14, x |-> Basic(14)]))>>]>>, 15),
      {15}, {<<3, 15>>}, 9..15, FALSE),
  \* return x, y-(-x)
  New(InFunc(<<<<"\n", "return", 1>>, <<" ", "x", 1>>, <<",", "y", 1>>, <<"", "-", 1>>, <<"", "(", 1>>, <<"", "-", 1>>,
               <<"", "x", 1>>, <<"", ")", 1>>, Close>>),
      Main(<<[kind |-> "return", at |-> 8, results |->
                <<Basic(9), Binary(Basic(10), 11, [kind |-> "paren", at |-> 12, to |-> 15, x |->
                    [kind |-> "unary", at |-> 13, op |-> 13, to |-> 14, x |-> Basic(14)]])>>]>>, 16),
      {16}, {<<3, 16>>}, 10..16, FALSE),
  \* if x := y; x { y } else { x }
  New(InFunc(<<<<"\n", "if", 1>>, <<" ", "x", 1>>, <<" ", ":=", 1>>, <<" ", "y", 1>>, <<";", "x", 1>>, <<" ", "{", 1>>,
               <<"\n", "y", 2>>, <<"\n", "}", 1>>, <<"else", "{", 1>>, <<"\n", "x", 2>>, <<"\n", "}", 1>>, Close>>),
      Main(<<If(8, <<Assign(<<Basic(9)>>, 10, <<Basic(11)>>)>>, Basic(12), Block(13, <<Xs(14)>>, 15),
                <<Block(16, <<Xs(17)>>, 18)>>)>>, 19),
      {15, 18, 19}, {<<8, 15>>, <<8, 18>>}, {9, 11, 12, 13, 14, 15, 16, 18}, FALSE),
  \* for x := y; x; x++ { y }
  New(InFunc(<<<<"\n", "for", 1>>, <<" ", "x", 1>>, <<" ", ":=", 1>>, <<" ", "y", 1>>, <<";", "x", 1>>, <<";", "x", 1>>,
               <<"", "++", 1>>, <<" ", "{", 1>>, <<"\n", "y", 2>>, <<"\n", "}", 1>>, Close>>),
      Main(<<Control("for", 8, <<Assign(<<Basic(9)>>, 10, <<Basic(11)>>)>>, <<Basic(12)>>,
                     <<[kind |-> "incdec", at |-> 13, x |-> Basic(13), tok |-> 14]>>, Block(15, <<Xs(16)>>, 17))>>, 18),
      {17, 18}, {<<8, 17>>}, {9, 11, 12, 13, 15, 16, 17}, FALSE),
  \* for x, y := range x { go x() continue }
  New(InFunc(<<<<"\n", "for", 1>>, <<" ", "x", 1>>, <<",", "y", 1>>, <<" ", ":=", 1>>, <<"range", "x", 1>>, <<" ", "{", 1>>,
               <<"\n", "go", 2>>, <<" ", "x", 2>>, <<"", "(", 2>>, <<"", ")", 2>>, <<"\n", "continue", 2>>,
               <<"\n", "}", 1>>, Close>>),
      Main(<<[kind |-> "range", at |-> 8, key |-> Basic(9), value |-> Basic(10), tok |-> 11, x |-> Basic(12), body |->
                Block(13, <<[kind |-> "go", at |-> 14, call |-> Call(15, Basic(15), 16, <<>>, 17)],
                            [kind |-> "branch", at |-> 18]>>, 19)]>>, 20),
      {19, 20}, {<<8, 19>>}, {10, 12, 13, 14, 15, 17, 18, 19}, FALSE),
  \* x[y], y := *x, y
  New(InFunc(<<<<"\n", "x", 1>>, <<"", "[", 1>>, <<"", "y", 1>>, <<"", "]", 1>>, <<",", "y", 1>>, <<" ", ":=", 1>>,
               <<" ", "*", 2>>, <<"", "x", 2>>, <<",", "y", 2>>, Close>>),
      Main(<<Assign(<<[kind |-> "index", at |-> 8, x |-> Basic(8), open |-> 9, index |-> Basic(10), to |-> 11], Basic(12)>>, 13,
                    <<[kind |-> "star", at |-> 14, x |-> Basic(15), to |-> 15], Basic(16)>>)>>, 17),
      {17}, {<<3, 17>>}, {10, 12, 14, 15, 16, 17}, FALSE),
  \* func x() { x }
  New(InFunc(<<<<" ", "x", 1>>, <<" ", "}", 0>>>>), Main(<<Xs(8)>>, 9), {9}, {<<3, 9>>}, {7, 8, 9, 10}, TRUE),
  \* func (x y) x(x, y y, y *x) (x y) { } func x() y { }
  New(Package \o <<<<"\n\n", "func", 0>>, <<" ", "(", 0>>, <<"", "x", 0>>, <<" ", "y", 0>>, <<"", ")", 0>>, <<" ", "x", 0>>,
                   <<"", "(", 0>>, <<"", "x", 1>>, <<",", "y", 1>>, <<" ", "y", 1>>, <<",", "y", 1>>, <<" ", "*", 1>>, <<"", "x", 1>>,
                   <<"", ")", 0>>, <<" ", "(", 0>>, <<"", "x", 1>>, <<" ", "y", 1>>, <<"", ")", 0>>, <<" ", "{", 0>>, <<"", "}", 0>>>>,
      <<Func(3, <<Fields(4, <<Names(5, <<Basic(5)>>, Basic(6))>>, 7)>>, 8,
             Sig(Fields(9, <<Names(10, <<Basic(10), Basic(11)>>, Basic(12)),
                             Names(13, <<Basic(13)>>, [kind |-> "star", at |-> 14, x |-> Basic(15), to |-> 15])>>, 16),
                 <<Fields(17, <<Names(18, <<Basic(18)>>, Basic(19))>>, 20)>>), Block(21, <<>>, 22))>>,
      {22}, {<<3, 22>>}, {5, 7, 10, 11, 13, 16, 18, 20, 21, 22, 23}, FALSE),
  \* type x struct { x y  y }
  New(Package \o <<<<"\n\n", "type", 0>>, <<" ", "x", 0>>, <<" ", "struct", 0>>, <<" ", "{", 0>>, <<"\n", "x", 1>>, <<" ", "y", 1>>,
                   <<"\n", "y", 1>>, Close>>,
      Type(3, [kind |-> "struct", at |-> 5, open |-> 6, to |-> 10,
               list |-> <<Names(7, <<Basic(7)>>, Basic(8)), Names(9, <<>>, Basic(9))>>]),
      {10}, {<<3, 10>>, <<7, 9>>}, 4..11, FALSE),
  \* type x struct { x y }
  New(Package \o <<<<"\n\n", "type", 0>>, <<" ", "x", 0>>, <<" ", "struct", 0>>, <<"", "{", 0>>, <<" ", "x", 1>>, <<" ", "y", 1>>,
                   <<" ", "}", 0>>>>,
      Type(3, [kind |-> "struct", at |-> 5, open |-> 6, to |-> 9, list |-> <<Names(7, <<Basic(7)>>, Basic(8))>>]),
      {9}, {<<3, 9>>}, 6..10, FALSE),
  \* type x interface { x() y  y }
  New(Package \o <<<<"\n\n", "type", 0>>, <<" ", "x", 0>>, <<" ", "interface", 0>>, <<" ", "{", 0>>,
                   <<"\n", "x", 1>>, <<"", "(", 1>>, <<"", ")", 1>>, <<" ", "y", 1>>, <<"\n", "y", 1>>, Close>>,
      Type(3, [kind |-> "interface", at |-> 5, open |-> 6, to |-> 12, list |->
                <<[at |-> 7, names |-> <<Basic(7)>>, to |-> 10, type |->
                     Sig(Fields(8, <<>>, 9), <<Fields(0, <<Names(10, <<>>, Basic(10))>>, 0)>>)],
                  Names(11, <<>>, Basic(11))>>]),
      {12}, {<<3, 12>>, <<7, 11>>}, {6, 7, 10, 11, 12, 13}, FALSE),
  \* var ( x y  y x ) var x y
  New(Package \o <<<<"\n\n", "var", 0>>, <<" ", "(", 0>>, <<"\n", "x", 1>>, <<" ", "y", 1>>, <<"\n", "y", 1>>, <<" ", "x", 1>>,
                   <<"\n", ")", 0>>, <<"\n", "var", 0>>, <<" ", "x", 0>>, <<" ", "y", 0>>>>,
      <<Gen(3, 4, <<Value(5, <<Basic(6)>>, <<>>, 6), Value(7, <<Basic(8)>>, <<>>, 8)>>, 9),
        Gen(10, 0, <<Value(11, <<Basic(12)>>, <<>>, 12)>>, 12)>>,
      {}, {<<3, 9>>, <<5, 7>>}, {3, 5, 7, 9, 10, 13}, TRUE),
  \* const ( x y = x  y = x  x )
  New(Package \o <<<<"\n\n", "const", 0>>, <<" ", "(", 0>>, <<"\n", "x", 1>>, <<" ", "y", 1>>, <<"=", "x", 1>>, <<"\n", "y", 1>>,
                   <<"=", "x", 1>>, <<"\n", "x", 1>>, <<"\n", ")", 0>>>>,
      <<Gen(3, 4, <<Value(5, <<Basic(6)>>, <<Basic(7)>>, 7), Value(8, <<>>, <<Basic(9)>>, 9), Value(10, <<>>, <<>>, 10)>>, 11)>>,
      {}, {<<3, 11>>, <<5, 8>>, <<8, 10>>}, 5..12, FALSE),
  \* import ( x  y ) func x() { }
  New(Package \o <<<<"\n\n", "import", 0>>, <<" ", "(", 0>>, <<"\n", "x", 1>>, <<"\n", "y", 1>>, <<"\n", ")", 0>>,
                   <<"\n\n", "func", 0>>, <<" ", "x", 0>>, <<"", "(", 0>>, <<"", ")", 0>>, <<" ", "{", 0>>, <<"", "}", 0>>>>,
      <<Gen(3, 4, <<[kind |-> "import", at |-> 5, to |-> 5], [kind |-> "import", at |-> 6, to |-> 6]>>, 7),
        Func(8, <<>>, 9, Sig(Fields(10, <<>>, 11), <<>>), Block(12, <<>>, 13))>>,
      {13}, {<<3, 7>>}, {3, 4, 5, 6, 7, 8, 14}, FALSE)}

------------------------------------------------------------------------------
\* The text before a token: what has no position, then white space.
Sep(pre) ==
  CASE pre \in {",", ",\n"} -> <<T(",")>> [] pre = "." -> <<T(".")>> [] pre = ";" -> <<T(";")>>
    [] pre \in {"=", "else", "range"} -> <<Blank, T(pre)>> [] OTHER -> <<>>
Gap(k, d) == IF k = 0 THEN <<Blank>> ELSE [i \in 1..k |-> NL] \o [i \in 1..d |-> Tab]
White0(pre, d) ==
  CASE pre \in {"", "."} -> <<>> [] pre \in {"\n", ",\n"} -> Gap(1, d)
    [] pre = "\n\n" -> Gap(2, d) [] OTHER -> <<Blank>>

Comment(kind) ==
  CASE kind = "line" -> <<<<"/", "/", " ", "a">>>>
    [] kind = "tight" -> <<<<"/", "/", "a">>>>
    [] kind = "empty" -> <<<<"/", "/">>>>
    [] kind = "gen" -> <<<<"/", "*", "a", "*", "/">>>>
    [] kind = "multi" -> <<<<"/", "*", "a">>, NL, <<"a", "*", "/">>>>
    [] kind = "group" -> <<<<"/", "*", "a", "*", "/">>, <<" ">>, <<"/", "/", " ", "a">>, NL, Tab, <<"/", "/", " ", "a">>>>
    [] kind = "groups" -> <<<<"/", "/", " ", "a">>, NL, NL, Tab, <<"/", "/", " ", "a">>>>
    [] kind = "stars" -> <<<<"/", "*", "a">>, NL, <<" ", "*", "a", "*", "/">>>>

\* The gap before a token at depth d: only white space, or a comment too.
Edits(d, all) ==
  LET most == IF all THEN 2 ELSE 1
      deep == IF all THEN {0, d, d + 1} ELSE {d}
      after == IF all THEN {0, d} ELSE {d}
  IN {Gap(k, d) : k \in 0..2}
     \union {Gap(k, c) \o Comment(kind) \o Gap(m, e) :
               k \in 0..most, c \in deep, kind \in {"gen", IF d = 0 THEN "stars" ELSE "multi"},
               m \in 0..most, e \in after}
     \union {Gap(k, c) \o Comment("line") \o Gap(m, e) :
               k \in 0..most, c \in deep, m \in 1..most, e \in after}
     \union (IF all THEN {Gap(k, d) \o Comment(kind) \o Gap(1, d) : k \in 0..1, kind \in {"group", "groups"}}
             ELSE {})

\* What is reformatted above a declaration.
Docs == {Gap(2, 0) \o Comment(kind) \o Gap(1, 0) : kind \in {"tight", "empty", "multi"}}

Broken(gap) == \E i \in DOMAIN gap : gap[i] = NL \/ IsPrefix(<<"/", "/">>, gap[i])

SepOf(t, i) == IF i > Len(t.toks) THEN <<>> ELSE Sep(t.toks[i][1])
PreOf(t, i) == IF i > Len(t.toks) THEN <<NL>> ELSE White0(t.toks[i][1], t.toks[i][3])
TokOf(t, i) == IF i > Len(t.toks) THEN <<>> ELSE <<T(t.toks[i][2])>>
DepthOf(t, i) == IF i > Len(t.toks) THEN 0 ELSE t.toks[i][3]

\* An edit makes a newline a semicolon, or takes one away, only before the
\* closing brace of a block or the end.
Allowed(t, i) ==
  {gap \in Edits(DepthOf(t, i), t.all) :
     \/ SepOf(t, i) # <<>> \/ i \in t.ends \/ i > Len(t.toks)
     \/ ~ImpliesSemi(t.toks[i - 1][2]) \/ Broken(gap) = Broken(PreOf(t, i))}

\* The comments on a line of their own before the value of a range clause, which
\* the printer puts before the comma.
RangeValue(t, i) == i + 2 <= Len(t.toks) /\ t.toks[i + 2][1] = "range"
OwnLine(gap) == gap[1] = NL /\ \E k \in DOMAIN gap : gap[k][1] = "/"

\* A comment alone before a declaration other than the first, on its line: what
\* is printed moves once more, to a line of its own, when it is printed again.
DeclAfter(t, i, gap) ==
  OwnLine(gap) /\ Last(gap) = Blank /\ \E k \in 2..Len(t.decls) : t.decls[k].at = i

Texts(t, inRange) ==
  LET default == [i \in 1..(Len(t.toks) + 1) |-> SepOf(t, i) \o PreOf(t, i) \o TokOf(t, i)]
      gaps(i) == {SepOf(t, i) \o gap : gap \in {g \in Allowed(t, i) : (OwnLine(g) /\ RangeValue(t, i)) = inRange /\ ~DeclAfter(t, i, g)}}
                 \union (IF \E k \in DOMAIN t.decls : t.decls[k].at = i
                         THEN Docs ELSE {})
                 \union {<<Blank>> \o Comment("gen") \o SepOf(t, i) \o PreOf(t, i)}
  IN UNION {{FlattenSeq([default EXCEPT ![i] = gap \o TokOf(t, i)]) : gap \in gaps(i)} : i \in t.edits}

FilesOf(templates, inRange) ==
  UNION {{[text |-> x, decls |-> t.decls, ends |-> t.ends, pairs |-> t.pairs] : x \in Texts(t, inRange)}
           : t \in templates}

MCFiles == FilesOf(Templates, FALSE)
MCRangeFiles ==
  FilesOf({[t EXCEPT !.edits = {i \in @ : RangeValue(t, i)}] : t \in Templates}, TRUE)

================================================================================
