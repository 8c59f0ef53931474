----------------------------- MODULE MCSignatures -----------------------------
(* TLC instances of Signatures.  A file declares a function whose body has a   *)
(* return, a block with a literal that returns too, and another return; then   *)
(* come a variable that is a literal and an interface.  Others declare a       *)
(* method and a generic function, with literals in their signatures.           *)
EXTENDS Signatures, TLC

Bare == [kind |-> "", kids |-> <<>>, names |-> <<>>, line |-> 1, role |-> ""]
N(kind, kids)       == [Bare EXCEPT !.kind = kind, !.kids = kids]
Ident(name)         == [Bare EXCEPT !.kind = "Ident", !.names = <<name>>]
Return(names)       == [Bare EXCEPT !.kind = "ReturnStmt", !.names = names]
Field(names, type)  == [Bare EXCEPT !.kind = "Field", !.names = names, !.kids = <<type>>]
List(role, fields)  == [Bare EXCEPT !.kind = "FieldList", !.role = role, !.kids = fields]
Below(field)        == [field EXCEPT !.line = 2]

Func(params, results) ==
  N("FuncType", <<List("params", params), List("results", results)>>)
Lit(results) == N("FuncLit", <<Func(<<>>, results), N("BlockStmt", <<Return(<<>>)>>)>>)

\* func(p int, q int)
Apart == Func(<<Field(<<"p">>, Ident("int")), Field(<<"q">>, Ident("int"))>>, <<>>)

\* The places of a file, and what is there.
RECURSIVE Flat(_, _)
Flat(place, n) ==
  LET kid(k) == Append(place, k) IN
  FoldLeft(LAMBDA t, k : t @@ Flat(kid(k), n.kids[k]),
           place :> [n EXCEPT !.kids = [k \in 1..Len(n.kids) |-> kid(k)]],
           [k \in 1..Len(n.kids) |-> k])

Tree(params, results, inner, methods, return) ==
  Flat(File, N("File", <<
    N("FuncDecl", <<
      Func(params, results),
      N("BlockStmt", <<Return(return), N("BlockStmt", <<Lit(inner)>>), Return(<<>>)>>)>>),
    N("GenDecl", <<Lit(<<Field(<<"z">>, Ident("int"))>>)>>),
    N("GenDecl", <<N("InterfaceType", <<List("methods", methods)>>)>>)>>))

int    == Ident("int")
string == Ident("string")
Params == {Field(<<"a">>, int), Field(<<"g">>, int), Field(<<"c", "d">>, int),
           Field(<<"b">>, string), Below(Field(<<"e">>, int)), Field(<<"f">>, Apart)}
ParamLists ==
  {l \in UNION {[1..n -> Params] : n \in 0..3} : Cardinality(Range(l)) = Len(l)}
ResultLists ==
  {<<>>, <<Field(<<>>, int)>>, <<Field(<<"x">>, int), Field(<<"_">>, int)>>,
   <<Field(<<"x">>, int), Field(<<"y">>, int)>>,
   <<Field(<<"x">>, int), Field(<<"y">>, string)>>}
MethodLists ==
  {<<>>, <<Field(<<"M">>, Apart), Below(Field(<<"N">>, Apart))>>,
   <<Field(<<"M">>, Apart), Field(<<"N">>, Func(<<>>, <<>>)), Field(<<>>, Ident("E"))>>}
XY == <<Field(<<"x">>, int), Field(<<"y">>, int)>>

\* A method, then a generic function.
Body == N("BlockStmt", <<Return(<<>>)>>)
Generic(params) ==
  Flat(File, N("File", <<
    N("FuncDecl", <<List("recv", <<Field(<<"t">>, int)>>), Func(params, XY), Body>>),
    N("FuncDecl", <<
      N("FuncType", <<List("typeParams", <<Field(<<"P">>, int), Field(<<"Q">>, int)>>),
                      List("params", params), List("results", XY)>>),
      Body>>)>>))

\* Arrays as long as what a literal with a return of its own makes them.
Array(names) == Field(names, N("ArrayType", <<Lit(XY), int>>))
Arrays == {<<>>, <<Array(<<"h">>)>>, <<Array(<<"h">>), Array(<<"j">>)>>,
           <<Field(<<"a">>, int), Array(<<"h">>)>>}

MCFiles ==
  {Tree(p, XY, <<>>, <<>>, <<>>) : p \in ParamLists} \union
  {Tree(<<>>, r, i, m, return) : r \in ResultLists, i \in ResultLists,
                                 m \in MethodLists, return \in {<<>>, <<"x">>}} \union
  {Generic(p) : p \in Arrays}
MCRules == SUBSET {"group_params", "clothe_returns"}

\* Two methods of one type on one line.
MCInterfaceFiles ==
  {Tree(p, <<>>, <<>>, <<Field(<<"M">>, Apart), Field(<<"N">>, Apart)>>, <<>>) :
     p \in ParamLists}

=============================================================================
