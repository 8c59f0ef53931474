----------------------------- MODULE MCDocComment -----------------------------
(* TLC instances of DocComment: comments of up to MaxLines lines. *)
EXTENDS DocComment, TLC

CONSTANT MaxLines

Text(lead, words) == Line(lead, words)

Shapes == {
  Blank,
  Text(<<>>, <<"x">>), Text(<<>>, <<"X">>), Text(<<>>, <<"x", "{">>), Text(<<>>, <<"}">>),
  Text(<<>>, <<"#", "x">>), Text(<<>>, <<"-", "x">>), Text(<<>>, <<"1.", "x">>),
  Text(<<>>, <<"[a]:", "url">>), Text(<<>>, <<"[a]">>),
  Text(<<"\t">>, <<"x">>), Text(<<" ", " ">>, <<"-", "x">>), Text(<<" ", " ">>, <<"[a]">>),
  Text(<<" ">>, <<"*", "x">>), Text(<<" ">>, <<>>)}

Directive == Text(<<>>, <<"go:x">>)
X == Text(<<>>, <<"x">>)

Texts == UNION {[1..n -> Shapes] : n \in 0..MaxLines}

Starts == {<<>>, <<X>>, <<X, Blank>>}

Slashes(text) == [k \in DOMAIN text |-> WithSlashes(text[k])]

\* With a directive somewhere.
Directed(text) == {SubSeq(text, 1, k) \o <<Directive>> \o SubSeq(text, k + 1, Len(text)) : k \in 0..Len(text)}

MCComments ==
  {c \in [style : {"//"},
          lines : {Slashes(start \o text) : start \in Starts, text \in Texts}
                  \union UNION {Directed(Slashes(text)) : text \in {t \in Texts : Len(t) < MaxLines}}]
         \union [style : {"/*"}, lines : {<<Blank, X>> \o text : text \in Texts}] :
     c.lines # <<>>}

================================================================================
